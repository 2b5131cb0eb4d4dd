------------------------ MODULE ServiceRegistry_proofs ------------------------
(***************************************************************************)
(* Proofs about ServiceRegistry for every set of names and declarations    *)
(* and every bound: the registries, what refers to them, the digests, the  *)
(* operators of Routing, and the way of a call to its action.              *)
(***************************************************************************)
EXTENDS ServiceRegistry, WellFoundedInduction, TLAPS

(* The shape of the registries, and that a name is registered once in each.*)
AcceptedDeclarations ==
    {d \in Declarations : \A i \in 1 .. Len(d.actions) : d.actions[i].name \in UrlSafe}

ActionLists ==
    {[i \in 1 .. Len(d.actions) |-> Resolve(d.actions[i])] : d \in AcceptedDeclarations}

ResourceType == [name : ResourceNames \cap UrlSafe, actions : ActionLists]

RegistryType == [name : ServiceNames, resources : Seq(ResourceType)]

RegistriesSound ==
    /\ current \in Nat
    /\ registries \in Seq(RegistryType)
    /\ current <= Len(registries)
    /\ NamesAreUnique

LEMMA ResourcesType ==
    ASSUME RegistriesSound, NEW k \in 1 .. Len(registries)
    PROVE  registries[k] \in RegistryType /\ Resources(k) \in Seq(ResourceType)
<1>1. registries[k] \in RegistryType
  BY DEF RegistriesSound
<1> QED
  BY <1>1 DEF RegistryType, Resources

(* registerService adds an empty registry or throws before it did.         *)
LEMMA ServiceAdded ==
    ASSUME RegistriesSound, NEW name \in ServiceNames, RegisterService(name)
    PROVE  \/ UNCHANGED <<registries, current>>
           \/ /\ registries' \in Seq(RegistryType)
              /\ Len(registries') = Len(registries) + 1 /\ current' = Len(registries')
              /\ registries'[Len(registries) + 1].resources = <<>>
              /\ \A k \in 1 .. Len(registries) : registries'[k] = registries[k]
<1>1. CASE name \notin UrlSafe
  BY <1>1 DEF RegisterService
<1>2. CASE name \in UrlSafe
  <2> DEFINE fresh == [name |-> name, resources |-> <<>>]
  <2>1. registries' = Append(registries, fresh) /\ current' = Len(registries) + 1
    BY <1>2 DEF RegisterService
  <2>2. fresh \in RegistryType /\ fresh.resources = <<>>
    BY DEF RegistryType
  <2> HIDE DEF fresh
  <2> QED
    BY <2>1, <2>2 DEF RegistriesSound
<1> QED
  BY <1>1, <1>2

LEMMA ServiceKeeps ==
    ASSUME RegistriesSound, NEW name \in ServiceNames, RegisterService(name)
    PROVE  RegistriesSound'
<1>1. CASE UNCHANGED <<registries, current>>
  BY <1>1 DEF RegistriesSound, NamesAreUnique, Resources
<1>2. CASE ~UNCHANGED <<registries, current>>
  BY <1>2, ServiceAdded DEF RegistriesSound, NamesAreUnique, Resources
<1> QED
  BY <1>1, <1>2

(* A set of numbers has a least element.                                   *)
LEMMA LeastIsIn ==
    ASSUME NEW S \in SUBSET Nat, S # {}
    PROVE  Min(S) \in S
<1> DEFINE less == {p \in Nat \X Nat : p[1] < p[2]}
<1>1. \E x \in S : \A y \in S : <<y, x>> \notin less
  <2>1. IsWellFoundedOn(less, Nat)
    BY NatLessThanWellFounded DEF OpToRel
  <2> HIDE DEF less
  <2> QED
    BY <2>1, WFMin
<1>2. \A x, y \in S : <<y, x>> \notin less => x <= y
  OBVIOUS
<1>3. \E x \in S : \A y \in S : x <= y
  BY <1>1, <1>2
<1> QED
  BY <1>3 DEF Min

(* What registerResource accepts has nothing to be refused for, and what   *)
(* it refuses is refused for one of four reasons.                          *)
LEMMA NoOffence ==
    ASSUME NEW actions, Len(actions) \in Nat, FirstOffence(actions) = "none",
           NEW i \in 1 .. Len(actions)
    PROVE  Offence(actions[i]) = "none"
<1> DEFINE offending == {j \in 1 .. Len(actions) : Offence(actions[j]) # "none"}
<1>1. offending \in SUBSET Nat
  OBVIOUS
<1>2. ASSUME offending # {} PROVE FALSE
  <2>1. Min(offending) \in offending
    BY <1>1, <1>2, LeastIsIn
  <2>2. Offence(actions[Min(offending)]) = "none"
    BY <1>2 DEF FirstOffence
  <2> QED
    BY <2>1, <2>2
<1> QED
  BY <1>2

LEMMA RefusalType ==
    ASSUME NEW name, NEW actions
    PROVE  Refusal(name, actions) \in {"none", "name", "duplicate", "contract"}
<1>1. \A decl : Offence(decl) \in {"none", "name", "contract"}
  BY DEF Offence
<1>2. FirstOffence(actions) \in {"none", "name", "contract"}
  BY <1>1 DEF FirstOffence
<1> QED
  BY <1>2 DEF Refusal

(* registerResource adds one resource of a new name, or throws before it   *)
(* did, or after.                                                          *)
LEMMA ResourceAdded ==
    ASSUME RegistriesSound, NEW name \in ResourceNames, NEW d \in Declarations,
           RegisterResource(name, d)
    PROVE  \/ UNCHANGED <<registries, current>>
           \/ /\ current' = current /\ current \in 1 .. Len(registries)
              /\ ~IsRegistered(current, name)
              /\ registries' \in Seq(RegistryType) /\ Len(registries') = Len(registries)
              /\ \E resource \in ResourceType :
                   /\ resource.name = name
                   /\ registries'[current].resources = Append(Resources(current), resource)
              /\ \A k \in 1 .. Len(registries) : k # current => registries'[k] = registries[k]
<1>1. CASE Refusal(name, d.actions) # "none"
  BY <1>1 DEF RegisterResource
<1>2. CASE Refusal(name, d.actions) = "none"
  <2> DEFINE resource ==
               [name |-> name,
                actions |-> [i \in 1 .. Len(d.actions) |-> Resolve(d.actions[i])]]
             longer == Append(registries[current].resources, resource)
             changed == [registries[current] EXCEPT !.resources = longer]
  <2>1. /\ registries' = [registries EXCEPT ![current].resources = Append(@, resource)]
        /\ UNCHANGED current
    BY <1>2 DEF RegisterResource, AddResource
  <2>2. ~IsRegistered(current, name)
    BY <1>2 DEF Refusal
  <2>3. current \in 1 .. Len(registries) /\ registries[current] \in RegistryType
    BY DEF RegisterResource, RegistriesSound
  <2>4. resource \in ResourceType /\ resource.name = name
    <3>1. name \in UrlSafe /\ d \in AcceptedDeclarations
      <4>1. name \in UrlSafe /\ FirstOffence(d.actions) = "none"
        BY <1>2 DEF Refusal
      <4>2. Len(d.actions) \in Nat
        BY DeclarationsAssumption
      <4>3. \A i \in 1 .. Len(d.actions) : Offence(d.actions[i]) = "none"
        BY <4>1, <4>2, NoOffence
      <4> QED
        BY <4>1, <4>3 DEF AcceptedDeclarations, Offence
    <3> QED
      BY <3>1 DEF ResourceType, ActionLists
  <2>5. registries' = [registries EXCEPT ![current] = changed]
    BY <2>1, <2>3 DEF RegistriesSound
  <2> HIDE DEF resource
  <2>6. longer \in Seq(ResourceType)
    BY <2>3, <2>4 DEF RegistryType
  <2> HIDE DEF longer
  <2>7. changed \in RegistryType /\ changed.resources = longer
    BY <2>3, <2>6 DEF RegistryType
  <2> HIDE DEF changed
  <2>8. /\ registries' \in Seq(RegistryType) /\ Len(registries') = Len(registries)
        /\ registries'[current].resources = longer
        /\ \A k \in 1 .. Len(registries) : k # current => registries'[k] = registries[k]
    BY <2>3, <2>5, <2>7 DEF RegistriesSound
  <2> QED
    BY <2>1, <2>2, <2>4, <2>8 DEF Resources
<1> QED
  BY <1>1, <1>2

LEMMA ResourceKeeps ==
    ASSUME RegistriesSound, NEW name \in ResourceNames, NEW d \in Declarations,
           RegisterResource(name, d)
    PROVE  RegistriesSound'
<1>1. CASE UNCHANGED <<registries, current>>
  BY <1>1 DEF RegistriesSound, NamesAreUnique, Resources
<1>2. CASE ~UNCHANGED <<registries, current>>
  <2> DEFINE old == Resources(current)
  <2>1. PICK resource \in ResourceType :
          resource.name = name /\ registries'[current].resources = Append(old, resource)
    BY <1>2, ResourceAdded
  <2>2. /\ current' = current /\ current \in 1 .. Len(registries)
        /\ ~IsRegistered(current, name)
        /\ registries' \in Seq(RegistryType) /\ Len(registries') = Len(registries)
        /\ \A k \in 1 .. Len(registries) : k # current => registries'[k] = registries[k]
    BY <1>2, ResourceAdded
  <2>3. old \in Seq(ResourceType)
    BY <2>2, ResourcesType
  <2>4. \A i, j \in 1 .. Len(Append(old, resource)) :
          Append(old, resource)[i].name = Append(old, resource)[j].name => i = j
    BY <2>1, <2>2 DEF IsRegistered, RegistriesSound, NamesAreUnique
  <2>5. NamesAreUnique'
    BY <2>1, <2>2, <2>4 DEF RegistriesSound, NamesAreUnique, Resources
  <2> QED
    BY <2>2, <2>5 DEF RegistriesSound
<1> QED
  BY <1>1, <1>2

LEMMA RegistriesInitial == Init => RegistriesSound
  BY DEF Init, RegistriesSound, NamesAreUnique, Resources

LEMMA RegistriesInductive ==
    ASSUME RegistriesSound, [Next]_vars
    PROVE  RegistriesSound'
<1>1. ASSUME UNCHANGED <<registries, current>> PROVE RegistriesSound'
  BY <1>1 DEF RegistriesSound, NamesAreUnique, Resources
<1>2. \/ UNCHANGED <<registries, current>>
      \/ \E name \in ServiceNames : RegisterService(name)
      \/ \E name \in ResourceNames, d \in Declarations : RegisterResource(name, d)
  BY DEF Next, Boot, CallTooEarly, CreateRouter, ExtensionChanges, Discover,
     vars, serverVars
<1> QED
  BY <1>1, <1>2, ServiceKeeps, ResourceKeeps

LEMMA RegistriesHold == Spec => []RegistriesSound
  BY RegistriesInitial, RegistriesInductive, PTL DEF Spec

THEOREM UniqueNames == Spec => []NamesAreUnique
<1>1. RegistriesSound => NamesAreUnique
  BY DEF RegistriesSound
<1> QED
  BY <1>1, RegistriesHold, PTL

(* Registries and routers are never taken away: what a router or a client  *)
(* refers to stays.                                                        *)
Referred ==
    /\ \E S : routers \in Seq(S)
    /\ \A i \in 1 .. Len(routers) : routers[i].registry \in 1 .. Len(registries)
    /\ failure \in Failures
    /\ extension \in Extensions
    /\ held.router \in 0 .. Len(routers)
    /\ reply \in {0, 200, 304, 500}

LEMMA RegistriesStay ==
    ASSUME RegistriesSound, [Next]_vars
    PROVE  /\ Len(registries) \in Nat /\ Len(registries') \in Nat
           /\ Len(registries) <= Len(registries')
<1>1. Len(registries) \in Nat
  BY DEF RegistriesSound
<1>2. Len(registries') \in {Len(registries), Len(registries) + 1}
  BY ServiceAdded, ResourceAdded DEF Next, Boot, CallTooEarly, CreateRouter, ExtensionChanges,
     Discover, vars, serverVars
<1> QED
  BY <1>1, <1>2

LEMMA RouterAdded ==
    ASSUME RegistriesSound, Referred, CreateRouter
    PROVE  /\ Len(routers) \in Nat /\ Len(routers') = Len(routers) + 1
           /\ \E S : routers' \in Seq(S)
           /\ \A i \in 1 .. Len(routers) : routers'[i] = routers[i]
           /\ current \in 1 .. Len(registries)
           /\ routers'[Len(routers')] = [registry |-> current, routes |-> Routes(current)]
<1> DEFINE router == [registry |-> current, routes |-> Routes(current)]
<1>1. routers' = Append(routers, router) /\ current \in 1 .. Len(registries)
  BY DEF CreateRouter, RegistriesSound
<1>2. PICK S : routers \in Seq(S)
  BY DEF Referred
<1> HIDE DEF router
<1>3. routers \in Seq(S \cup {router}) /\ router \in S \cup {router}
  BY <1>2
<1>4. /\ routers' \in Seq(S \cup {router}) /\ Len(routers') = Len(routers) + 1
      /\ Len(routers) \in Nat /\ routers'[Len(routers')] = router
      /\ \A i \in 1 .. Len(routers) : routers'[i] = routers[i]
  BY <1>1, <1>3
<1> QED
  BY <1>1, <1>4 DEF router

LEMMA ReferredInductive ==
    ASSUME RegistriesSound, Referred, [Next]_vars
    PROVE  Referred'
<1>0. /\ Len(registries) \in Nat /\ Len(registries') \in Nat
      /\ Len(registries) <= Len(registries')
  BY RegistriesStay
<1>1. PICK S : routers \in Seq(S)
  BY DEF Referred
<1>2. ASSUME UNCHANGED <<routers, held>>, failure' \in Failures, extension' \in Extensions,
             reply' \in {0, 200, 304, 500}
      PROVE  Referred'
  <2>1. routers' \in Seq(S) /\ Len(routers') = Len(routers) /\ Len(routers) \in Nat
    BY <1>1, <1>2
  <2>2. \A i \in 1 .. Len(routers') : routers'[i].registry \in 1 .. Len(registries')
    BY <1>0, <1>2 DEF Referred
  <2>3. held'.router \in 0 .. Len(routers')
    BY <1>2 DEF Referred
  <2> QED
    BY <1>2, <2>1, <2>2, <2>3 DEF Referred
<1>3. CASE Boot /\ UNCHANGED routers
  <2>1. failure' \in Failures
    BY <1>3, RefusalType
       DEF Boot, RegisterService, RegisterResource, CallTooEarly, CreateRouter, Failures
  <2>2. UNCHANGED <<routers, extension, held, reply>>
    BY <1>3 DEF Boot, RegisterService, RegisterResource, CallTooEarly, CreateRouter, clientVars
  <2>3. extension \in Extensions /\ reply \in {0, 200, 304, 500}
    BY DEF Referred
  <2> QED
    BY <1>2, <2>1, <2>2, <2>3
<1>4. CASE CreateRouter
  <2>1. \A i \in 1 .. Len(routers') : routers'[i].registry \in 1 .. Len(registries')
    <3>1. \A i \in 1 .. Len(routers') : i \in 1 .. Len(routers) \/ i = Len(routers')
      BY <1>4, RouterAdded
    <3> QED
      BY <1>0, <1>4, <3>1, RouterAdded DEF Referred
  <2>2. UNCHANGED <<held, extension, reply>> /\ failure' \in Failures
    BY <1>4 DEF CreateRouter, clientVars, Failures
  <2>3. held'.router \in 0 .. Len(routers')
    BY <1>4, <2>2, RouterAdded DEF Referred
  <2>4. \E T : routers' \in Seq(T)
    BY <1>4, RouterAdded
  <2> QED
    BY <2>1, <2>2, <2>3, <2>4 DEF Referred
<1>5. CASE ExtensionChanges
  BY <1>2, <1>5 DEF ExtensionChanges, Referred, clientVars
<1>6. ASSUME NEW router \in 1 .. Len(routers), Discover(router)
      PROVE  Referred'
  <2>1. Len(routers) \in Nat
    BY <1>1
  <2>2. held'.router \in 0 .. Len(routers) /\ reply' \in {0, 200, 304, 500}
    BY <1>6, <2>1 DEF Discover, Referred
  <2> QED
    BY <1>6, <2>2 DEF Discover, Referred, serverVars
<1>7. CASE UNCHANGED vars
  BY <1>7 DEF vars, serverVars, clientVars, Referred
<1> QED
  BY <1>3, <1>4, <1>5, <1>6, <1>7 DEF Next, Boot, RegisterService, RegisterResource, CallTooEarly

LEMMA ReferredHolds == Spec => []Referred
<1>1. Init => Referred
  BY DEF Init, Referred, NothingHeld, Failures, Extensions
<1> QED
  BY <1>1, RegistriesHold, ReferredInductive, PTL DEF Spec

(* Every router has a registry, the client a router of the process, and no *)
(* boot call fails in a way the code does not name.                        *)
THEOREM TypeCorrect == Spec => []TypeOK
<1>1. ASSUME RegistriesSound, Referred PROVE TypeOK
  <2>1. Len(registries) \in Nat /\ current \in 0 .. Len(registries)
    BY <1>1 DEF RegistriesSound
  <2>2. ASSUME NEW k \in 1 .. Len(registries) PROVE registries[k].name \in ServiceNames
    BY <1>1, ResourcesType DEF RegistryType
  <2> QED
    BY <1>1, <2>1, <2>2 DEF Referred, TypeOK
<1> QED
  BY <1>1, RegistriesHold, ReferredHolds, PTL

(* What a client keeps beside a manifest is the digest of that manifest.   *)
HeldSound == held.etag \in {{}, {Digest(held.manifest)}}

(* With a digest that tells manifests apart, a 304 means that the client   *)
(* holds what the service would send, at any time and of any router.       *)
THEOREM NotModifiedIsTrue ==
    ASSUME \A m1, m2 : Digest(m1) = Digest(m2) => m1 = m2
    PROVE  Spec => []EtagNamesManifest
<1>1. Init => HeldSound
  BY DEF Init, HeldSound, NothingHeld
<1>2. ASSUME HeldSound, [Next]_vars PROVE HeldSound'
  <2>1. ASSUME UNCHANGED held PROVE HeldSound'
    BY <1>2, <2>1 DEF HeldSound
  <2>2. ASSUME NEW router \in 1 .. Len(routers), Discover(router) PROVE HeldSound'
    BY <2>1, <2>2 DEF Discover, HeldSound, Etag
  <2> QED
    BY <1>2, <2>1, <2>2 DEF Next, Boot, RegisterService, RegisterResource, CallTooEarly,
       CreateRouter, ExtensionChanges, vars, clientVars
<1>3. HeldSound => EtagNamesManifest
  BY DEF HeldSound, EtagNamesManifest, Etag
<1> QED
  BY <1>1, <1>2, <1>3, PTL DEF Spec

-----------------------------------------------------------------------------
(* From a declaration to the routes and the URL of its action.             *)

(* No literal segment that the URL parser or the router would take out.    *)
Plain(path) == \A j \in 1 .. Len(path) : path[j].param \/ path[j].name \notin Unplain

(* The segments paths are made of.  The provers cannot tell that "id" is   *)
(* one of STRING, hence that Id is one of Segments.                        *)
PathSegments == Segments \cup {Id}

LEMMA SegmentTypes ==
    /\ Id \in PathSegments /\ Id.param
    /\ \A name : Literal(name).name = name /\ ~Literal(name).param
    /\ \A name \in STRING : Literal(name) \in PathSegments
<1>1. \A flag \in BOOLEAN, name \in STRING : [param |-> flag, name |-> name] \in Segments
  BY DEF Segments
<1>2. \A name \in STRING : Literal(name) \in Segments
  BY <1>1, Zenon DEF Literal
<1>3. Id.param /\ \A name : ~Literal(name).param
  BY Zenon DEF Id, Param, Literal
<1>4. \A name : Literal(name).name = name
  BY DEF Literal
<1> QED
  BY <1>2, <1>3, <1>4 DEF PathSegments

(* The path of an action is declared, or made of the id and the action's   *)
(* name: plain in every case.                                              *)
LEMMA ResolvedPath ==
    ASSUME NEW decl \in DeclaredActions, decl.name \in UrlSafe,
           \A path \in decl.path : Plain(path)
    PROVE  Resolve(decl).path \in Seq(PathSegments) /\ Plain(Resolve(decl).path)
<1> DEFINE Good(path) == path \in Seq(PathSegments) /\ Plain(path)
           rules == Convention(decl.name)
           named == <<Id, Literal(decl.name)>>
<1>1. Good(<<>>) /\ Good(<<Id>>)
  BY SegmentTypes DEF Plain
<1>2. Good(named)
  <2>1. decl.name \in STRING /\ decl.name \notin Unplain
    BY NamesAssumption DEF DeclaredActions
  <2>2. \A a, b \in PathSegments : <<a, b>> \in Seq(PathSegments) /\ Len(<<a, b>>) = 2
    OBVIOUS
  <2>3. Id \in PathSegments /\ Literal(decl.name) \in PathSegments
    BY <2>1, SegmentTypes
  <2>4. named \in Seq(PathSegments) /\ Len(named) = 2
    BY <2>2, <2>3
  <2>5. named[1].param /\ named[2].name \notin Unplain
    BY <2>1, SegmentTypes
  <2>6. \A j \in 1 .. 2 : j = 1 \/ j = 2
    OBVIOUS
  <2> HIDE DEF named
  <2> QED
    BY <2>4, <2>5, <2>6 DEF Plain
<1>3. \A r \in rules : Good(r.path)
  <2>1. \A r \in rules : r.path \in {<<>>, <<Id>>}
    BY DEF Convention, Rule
  <2> QED
    BY <1>1, <2>1
<1>4. Good(Or({r.path : r \in rules}, named))
  <2> HIDE DEF rules, named, Good
  <2> QED
    BY <1>2, <1>3 DEF Or
<1>5. \A path \in decl.path : Good(path)
  BY DEF DeclaredActions, PathSegments
<1>6. Good(Or(decl.path, Or({r.path : r \in rules}, named)))
  <2> HIDE DEF rules, named, Good
  <2> QED
    BY <1>4, <1>5 DEF Or
<1>7. Resolve(decl).path = Or(decl.path, Or({r.path : r \in rules}, named))
  BY DEF Resolve
<1> QED
  BY <1>6, <1>7

(* The URL of an action keeps every segment of its path.                   *)
LEMMA UrlKeepsPath ==
    ASSUME NEW name, name \notin Unplain, NEW id, id \notin Unplain, NEW action,
           action.path \in Seq(PathSegments), Plain(action.path)
    PROVE  /\ Len(Url(name, action, id)) = Len(action.path) + 1
           /\ Url(name, action, id)[1] = Literal(name)
           /\ \A i \in 1 .. Len(action.path) :
                Url(name, action, id)[i + 1] =
                  IF action.path[i].param THEN Literal(id) ELSE action.path[i]
<1> DEFINE rest == Substituted(action, id)
           whole == <<Literal(name)>> \o rest
           Names == {whole[i].name : i \in 1 .. Len(whole)}
<1>1. /\ Len(action.path) \in Nat /\ Len(rest) = Len(action.path)
      /\ \A i \in 1 .. Len(rest) :
           rest[i] = IF action.path[i].param THEN Literal(id) ELSE action.path[i]
  BY DEF Substituted
<1>2. rest \in Seq(PathSegments \cup {Literal(id)})
  BY <1>1 DEF Substituted
<1>3. /\ Len(whole) = Len(rest) + 1 /\ whole[1] = Literal(name)
      /\ \A i \in 1 .. Len(rest) : whole[i + 1] = rest[i]
  <2> HIDE DEF rest
  <2> QED
    BY <1>2
<1>4. \A i \in 1 .. Len(whole) : whole[i].name \notin Unplain
  <2>1. \A i \in 1 .. Len(rest) : rest[i].name \notin Unplain
    BY <1>1 DEF Plain, Literal
  <2>2. Literal(name).name = name
    BY DEF Literal
  <2>3. \A i \in 1 .. Len(whole) : i = 1 \/ \E j \in 1 .. Len(rest) : i = j + 1
    BY <1>1, <1>3
  <2> HIDE DEF rest, whole
  <2> QED
    BY <1>3, <2>1, <2>2, <2>3
<1>5. WithoutDots(whole) = whole
  <2> HIDE DEF whole
  <2> QED
    BY <1>4, Zenon DEF WithoutDots, Unplain
<1>6. WithoutTrailingSlash(whole) = whole
  <2>1. Len(whole) \in 1 .. Len(whole)
    BY <1>1, <1>3
  <2> HIDE DEF whole
  <2> QED
    BY <1>4, <2>1, Zenon DEF WithoutTrailingSlash, Last, Unplain
<1>7. Url(name, action, id) = whole
  BY <1>5, <1>6 DEF Url
<1> HIDE DEF whole
<1> QED
  BY <1>1, <1>3, <1>7

IsTable(table) ==
    /\ Len(table) \in Nat
    /\ \A g \in 1 .. Len(table) : Len(table[g]) \in Nat

(* What takes a request is a route that matches it, and some route does    *)
(* when one matches.                                                       *)
LEMMA TargetIsAHit ==
    ASSUME NEW table, IsTable(table), NEW method, NEW url
    PROVE  \/ /\ Target(table, method, url) = NotFound
              /\ \A g \in 1 .. Len(table), i \in Nat :
                   i \in 1 .. Len(table[g]) => ~Matches(table[g][i], method, url)
           \/ \E g \in 1 .. Len(table), i \in Nat :
                /\ i \in 1 .. Len(table[g])
                /\ Matches(table[g][i], method, url)
                /\ Target(table, method, url) = table[g][i].target
<1> DEFINE groups == {g \in 1 .. Len(table) : Hits(table[g], method, url) # {}}
           first == Min(groups)
           in == Hits(table[first], method, url)
<1>1. \A g \in 1 .. Len(table) : Hits(table[g], method, url) \in SUBSET Nat
  BY DEF Hits, IsTable
<1>2. CASE groups = {}
  <2>1. \A g \in 1 .. Len(table) : Hits(table[g], method, url) = {}
    BY <1>2
  <2>2. Target(table, method, url) = NotFound
    BY <1>2 DEF Target
  <2> QED
    BY <2>1, <2>2 DEF Hits
<1>3. CASE groups # {}
  <2>1. groups \in SUBSET Nat
    OBVIOUS
  <2>2. first \in groups
    <3> HIDE DEF groups
    <3> QED
      BY <1>3, <2>1, LeastIsIn
  <2>3. in # {} /\ in \in SUBSET Nat
    BY <1>1, <2>2
  <2>4. Min(in) \in in
    <3> HIDE DEF in
    <3> QED
      BY <2>3, LeastIsIn
  <2>5. Target(table, method, url) = table[first][Min(in)].target
    BY <1>3 DEF Target
  <2>6. Min(in) \in 1 .. Len(table[first]) /\ Matches(table[first][Min(in)], method, url)
    BY <2>4 DEF Hits
  <2>7. first \in 1 .. Len(table) /\ Min(in) \in Nat
    BY <2>2, <2>3, <2>4
  <2> HIDE DEF first, in
  <2> QED
    BY <2>5, <2>6, <2>7
<1> QED
  BY <1>2, <1>3

-----------------------------------------------------------------------------
(* Where the routes of a router and the resources a client knows come from.*)

Registered(k) == ToSet(Resources(k))

Tables(k) == Seq({OwnRoutes} \cup {RoutesOf(resource) : resource \in Registered(k)})

Traced ==
    /\ \A i \in 1 .. Len(routers) : routers[i].routes \in Tables(routers[i].registry)
    /\ \/ held.manifest.registry.resources = <<>>
       \/ /\ held.router \in 1 .. Len(routers)
          /\ ToSet(held.manifest.registry.resources)
               \subseteq Registered(routers[held.router].registry)

LEMMA ResourcesStay ==
    ASSUME RegistriesSound, [Next]_vars, NEW k \in 1 .. Len(registries)
    PROVE  Registered(k) \subseteq Registered(k)'
<1>1. Resources(k) \in Seq(ResourceType)
  BY ResourcesType
<1>2. ASSUME registries'[k] = registries[k] PROVE Registered(k) \subseteq Registered(k)'
  BY <1>2 DEF Registered, Resources
<1>3. ASSUME NEW resource, Resources(k)' = Append(Resources(k), resource)
      PROVE  Registered(k) \subseteq Registered(k)'
  <2>1. \A i \in DOMAIN Resources(k) :
          i \in DOMAIN Resources(k)' /\ Resources(k)'[i] = Resources(k)[i]
    BY <1>1, <1>3
  <2> QED
    BY <2>1 DEF Registered, ToSet
<1>4. ASSUME NEW name \in ServiceNames, RegisterService(name)
      PROVE  Registered(k) \subseteq Registered(k)'
  BY <1>2, <1>4, ServiceAdded
<1>5. ASSUME NEW name \in ResourceNames, NEW d \in Declarations, RegisterResource(name, d)
      PROVE  Registered(k) \subseteq Registered(k)'
  <2>1. CASE k = current /\ ~UNCHANGED <<registries, current>>
    BY <1>3, <1>5, <2>1, ResourceAdded DEF Resources
  <2> QED
    BY <1>2, <1>5, <2>1, ResourceAdded
<1> QED
  BY <1>2, <1>4, <1>5 DEF Next, Boot, CallTooEarly, CreateRouter, ExtensionChanges, Discover,
     vars, serverVars

LEMMA RoutersStay ==
    ASSUME RegistriesSound, Referred, [Next]_vars, NEW i \in 1 .. Len(routers)
    PROVE  i \in 1 .. Len(routers') /\ routers'[i] = routers[i]
<1>1. CASE UNCHANGED routers
  BY <1>1
<1>2. CASE CreateRouter
  BY <1>2, RouterAdded
<1> QED
  BY <1>2
     DEF Next, Boot, RegisterService, RegisterResource, CallTooEarly, ExtensionChanges,
         Discover, vars, serverVars

(* A router is built from the resources its registry has at the time.      *)
LEMMA NewTable ==
    ASSUME RegistriesSound, NEW k \in 1 .. Len(registries)
    PROVE  Routes(k) \in Tables(k)
<1> DEFINE Of == {RoutesOf(resource) : resource \in Registered(k)}
           mounted == [i \in 1 .. Len(Resources(k)) |-> RoutesOf(Resources(k)[i])]
<1>1. Resources(k) \in Seq(ResourceType)
  BY ResourcesType
<1>2. mounted \in Seq(Of)
  BY <1>1 DEF Registered, ToSet
<1> HIDE DEF Of, mounted
<1>3. <<OwnRoutes>> \o mounted \in Seq({OwnRoutes} \cup Of)
  <2> DEFINE own == OwnRoutes
  <2> HIDE DEF own
  <2>1. <<own>> \in Seq({own} \cup Of) /\ mounted \in Seq({own} \cup Of)
    BY <1>2
  <2>2. <<own>> \o mounted \in Seq({own} \cup Of)
    BY <2>1
  <2> QED
    BY <2>2 DEF own
<1> QED
  BY <1>3 DEF Routes, Tables, Of, mounted

LEMMA TablesStay ==
    ASSUME RegistriesSound, [Next]_vars, NEW k \in 1 .. Len(registries)
    PROVE  Tables(k) \subseteq Tables(k)'
  BY ResourcesStay DEF Tables

LEMMA TracedInductive ==
    ASSUME RegistriesSound, Referred, Traced, [Next]_vars
    PROVE  Traced'
<1>1. ASSUME NEW i \in 1 .. Len(routers')
      PROVE  \E k : k = routers'[i].registry /\ routers'[i].routes \in Tables(k)'
  <2>1. CASE i \in 1 .. Len(routers)
    <3>1. PICK k \in 1 .. Len(registries) : k = routers[i].registry
      BY <2>1 DEF Referred
    <3>2. routers[i].routes \in Tables(k)
      BY <2>1, <3>1 DEF Traced
    <3> QED
      BY <2>1, <3>1, <3>2, RoutersStay, TablesStay
  <2>2. CASE i \notin 1 .. Len(routers)
    <3>1. CreateRouter
      BY <2>2 DEF Next, Boot, RegisterService, RegisterResource, CallTooEarly,
         ExtensionChanges, Discover, vars, serverVars
    <3>2. i = Len(routers')
      BY <2>2, <3>1, RouterAdded
    <3>3. PICK k \in 1 .. Len(registries) : k = current
      BY <3>1, RouterAdded
    <3>4. routers'[i] = [registry |-> k, routes |-> Routes(k)]
      BY <3>1, <3>2, <3>3, RouterAdded
    <3> QED
      BY <3>4, NewTable, TablesStay
  <2> QED
    BY <2>1, <2>2
<1>2. \/ held'.manifest.registry.resources = <<>>
      \/ \E k : /\ held'.router \in 1 .. Len(routers') /\ k = routers'[held'.router].registry
                /\ ToSet(held'.manifest.registry.resources) \subseteq Registered(k)'
  <2>1. ASSUME UNCHANGED held, held.manifest.registry.resources # <<>>
        PROVE  \E k : /\ held'.router \in 1 .. Len(routers') /\ k = routers'[held'.router].registry
                      /\ ToSet(held'.manifest.registry.resources) \subseteq Registered(k)'
    <3>1. held.router \in 1 .. Len(routers)
      BY <2>1 DEF Traced
    <3>2. PICK k \in 1 .. Len(registries) : k = routers[held.router].registry
      BY <3>1 DEF Referred
    <3>3. ToSet(held.manifest.registry.resources) \subseteq Registered(k)
      BY <2>1, <3>2 DEF Traced
    <3> QED
      BY <2>1, <3>1, <3>2, <3>3, RoutersStay, ResourcesStay
  <2>2. ASSUME NEW router \in 1 .. Len(routers), Discover(router), ~UNCHANGED held
        PROVE  \E k : /\ held'.router \in 1 .. Len(routers') /\ k = routers'[held'.router].registry
                      /\ ToSet(held'.manifest.registry.resources) \subseteq Registered(k)'
    <3>1. PICK k \in 1 .. Len(registries) : k = routers[router].registry
      BY DEF Referred
    <3>2. held'.router = router /\ held'.manifest.registry.resources = Resources(k)
      BY <2>2, <3>1 DEF Discover, Manifest, Resources
    <3>3. UNCHANGED <<routers, registries>>
      BY <2>2 DEF Discover, serverVars
    <3> QED
      BY <3>1, <3>2, <3>3 DEF Registered, Resources
  <2>3. UNCHANGED held \/ \E router \in 1 .. Len(routers) : Discover(router)
    BY DEF Next, Boot, RegisterService, RegisterResource, CallTooEarly, CreateRouter,
       ExtensionChanges, vars, clientVars
  <2> QED
    BY <2>1, <2>2, <2>3
<1> QED
  BY <1>1, <1>2 DEF Traced, Tables, Registered, Resources

LEMMA TracedHolds == Spec => []Traced
<1>1. Init => Traced
  BY DEF Init, Traced, NothingHeld
<1> QED
  BY <1>1, RegistriesHold, ReferredHolds, TracedInductive, PTL DEF Spec

-----------------------------------------------------------------------------
(* The call by a manifest reaches the action it names.                     *)

(* No declared path has an empty or a dot segment.                         *)
PlainPaths ==
    \A d \in Declarations : \A i \in 1 .. Len(d.actions) :
        \A path \in d.actions[i].path : Plain(path)

LEMMA ActionsSound ==
    ASSUME PlainPaths, NEW resource \in ResourceType
    PROVE  /\ resource.name \notin Unplain /\ Len(resource.actions) \in Nat
           /\ DOMAIN resource.actions = 1 .. Len(resource.actions)
           /\ \A action \in ToSet(resource.actions) :
                action.path \in Seq(PathSegments) /\ Plain(action.path)
<1>1. resource.name \notin Unplain
  BY NamesAssumption DEF ResourceType
<1>2. PICK d \in AcceptedDeclarations :
        resource.actions = [i \in 1 .. Len(d.actions) |-> Resolve(d.actions[i])]
  BY DEF ResourceType, ActionLists
<1>3. d.actions \in Seq(DeclaredActions) /\ Len(d.actions) \in Nat
  BY DeclarationsAssumption DEF AcceptedDeclarations
<1>4. Len(resource.actions) = Len(d.actions) /\ DOMAIN resource.actions = 1 .. Len(d.actions)
  BY <1>2, <1>3
<1>5. ASSUME NEW i \in 1 .. Len(d.actions)
      PROVE  resource.actions[i].path \in Seq(PathSegments) /\ Plain(resource.actions[i].path)
  <2>1. /\ d.actions[i] \in DeclaredActions /\ d.actions[i].name \in UrlSafe
        /\ \A path \in d.actions[i].path : Plain(path)
    BY <1>3 DEF AcceptedDeclarations, PlainPaths
  <2>2. resource.actions[i] = Resolve(d.actions[i])
    BY <1>2
  <2> QED
    BY <2>1, <2>2, ResolvedPath
<1> QED
  BY <1>1, <1>3, <1>4, <1>5 DEF ToSet

(* The route of an action of a resource.                                   *)
OwnRoute(resource, action) ==
    Route(action.method, <<Literal(resource.name)>> \o action.path,
          <<resource.name, action.name>>)

LEMMA OwnPath ==
    ASSUME NEW resource, NEW action, action.path \in Seq(PathSegments)
    PROVE  LET route == OwnRoute(resource, action)
           IN  /\ route.method = action.method
               /\ route.target = <<resource.name, action.name>>
               /\ Len(action.path) \in Nat /\ Len(route.path) = Len(action.path) + 1
               /\ route.path[1] = Literal(resource.name)
               /\ \A i \in 1 .. Len(action.path) : route.path[i + 1] = action.path[i]
<1> DEFINE first == Literal(resource.name)
           path == action.path
<1>1. path \in Seq(PathSegments \cup {first}) /\ <<first>> \in Seq(PathSegments \cup {first})
  OBVIOUS
<1> HIDE DEF first, path
<1>2. /\ Len(path) \in Nat /\ Len(<<first>> \o path) = Len(path) + 1
      /\ (<<first>> \o path)[1] = first
      /\ \A i \in 1 .. Len(path) : (<<first>> \o path)[i + 1] = path[i]
  BY <1>1
<1> QED
  BY <1>2 DEF OwnRoute, Route, first, path

(* The request for an action matches the action's route.                   *)
LEMMA OwnRouteMatches ==
    ASSUME NEW resource, resource.name \notin Unplain, NEW id, id \notin Unplain, NEW action,
           action.path \in Seq(PathSegments), Plain(action.path)
    PROVE  Matches(OwnRoute(resource, action), action.method, Url(resource.name, action, id))
<1> DEFINE route == OwnRoute(resource, action)
           url == Url(resource.name, action, id)
<1>0. Len(action.path) \in Nat /\ Len(url) = Len(action.path) + 1
  BY UrlKeepsPath
<1>1. ASSUME NEW i \in 1 .. Len(url)
      PROVE  IF route.path[i].param THEN url[i].name # "" ELSE Alike(route.path[i], url[i])
  <2>1. CASE i = 1
    <3>1. route.path[i] = Literal(resource.name) /\ url[i] = Literal(resource.name)
      BY <2>1, OwnPath, UrlKeepsPath
    <3> HIDE DEF route, url
    <3> QED
      BY <3>1, SegmentTypes, Zenon DEF Alike
  <2>2. CASE i # 1
    <3>1. PICK j \in 1 .. Len(action.path) : i = j + 1
      <4>1. i - 1 \in 1 .. Len(action.path) /\ i = (i - 1) + 1
        BY <1>0, <2>2
      <4> QED
        BY <4>1
    <3>2. /\ route.path[i] = action.path[j]
          /\ url[i] = IF action.path[j].param THEN Literal(id) ELSE action.path[j]
      BY <3>1, OwnPath, UrlKeepsPath
    <3> HIDE DEF route, url
    <3> QED
      BY <3>2, SegmentTypes, Zenon DEF Unplain, Alike
  <2> QED
    BY <2>1, <2>2, Zenon
<1>2. route.method = action.method /\ Len(route.path) = Len(url)
  BY OwnPath, UrlKeepsPath
<1> HIDE DEF route, url
<1> QED
  BY <1>1, <1>2, Zenon DEF Matches, route, url

(* Any other route that matches it overlaps with the action's route.       *)
LEMMA RivalOverlaps ==
    ASSUME NEW resource, resource.name \notin Unplain, NEW id, id \notin Unplain, NEW action,
           action.path \in Seq(PathSegments), Plain(action.path),
           NEW rival, Matches(rival, action.method, Url(resource.name, action, id))
    PROVE  Overlap(rival, OwnRoute(resource, action))
<1> DEFINE route == OwnRoute(resource, action)
           url == Url(resource.name, action, id)
<1>0. Len(action.path) \in Nat /\ Len(url) = Len(action.path) + 1
  BY UrlKeepsPath
<1>1. /\ rival.method = action.method /\ Len(rival.path) = Len(url)
      /\ \A i \in 1 .. Len(url) : rival.path[i].param \/ Alike(rival.path[i], url[i])
  BY Zenon DEF Matches
<1>2. ASSUME NEW i \in 1 .. Len(url) PROVE route.path[i].param \/ route.path[i] = url[i]
  <2>1. CASE i = 1
    BY <2>1, OwnPath, UrlKeepsPath
  <2>2. CASE i # 1
    <3>1. PICK j \in 1 .. Len(action.path) : i = j + 1
      <4>1. i - 1 \in 1 .. Len(action.path) /\ i = (i - 1) + 1
        BY <1>0, <2>2
      <4> QED
        BY <4>1
    <3>2. /\ route.path[i] = action.path[j]
          /\ url[i] = IF action.path[j].param THEN Literal(id) ELSE action.path[j]
      BY <3>1, OwnPath, UrlKeepsPath
    <3> HIDE DEF route, url
    <3> QED
      BY <3>2
  <2> QED
    BY <2>1, <2>2
<1>3. route.method = action.method /\ Len(route.path) = Len(url)
  BY OwnPath, UrlKeepsPath
<1> HIDE DEF route, url
<1> QED
  BY <1>1, <1>2, <1>3 DEF Overlap, Alike, route

(* Routes of another resource match no request for this one.               *)
LEMMA OtherResourcesDoNotMatch ==
    ASSUME PlainPaths, NEW resource \in ResourceType, NEW id, id \notin Unplain,
           NEW action, action.path \in Seq(PathSegments), Plain(action.path),
           NEW other \in ResourceType, NEW i \in 1 .. Len(other.actions),
           Matches(RoutesOf(other)[i], action.method, Url(resource.name, action, id))
    PROVE  other.name = resource.name
<1> DEFINE theirs == other.actions[i]
           url == Url(resource.name, action, id)
<1>1. theirs \in ToSet(other.actions)
  BY ActionsSound DEF ToSet
<1>2. theirs.path \in Seq(PathSegments)
  BY <1>1, ActionsSound
<1>3. RoutesOf(other)[i] = OwnRoute(other, theirs)
  BY DEF RoutesOf, OwnRoute
<1>4. OwnRoute(other, theirs).path[1] = Literal(other.name)
  BY <1>2, OwnPath
<1>5. Len(url) >= 1 /\ Len(url) \in Nat /\ url[1] = Literal(resource.name)
  BY ActionsSound, UrlKeepsPath
<1>6. Matches(OwnRoute(other, theirs), action.method, url)
  BY <1>3
<1> HIDE DEF url, theirs
<1>7. Alike(OwnRoute(other, theirs).path[1], url[1])
  <2>1. 1 \in 1 .. Len(url) /\ ~OwnRoute(other, theirs).path[1].param
    BY <1>4, <1>5, SegmentTypes
  <2> QED
    BY <1>6, <2>1, Zenon DEF Matches
<1>8. Lower(other.name) = Lower(resource.name)
  BY <1>4, <1>5, <1>7, SegmentTypes, Zenon DEF Alike
<1> QED
  BY <1>8, NamesAssumption DEF ResourceType

(* The targets of the router's own endpoints, of actions and of nothing    *)
(* differ.                                                                 *)
LEMMA OwnTargets ==
    /\ DOMAIN OwnRoutes = {1, 2} /\ Len(OwnRoutes) = 2
    /\ \A route \in ToSet(OwnRoutes) :
         route.target \in {<<"discovery">>, <<"health">>} /\ route.target # NotFound
    /\ \A resource, action : <<resource, action>> \notin {<<"discovery">>, <<"health">>, NotFound}
<1>1. DOMAIN OwnRoutes = {1, 2} /\ Len(OwnRoutes) = 2
  BY DEF OwnRoutes
<1>2. OwnRoutes[1].target = <<"discovery">> /\ OwnRoutes[2].target = <<"health">>
  BY DEF OwnRoutes, Route
<1>3. \A route \in ToSet(OwnRoutes) : route.target \in {<<"discovery">>, <<"health">>}
  BY <1>1, <1>2 DEF ToSet
<1>4. <<"discovery">> # NotFound /\ <<"health">> # NotFound
  BY DEF NotFound
<1>5. \A resource, action : <<resource, action>> \notin {<<"discovery">>, <<"health">>, NotFound}
  BY DEF NotFound
<1> QED
  BY <1>1, <1>3, <1>4, <1>5

(* Once the routes are the registry's and the manifest is the registry's,  *)
(* names being unique, a request for an action finds its resource's routes *)
(* or the router's own.                                                    *)
LEMMA ReachesOwn ==
    ASSUME PlainPaths, RegistriesSound, NEW k \in 1 .. Len(registries),
           NEW table \in Tables(k), NEW resource \in Registered(k),
           NEW action \in ToSet(resource.actions), NEW id, id \notin Unplain
    PROVE  LET own == <<resource.name, action.name>>
               rivals == ToSet(OwnRoutes) \cup ToSet(RoutesOf(resource))
               target == Target(table, action.method, Url(resource.name, action, id))
           IN  /\ \/ target = NotFound
                  \/ \E rival \in rivals :
                       target = rival.target /\ Overlap(rival, OwnRoute(resource, action))
               /\ target = NotFound =>
                    ~ \E group \in ToSet(table) : \E route \in ToSet(group) : route.target = own
<1> DEFINE own == <<resource.name, action.name>>
           rivals == ToSet(OwnRoutes) \cup ToSet(RoutesOf(resource))
           url == Url(resource.name, action, id)
           target == Target(table, action.method, url)
<1>1. \A other \in Registered(k) : other \in ResourceType
  BY ResourcesType DEF Registered, ToSet
<1>2. \A other \in Registered(k) : other.name = resource.name => other = resource
  BY ResourcesType DEF Registered, ToSet, RegistriesSound, NamesAreUnique
<1>3. /\ resource.name \notin Unplain /\ Len(resource.actions) \in Nat
      /\ DOMAIN resource.actions = 1 .. Len(resource.actions)
      /\ action.path \in Seq(PathSegments) /\ Plain(action.path)
  BY <1>1, ActionsSound
<1>4. \A other \in Registered(k) :
        /\ DOMAIN RoutesOf(other) = 1 .. Len(other.actions)
        /\ Len(RoutesOf(other)) = Len(other.actions) /\ Len(other.actions) \in Nat
  BY <1>1, ActionsSound DEF RoutesOf
<1>5. DOMAIN OwnRoutes = 1 .. Len(OwnRoutes) /\ Len(OwnRoutes) \in Nat
  BY OwnTargets
<1>6. /\ Len(table) \in Nat /\ DOMAIN table = 1 .. Len(table)
      /\ \A g \in 1 .. Len(table) :
           table[g] = OwnRoutes \/ \E other \in Registered(k) : table[g] = RoutesOf(other)
  BY DEF Tables
<1>7. \A g \in 1 .. Len(table) :
        Len(table[g]) \in Nat /\ DOMAIN table[g] = 1 .. Len(table[g])
  BY <1>4, <1>5, <1>6
<1>8. ASSUME NEW g \in 1 .. Len(table), NEW i \in Nat, i \in 1 .. Len(table[g]),
             Matches(table[g][i], action.method, url)
      PROVE  table[g][i] \in rivals
  <2>1. CASE table[g] = OwnRoutes
    BY <1>7, <1>8, <2>1 DEF ToSet
  <2>2. ASSUME NEW other \in Registered(k), table[g] = RoutesOf(other)
        PROVE  table[g][i] \in rivals
    <3>1. other.name = resource.name
      BY <1>1, <1>3, <1>4, <1>8, <2>2, OtherResourcesDoNotMatch
    <3>2. table[g] = RoutesOf(resource)
      BY <1>2, <2>2, <3>1
    <3> QED
      BY <1>7, <1>8, <3>2 DEF ToSet
  <2> QED
    BY <1>6, <2>1, <2>2
<1>9. ASSUME NEW g \in 1 .. Len(table), NEW i \in 1 .. Len(table[g]), table[g][i].target = own
      PROVE  \E j \in 1 .. Len(table[g]) : Matches(table[g][j], action.method, url)
  <2>1. table[g] # OwnRoutes
    BY <1>5, <1>9, OwnTargets DEF ToSet
  <2>2. PICK other \in Registered(k) : table[g] = RoutesOf(other)
    BY <1>6, <2>1
  <2>3. RoutesOf(other)[i].target[1] = other.name
    BY <1>4, <1>9, <2>2 DEF RoutesOf, Route
  <2>4. table[g] = RoutesOf(resource)
    BY <1>2, <1>9, <2>2, <2>3
  <2>5. PICK j \in 1 .. Len(resource.actions) : resource.actions[j] = action
    BY <1>3 DEF ToSet
  <2>6. RoutesOf(resource)[j] = OwnRoute(resource, action)
    BY <1>4, <2>5 DEF RoutesOf, OwnRoute
  <2> QED
    BY <1>3, <1>4, <2>4, <2>6, OwnRouteMatches
<1>10. \/ /\ target = NotFound
          /\ \A g \in 1 .. Len(table), i \in Nat :
               i \in 1 .. Len(table[g]) => ~Matches(table[g][i], action.method, url)
       \/ \E g \in 1 .. Len(table), i \in Nat :
            /\ i \in 1 .. Len(table[g])
            /\ Matches(table[g][i], action.method, url)
            /\ target = table[g][i].target
  <2>1. IsTable(table)
    BY <1>6, <1>7 DEF IsTable
  <2> QED
    BY <2>1, TargetIsAHit
<1>11. ASSUME NEW rival \in rivals PROVE rival.target # NotFound
  <2>1. CASE rival \in ToSet(OwnRoutes)
    BY <2>1, OwnTargets
  <2>2. CASE rival \in ToSet(RoutesOf(resource))
    <3>1. PICK i \in 1 .. Len(resource.actions) : rival = RoutesOf(resource)[i]
      BY <1>4, <2>2 DEF ToSet
    <3>2. rival.target = <<resource.name, resource.actions[i].name>>
      BY <3>1 DEF RoutesOf, Route
    <3> QED
      BY <3>2, OwnTargets
  <2> QED
    BY <2>1, <2>2
<1> HIDE DEF own, rivals, target, url
<1>12. CASE target = NotFound
  <2>1. \A g \in 1 .. Len(table), i \in Nat :
          i \in 1 .. Len(table[g]) => ~Matches(table[g][i], action.method, url)
    BY <1>8, <1>10, <1>11, <1>12
  <2>2. \A g \in 1 .. Len(table) : \A i \in 1 .. Len(table[g]) : table[g][i].target # own
    BY <1>9, <2>1
  <2>3. ~ \E group \in ToSet(table) : \E route \in ToSet(group) : route.target = own
    BY <1>6, <1>7, <2>2 DEF ToSet
  <2> QED
    BY <1>12, <2>3 DEF own, target, url
<1>13. CASE target # NotFound
  <2>1. PICK g \in 1 .. Len(table), i \in Nat :
          /\ i \in 1 .. Len(table[g])
          /\ Matches(table[g][i], action.method, url)
          /\ target = table[g][i].target
    BY <1>10, <1>13
  <2>2. table[g][i] \in rivals
    BY <1>8, <2>1
  <2>3. Overlap(table[g][i], OwnRoute(resource, action))
    BY <1>3, <2>1, RivalOverlaps DEF url
  <2> QED
    BY <1>13, <2>1, <2>2, <2>3 DEF rivals, target, url
<1> QED
  BY <1>12, <1>13

(* A call by the manifest runs its own action or, where that was           *)
(* registered too late for the router, nothing, unless a sibling action or *)
(* an endpoint of the router has an overlapping path: whatever is          *)
(* registered, refused and routed, if the declared paths are plain.        *)
THEOREM CallsReachOwnAction ==
    ASSUME PlainPaths
    PROVE  Spec => []CallReachesOwnAction
<1>1. ASSUME RegistriesSound, Referred, Traced
      PROVE  CallReachesOwnAction
  <2> SUFFICES ASSUME NEW at \in Advertised, NEW id \in PlainIds
               PROVE  /\ Reached(at, id) \in {OwnTarget(at), NotFound} \cup Contenders(at)
                      /\ IsRouted(OwnTarget(at)) /\ Contenders(at) = {}
                           => Reached(at, id) = OwnTarget(at)
    BY DEF CallReachesOwnAction
  <2>0. PICK resource \in ToSet(held.manifest.registry.resources) :
          \E action \in ToSet(resource.actions) : at = <<resource, action>>
    BY DEF Advertised
  <2>1. PICK action \in ToSet(resource.actions) : at = <<resource, action>>
    BY <2>0
  <2>2. held.router \in 1 .. Len(routers)
    BY <1>1, <2>1 DEF Traced, ToSet
  <2>3. PICK k \in 1 .. Len(registries) : k = routers[held.router].registry
    BY <1>1, <2>2 DEF Referred
  <2> DEFINE table == routers[held.router].routes
  <2>4. table \in Tables(k) /\ resource \in Registered(k)
    BY <1>1, <2>3 DEF Traced, ToSet
  <2>5. id \notin Unplain
    BY IdsAssumption
  <2>6. LET rivals == ToSet(OwnRoutes) \cup ToSet(RoutesOf(resource))
        IN  /\ \/ Reached(at, id) = NotFound
               \/ \E rival \in rivals : /\ Reached(at, id) = rival.target
                                        /\ Overlap(rival, OwnRoute(resource, action))
            /\ Reached(at, id) = NotFound => ~IsRouted(OwnTarget(at))
    BY <1>1, <2>1, <2>4, <2>5, ReachesOwn DEF Reached, IsRouted, OwnTarget
  <2>7. \A rival \in ToSet(OwnRoutes) \cup ToSet(RoutesOf(resource)) :
          Overlap(rival, OwnRoute(resource, action))
            => rival.target \in Contenders(at) \cup {OwnTarget(at)}
    BY <2>1 DEF Contenders, OwnRoute, OwnTarget
  <2> QED
    BY <2>6, <2>7
<1> QED
  BY <1>1, RegistriesHold, ReferredHolds, TracedHolds, PTL
=============================================================================
