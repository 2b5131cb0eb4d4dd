--------------------------- MODULE SdkCalls_proofs ---------------------------
(***************************************************************************)
(* Proofs about SdkCalls for every set of callers, services, plugins and   *)
(* names: what is proved of the metadata cache holds of the cache in the   *)
(* sdk object, and with it what a call that fails may conclude.            *)
(***************************************************************************)
EXTENDS SdkCalls, MetadataCache_proofs

USE DEF Manifests, Versions, NoEntry

(* A step of the sdk object is a step of its cache, or leaves it alone.    *)
LEMMA StepBelow == [SdkNext]_allVars => [Next]_vars
<1> SUFFICES ASSUME [SdkNext]_allVars PROVE [Next]_vars
  OBVIOUS
<1>1. ASSUME NEW c \in Callers, NEW s \in Services, GetOrFetch(c, s) PROVE Next
  BY <1>1 DEF Next
<1>2. ASSUME NEW c \in Callers, Network(c) \/ Settle(c) \/ CleanUp(c) \/ Resume(c) PROVE Next
  BY <1>2 DEF Next, Reaction
<1>3. CASE BootPlugin \/ BootFails \/ Built
  BY <1>3 DEF BootPlugin, BootFails, Built
<1>4. ASSUME NEW c \in Callers, NEW s \in Services,
             WarmUp(c, s) \/ Await(c, s) \/ \E feature \in Versions : Invoke(c, s, feature)
      PROVE  [Next]_vars
  BY <1>1, <1>4 DEF WarmUp, Await, Invoke, Start
<1>5. ASSUME NEW p \in Plugins, NEW n \in Namespaces, AddLate(p, n) PROVE [Next]_vars
  BY <1>5 DEF AddLate
<1>6. ASSUME NEW p \in Plugins, NEW how, OnInitSettles(p, how) PROVE [Next]_vars
  BY <1>6 DEF OnInitSettles
<1>7. ASSUME NEW c \in Callers, Continue(c) \/ DispatchEnds(c) PROVE [Next]_vars
  BY <1>2, <1>7 DEF Continue, DispatchEnds
<1>8. CASE Below
  <2>1. CASE \E r \in Callers : Network(r) \/ Settle(r) \/ CleanUp(r)
    BY <1>2, <2>1
  <2>2. CASE Tick \/ Operator
    BY <2>2 DEF Next
  <2> QED
    BY <1>8, <2>1, <2>2 DEF Below
<1>9. CASE UNCHANGED allVars
  BY <1>9 DEF allVars
<1> QED
  BY <1>3, <1>4, <1>5, <1>6, <1>7, <1>8, <1>9 DEF SdkNext

(* The cache in the sdk object behaves as the cache on its own, ...        *)
THEOREM CacheBelow == SdkSpec => Spec
<1>1. SdkInit => Init
  BY DEF SdkInit
<1> QED
  BY <1>1, StepBelow, PTL DEF SdkSpec, Spec

(* ... and so keeps its invariant whatever plugins, proxies and warm-ups   *)
(* do: one refresh of a service at a time, no waiter left behind.          *)
THEOREM CacheInvariantBelow == SdkSpec => []IInv
  BY CacheBelow, InvariantHolds, PTL

(* To its callers the sdk object's cache, too, is a SingleFlight.          *)
THEOREM SingleFlightBelow == SdkSpec => ImplementsSingleFlight
  BY CacheBelow, CacheImplementsSingleFlight, PTL

(* A failure stays justified on its way from the refresh that found it to  *)
(* every call that shares the refresh.                                     *)
Unavailable(s) == entries[s] = NoEntry \/ env[s] = NoUrl

FailureSound ==
    /\ \A r \in Callers :
         phase[r] = "settled" /\ result[r] = 0 => Unavailable(svc[r])
    /\ \A c \in Callers :
         pc[c] = "resumed" /\ got[c] = 0 => Unavailable(svc[c])

LEMMA FailureInductive == IInv /\ FailureSound /\ [Next]_vars => FailureSound'
<1> SUFFICES ASSUME IInv, FailureSound, [Next]_vars PROVE FailureSound'
  OBVIOUS
<1> USE DEF FailureSound, Unavailable, hostVars, cacheVars, callVars, refreshVars
<1>1. ASSUME NEW c \in Callers, NEW s \in Services, Hit(c, s) PROVE FailureSound'
  BY <1>1 DEF Hit, Enter, IsFresh, IInv, TypeOK, EntriesSound, Registration, Running
<1>2. ASSUME NEW c \in Callers, NEW s \in Services, Join(c, s) PROVE FailureSound'
  BY <1>2 DEF Join, Enter, IInv, TypeOK, Registration, Running
<1>3. ASSUME NEW c \in Callers, NEW s \in Services, StartRefresh(c, s) PROVE FailureSound'
  BY <1>3 DEF StartRefresh, Enter, FirstPhase, IInv, TypeOK
<1>4. ASSUME NEW r \in Callers, Network(r) PROVE FailureSound'
  BY <1>4 DEF Network, ServeNotModified, ServeManifest, FetchFails, Answer, IInv, TypeOK
<1>5. ASSUME NEW r \in Callers, Settle(r) PROVE FailureSound'
  <2>1. \A q \in Callers : phase[q] = "settled" => q # r /\ svc[q] # svc[r]
    BY <1>5 DEF Settle, IInv, Registration, Running
  <2>2. \A c \in Callers : pc[c] = "resumed" => svc[c] # svc[r]
    BY <1>5 DEF Settle, IInv, NoReaderAhead
  <2>3. result'[r] = 0 => entries'[svc[r]] = NoEntry
    BY <1>5 DEF Settle, Store, Revalidate, FallBack, IsUsable, IsRevalidated, IInv, TypeOK,
                AnswersSound, ExistingIsCurrent, EntriesSound
  <2>4. \A q \in Callers \ {r} :
           /\ phase'[q] = phase[q] /\ result'[q] = result[q]
           /\ svc[q] # svc[r] => entries'[svc[q]] = entries[svc[q]]
    BY <1>5 DEF Settle, Store, Revalidate, FallBack, IInv, TypeOK
  <2> QED
    BY <1>5, <2>1, <2>2, <2>3, <2>4 DEF Settle
<1>6. ASSUME NEW r \in Callers, CleanUp(r) PROVE FailureSound'
  BY <1>6 DEF CleanUp, Waiters, IInv, TypeOK, WaitersServed
<1>7. ASSUME NEW c \in Callers, Resume(c) PROVE FailureSound'
  BY <1>7 DEF Resume, IInv, TypeOK
<1>8. CASE Tick \/ Operator \/ UNCHANGED vars
  BY <1>8 DEF Tick, Operator, Repoint, Deploy, MicrotasksDrained, vars
<1> QED
  BY <1>1, <1>2, <1>3, <1>4, <1>5, <1>6, <1>7, <1>8 DEF Next, GetOrFetch, Reaction

(* Whoever's refresh a call or a warm-up shares, it hears of a failure     *)
(* only while nothing is cached or no URL resolves: nothing cached is ever *)
(* withheld by the failure of another's refresh.                           *)
THEOREM FailsForAReason == SdkSpec => []FailsOnlyWithoutManifest
<1>1. Init => FailureSound
  BY DEF Init, FailureSound
<1>2. FailureSound => FailsOnlyWithoutManifest
  BY DEF FailureSound, Unavailable, FailsOnlyWithoutManifest
<1> QED
  BY <1>1, <1>2, FailureInductive, InvariantHolds, CacheBelow, PTL DEF Spec

(* No call is made before createSDK returns, and a warm-up only starts     *)
(* when nothing is left that could make createSDK throw.                   *)
NothingStarted ==
    sdk = "failed" \/ (sdk = "booting" /\ boot \in Plugins) =>
        \A c \in Callers : pc[c] = "ready" /\ stage[c] = "idle"

LEMMA SdkTypeInductive ==
    ASSUME SdkTypeOK, NothingStarted, [SdkNext]_allVars
    PROVE  SdkTypeOK' /\ NothingStarted'
<1> USE PluginsAssumption, EagerAssumption DEF SdkTypeOK, NothingStarted, Plugins
<1>0. TypeOK'
  BY StepBelow, TypeInductive
<1>1. CASE BootPlugin
  BY <1>0, <1>1 DEF BootPlugin, AddNamespace, vars, callVars
<1>2. CASE BootFails
  BY <1>0, <1>2 DEF BootFails, vars, callVars
<1>3. CASE Built
  BY <1>0, <1>3 DEF Built, vars, callVars
<1>4. ASSUME NEW c \in Callers, NEW s \in Services, WarmUp(c, s)
      PROVE  SdkTypeOK' /\ NothingStarted'
  BY <1>0, <1>4 DEF WarmUp
<1>5. ASSUME NEW c \in Callers, NEW s \in Services, Await(c, s)
      PROVE  SdkTypeOK' /\ NothingStarted'
  BY <1>0, <1>5 DEF Await, Start, bootVars
<1>6. ASSUME NEW c \in Callers, NEW s \in Services, NEW f \in Versions, Invoke(c, s, f)
      PROVE  SdkTypeOK' /\ NothingStarted'
  BY <1>0, <1>6 DEF Invoke, Start, bootVars
<1>7. ASSUME NEW p \in Plugins, NEW n \in Namespaces, AddLate(p, n)
      PROVE  SdkTypeOK' /\ NothingStarted'
  BY <1>0, <1>7 DEF AddLate, AddNamespace
<1>8. ASSUME NEW p \in Plugins, NEW how \in {"none", "rejected"}, OnInitSettles(p, how)
      PROVE  SdkTypeOK' /\ NothingStarted'
  BY <1>0, <1>8 DEF OnInitSettles, vars, callVars
<1>9. ASSUME NEW c \in Callers, NEW failed \in BOOLEAN, Finish(c, failed)
      PROVE  /\ stage' \in [Callers -> {"idle", "discovering", "dispatched", "done"}]
             /\ up' \in BOOLEAN
  BY <1>9 DEF Finish
<1>10. ASSUME NEW c \in Callers, NEW n, Announce(c, n)
       PROVE  announced' \in [Plugins -> [Services -> Manifests]]
  BY <1>10 DEF Announce, TypeOK
<1>11. ASSUME NEW c \in Callers, Continue(c)
       PROVE  SdkTypeOK' /\ NothingStarted'
  <2>1. /\ stage' \in [Callers -> {"idle", "discovering", "dispatched", "done"}]
        /\ up' \in BOOLEAN
    <3>1. CASE DispatchStarts(c)
      BY <3>1 DEF DispatchStarts
    <3>2. CASE ~DispatchStarts(c)
      <4>1. PICK failed \in BOOLEAN : Finish(c, failed)
        BY <1>11, <3>2 DEF Continue, DiscoveryFails, HookThrows, LookupFails, WarmUpEnds
      <4> QED
        BY <1>9, <4>1
    <3> QED
      BY <3>1, <3>2
  <2>2. announced' \in [Plugins -> [Services -> Manifests]]
    BY <1>10, <1>11
       DEF Continue, DiscoveryFails, HookThrows, LookupFails, DispatchStarts, WarmUpEnds
  <2> QED
    BY <1>0, <1>11, <2>1, <2>2 DEF Continue, bootVars
<1>12. ASSUME NEW c \in Callers, DispatchEnds(c)
       PROVE  SdkTypeOK' /\ NothingStarted'
  BY <1>0, <1>9, <1>12 DEF DispatchEnds, bootVars
<1>13. CASE Below
  BY <1>0, <1>13 DEF Below, sdkVars, bootVars
<1>14. CASE UNCHANGED allVars
  BY <1>0, <1>14 DEF allVars, sdkVars, bootVars, vars, callVars
<1> QED
  BY <1>1, <1>2, <1>3, <1>4, <1>5, <1>6, <1>7, <1>8, <1>11, <1>12, <1>13, <1>14 DEF SdkNext

(* Type correctness of the sdk object; once createSDK has thrown nothing   *)
(* of it has run.                                                          *)
THEOREM SdkTypeCorrect == SdkSpec => []SdkTypeOK
<1>1. SdkInit => SdkTypeOK /\ NothingStarted
  <2> SUFFICES ASSUME SdkInit PROVE SdkTypeOK /\ NothingStarted
    OBVIOUS
  <2>1. TypeOK
    BY TypeInitial DEF SdkInit
  <2> QED
    BY <2>1, PluginsAssumption, VersionAssumption DEF SdkInit, Init, SdkTypeOK, NothingStarted
<1> QED
  BY <1>1, SdkTypeInductive, PTL DEF SdkSpec

(* What the plugins hear, as long as every service stays at its home:      *)
(* SDK_SERVICE_<NAME>_URL names no other place, though it may be unset.    *)
StaysAt(home) == \A s \in Services : env[s] \in {home[s], NoUrl}

(* Then what is cached of a service came from its home, ...                *)
AtHome(home) ==
    /\ \A s \in Services : entries[s] # NoEntry => entries[s].url = home[s]
    /\ \A r \in Callers : phase[r] \in {"sent", "answered"} => asked[r] = home[svc[r]]

(* ... no plugin is ahead of the cache, and none behind a dispatched call. *)
HeardSound ==
    /\ \A p \in Plugins, s \in Services : announced[p][s] <= entries[s].ver
    /\ \A c \in Callers : stage[c] = "dispatched" => pc[c] = "ready"
    /\ DispatchedWasAnnounced

LEMMA AtHomeInductive ==
    ASSUME NEW home, IInv, AtHome(home), StaysAt(home), [Next]_vars
    PROVE  AtHome(home)'
<1> USE DEF AtHome, StaysAt, IInv, hostVars, cacheVars, callVars, refreshVars
<1>1. ASSUME NEW c \in Callers, NEW s \in Services, Hit(c, s) \/ Join(c, s) PROVE AtHome(home)'
  BY <1>1 DEF Hit, Join, Enter, TypeOK, Registration, Running
<1>2. ASSUME NEW c \in Callers, NEW s \in Services, StartRefresh(c, s) PROVE AtHome(home)'
  BY <1>2 DEF StartRefresh, Enter, FirstPhase, TypeOK
<1>3. ASSUME NEW c \in Callers, Network(c) PROVE AtHome(home)'
  BY <1>3 DEF Network, ServeNotModified, ServeManifest, FetchFails, Answer, TypeOK
<1>4. ASSUME NEW c \in Callers, Settle(c) PROVE AtHome(home)'
  BY <1>4 DEF Settle, Store, Revalidate, FallBack, TypeOK
<1>5. ASSUME NEW c \in Callers, CleanUp(c) \/ Resume(c) PROVE AtHome(home)'
  BY <1>5 DEF CleanUp, Resume, TypeOK
<1>6. CASE Tick \/ Operator \/ UNCHANGED vars
  BY <1>6 DEF Tick, Operator, Repoint, Deploy, vars
<1> QED
  BY <1>1, <1>2, <1>3, <1>4, <1>5, <1>6 DEF Next, GetOrFetch, Reaction

(* A cached contract is then only ever replaced by a newer one.            *)
LEMMA EntriesGrow ==
    ASSUME NEW home, IInv, IInv', AtHome(home), [Next]_vars, NEW s \in Services
    PROVE  /\ entries[s].ver \in Nat /\ entries'[s].ver \in Nat
           /\ entries'[s].ver >= entries[s].ver
<1>1. entries[s].ver \in Nat /\ entries'[s].ver \in Nat
  BY VersionAssumption DEF IInv, TypeOK, Entries
<1>2. CASE entries[s] = NoEntry
  BY <1>1, <1>2
<1>3. CASE entries[s] # NoEntry /\ entries'[s] = entries[s]
  BY <1>1, <1>3
<1>4. CASE entries[s] # NoEntry /\ entries'[s] # entries[s]
  <2>1. PICK r \in Callers : Settle(r) /\ s = svc[r]
    BY <1>4, CacheSteps DEF IInv
  <2>2. Store(r) /\ asked[r] = home[s]
    BY <1>4, <2>1 DEF Settle, Revalidate, FallBack, AtHome
  <2>3. entries'[s].url = entries[s].url
    BY <1>4, <2>2 DEF Store, AtHome
  <2> QED
    BY <1>1, <1>4, <2>3, NoRegressStep
<1> QED
  BY <1>2, <1>3, <1>4

(* A plugin hears only of what the cache holds, and the cache only grows.  *)
LEMMA HearsInOrder ==
    ASSUME NEW home, IInv, IInv', AtHome(home), SdkTypeOK, HeardSound, [SdkNext]_allVars,
           NEW p \in Plugins, NEW s \in Services
    PROVE  /\ announced'[p][s] >= announced[p][s]
           /\ announced'[p][s] <= entries'[s].ver
<1>1. /\ announced[p][s] \in Nat /\ announced[p][s] <= entries[s].ver
      /\ announced \in [Plugins -> [Services -> Nat]]
  BY VersionAssumption DEF SdkTypeOK, HeardSound
<1>2. /\ entries[s].ver \in Nat /\ entries'[s].ver \in Nat
      /\ entries'[s].ver >= entries[s].ver
  BY StepBelow, EntriesGrow
<1>3. CASE announced'[p][s] = announced[p][s]
  BY <1>1, <1>2, <1>3
<1>4. CASE announced'[p][s] # announced[p][s]
  <2>1. PICK c \in Callers : Continue(c)
    BY <1>4 DEF SdkNext, BootPlugin, BootFails, Built, WarmUp, Await, Invoke, Start, AddLate,
                OnInitSettles, DispatchEnds, Below, sdkVars, allVars
  <2>2. got[c] # 0 /\ \E n \in Plugins \cup {NPlugins} : Announce(c, n)
    BY <1>4, <2>1
       DEF Continue, DiscoveryFails, HookThrows, LookupFails, DispatchStarts, WarmUpEnds
  <2>3. s = svc[c] /\ announced'[p][s] = got[c]
    BY <1>1, <1>4, <2>2 DEF Announce
  <2>4. entries[s].ver = got[c]
    BY <2>1, <2>2, <2>3 DEF Continue, Resume, IInv, ReadersCurrent
  <2> QED
    BY <1>1, <1>2, <2>3, <2>4
<1> QED
  BY <1>3, <1>4

LEMMA HeardInductive ==
    ASSUME NEW home, IInv, IInv', AtHome(home), SdkTypeOK, SdkTypeOK', HeardSound, [SdkNext]_allVars
    PROVE  HeardSound'
<1>1. ASSUME NEW p \in Plugins, NEW s \in Services
      PROVE  announced'[p][s] <= entries'[s].ver
  BY <1>1, HearsInOrder
<1>2. ASSUME NEW d \in Callers, stage'[d] = "dispatched"
      PROVE  /\ pc'[d] = "ready"
             /\ wants'[d] <= got'[d]
             /\ \A p \in Plugins : announced'[p][svc'[d]] >= got'[d]
  <2>1. CASE stage[d] = "dispatched"
    <3>1. /\ pc[d] = "ready" /\ wants[d] <= got[d]
          /\ \A p \in Plugins : announced[p][svc[d]] >= got[d]
      BY <2>1 DEF HeardSound, DispatchedWasAnnounced
    <3>2. ASSUME NEW c \in Callers \ {d}, NEW s \in Services, GetOrFetch(c, s)
          PROVE  pc'[d] = pc[d] /\ got'[d] = got[d] /\ svc'[d] = svc[d]
      BY <3>2 DEF GetOrFetch, Hit, Join, StartRefresh, Enter, IInv, TypeOK
    <3>3. ASSUME NEW c \in Callers, NEW s \in Services,
                 WarmUp(c, s) \/ Await(c, s) \/ \E f \in Versions : Invoke(c, s, f)
          PROVE  UNCHANGED <<wants[d], pc[d], got[d], svc[d]>>
      <4>1. c # d
        BY <2>1, <3>3 DEF WarmUp, Await, Invoke, Start
      <4> QED
        BY <3>2, <3>3, <4>1 DEF WarmUp, Await, Invoke, Start, SdkTypeOK
    <3>4. ASSUME NEW c \in Callers, Continue(c)
          PROVE  UNCHANGED <<wants[d], pc[d], got[d], svc[d]>>
      <4>1. c # d
        BY <2>1, <3>4 DEF Continue
      <4> QED
        BY <3>4, <4>1 DEF Continue, Resume
    <3>5. ASSUME NEW r \in Callers, Network(r) \/ Settle(r) \/ CleanUp(r)
          PROVE  UNCHANGED <<pc[d], got[d], svc[d]>>
      BY <3>1, <3>5 DEF Network, ServeNotModified, ServeManifest, FetchFails, Answer, Settle,
                        CleanUp, Waiters, callVars
    <3>6. ASSUME Below PROVE UNCHANGED <<wants[d], pc[d], got[d], svc[d]>>
      <4>1. CASE Tick \/ Operator
        BY <3>6, <4>1 DEF Tick, Operator, Repoint, Deploy, Below, sdkVars, callVars
      <4> QED
        BY <3>5, <3>6, <4>1 DEF Below, sdkVars
    <3>7. UNCHANGED <<wants[d], pc[d], got[d], svc[d]>>
      BY <3>3, <3>4, <3>6
         DEF SdkNext, BootPlugin, BootFails, Built, AddLate, OnInitSettles, DispatchEnds,
             allVars, sdkVars, vars, callVars
    <3>8. ASSUME NEW p \in Plugins PROVE announced'[p][svc'[d]] >= got'[d]
      <4>1. /\ svc[d] \in Services /\ got[d] \in Nat
            /\ announced[p][svc[d]] \in Nat /\ announced'[p][svc[d]] \in Nat
        BY VersionAssumption DEF SdkTypeOK, TypeOK
      <4>2. announced'[p][svc[d]] >= announced[p][svc[d]]
        BY <4>1, HearsInOrder
      <4> QED
        BY <3>1, <3>7, <4>1, <4>2
    <3> QED
      BY <3>1, <3>7, <3>8
  <2>2. CASE stage[d] # "dispatched"
    <3>1. Continue(d) /\ DispatchStarts(d)
      <4>1. PICK c \in Callers : Continue(c)
        BY <1>2, <2>2
           DEF SdkNext, BootPlugin, BootFails, Built, AddLate, OnInitSettles, DispatchEnds,
               Finish, WarmUp, Await, Invoke, Start, Below, allVars, sdkVars, SdkTypeOK
      <4>2. stage' = [stage EXCEPT ![c] = "done"] \/ DispatchStarts(c)
        BY <4>1
           DEF Continue, DiscoveryFails, HookThrows, LookupFails, WarmUpEnds, Finish
      <4>3. c = d /\ DispatchStarts(c)
        BY <1>2, <2>2, <4>2 DEF DispatchStarts, SdkTypeOK
      <4> QED
        BY <4>1, <4>3
    <3>2. /\ pc'[d] = "ready" /\ wants[d] <= got[d] /\ Announce(d, NPlugins)
          /\ UNCHANGED <<wants, got, svc>>
      BY <3>1 DEF Continue, Resume, DispatchStarts, Declared, IInv, TypeOK
    <3>3. ASSUME NEW p \in Plugins PROVE announced'[p][svc[d]] = got[d]
      BY <3>2, PluginsAssumption DEF Announce, Plugins, SdkTypeOK
    <3>4. got[d] \in Nat
      BY VersionAssumption DEF IInv, TypeOK
    <3> QED
      BY <3>2, <3>3, <3>4
  <2> QED
    BY <2>1, <2>2
<1> QED
  BY <1>1, <1>2 DEF HeardSound, DispatchedWasAnnounced

LEMMA HeardHolds ==
    ASSUME NEW home
    PROVE  SdkSpec /\ []StaysAt(home) => [](SdkTypeOK /\ AtHome(home) /\ HeardSound)
<1>1. SdkInit => AtHome(home) /\ HeardSound
  BY VersionAssumption
     DEF SdkInit, Init, AtHome, HeardSound, DispatchedWasAnnounced
<1>2. /\ IInv /\ IInv' /\ SdkTypeOK /\ SdkTypeOK' /\ AtHome(home) /\ HeardSound
      /\ [SdkNext]_allVars /\ StaysAt(home)
      => AtHome(home)' /\ HeardSound'
  BY StepBelow, AtHomeInductive, HeardInductive
<1> QED
  BY <1>1, <1>2, CacheInvariantBelow, SdkTypeCorrect, PTL DEF SdkSpec

(* No plugin hears of an older contract of a service after a newer one, in *)
(* whatever order the promises of overlapping calls are resumed.           *)
THEOREM HearingInOrder ==
    ASSUME NEW home
    PROVE  SdkSpec /\ []StaysAt(home) => PluginsHearInOrder
<1>1. /\ IInv /\ IInv' /\ SdkTypeOK /\ AtHome(home) /\ HeardSound /\ [SdkNext]_allVars
      => [\A p \in Plugins, s \in Services : announced'[p][s] >= announced[p][s]]_allVars
  BY HearsInOrder
<1> QED
  BY <1>1, HeardHolds, CacheInvariantBelow, PTL DEF SdkSpec, PluginsHearInOrder

(* A request is made only for an action its manifest declares, of a        *)
(* contract that every plugin has heard of.                                *)
THEOREM DispatchAnnounced ==
    ASSUME NEW home
    PROVE  SdkSpec /\ []StaysAt(home) => []DispatchedWasAnnounced
<1>1. HeardSound => DispatchedWasAnnounced
  BY DEF HeardSound
<1> QED
  BY <1>1, HeardHolds, PTL
=============================================================================
