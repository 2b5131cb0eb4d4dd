------------------------------ MODULE SdkCalls ------------------------------
(***************************************************************************)
(* The sdk object of the JavaScript client above its metadata cache:       *)
(* createSDK boots the plugins and starts the eager warm-ups, the proxies  *)
(* turn sdk.<service>.<resource>.<action>() into invokeAction, and         *)
(* invokeAction awaits the manifest, tells the plugins of it, looks the    *)
(* action up, dispatches, and lets the plugins see an error.               *)
(*                                                                         *)
(* It extends MetadataCache: a call is a caller of getOrFetch, and so is a *)
(* warm-up.  What dispatchAction does between its start and its outcome is *)
(* CallPipeline's matter.  A promise that rejects with nobody to catch it  *)
(* ends the process, as Node.js does by default.                           *)
(***************************************************************************)
EXTENDS MetadataCache

CONSTANTS
    NPlugins,     \* config.plugins are numbered 1 .. NPlugins, in order
    Namespaces,   \* names a plugin may add, services' names among them
    Eager         \* config.services when config.eager is set, else {}

ASSUME PluginsAssumption == NPlugins \in Nat
ASSUME EagerAssumption == Eager \subseteq Services

VARIABLES
    boot,        \* the plugin createSDK boots next; beyond them the warm-ups
    warmed,      \* services whose warm-up createSDK has started
    sdk,         \* "booting", "built", or "failed" when createSDK threw
    owner,       \* per name: the plugin whose namespace it is, or 0
    initiated,   \* per plugin: the promise of its onInit, "none" once fulfilled
    up,          \* the process runs
    use,         \* per caller: "none", "warmUp", "call", or "await"
    wants,       \* per caller: the contract that introduced its action
    stage,       \* "idle", "discovering", "dispatched" or "done"
    announced    \* per plugin and service: the manifest it heard of last

bootVars == <<boot, warmed, sdk, owner, initiated>>
sdkVars == <<bootVars, up, use, wants, stage, announced>>
allVars == <<vars, sdkVars>>

Plugins == 1 .. NPlugins

SdkInit ==
    /\ Init
    /\ boot = 1
    /\ warmed = {}
    /\ sdk = "booting"
    /\ owner = [n \in Namespaces |-> 0]
    /\ initiated = [p \in Plugins |-> "none"]
    /\ up = TRUE
    /\ use = [c \in Callers |-> "none"]
    /\ wants = [c \in Callers |-> 1]
    /\ stage = [c \in Callers |-> "idle"]
    /\ announced = [p \in Plugins |-> [s \in Services |-> 0]]

-----------------------------------------------------------------------------
(* createSDK, which runs to its end before anything else does.             *)

AddNamespace(p, n) == owner[n] = 0 /\ owner' = [owner EXCEPT ![n] = p]

(* onInit, whose promise nobody awaits, then extendNamespace.              *)
BootPlugin ==
    /\ sdk = "booting" /\ boot \in Plugins
    /\ boot' = boot + 1
    /\ \E promise \in {"none", "pending"} : initiated' = [initiated EXCEPT ![boot] = promise]
    /\ UNCHANGED owner \/ \E n \in Namespaces : AddNamespace(boot, n)
    /\ UNCHANGED <<vars, warmed, sdk, up, use, wants, stage, announced>>

(* onInit or a factory throws, or the name is taken: createSDK throws, and *)
(* what onInit promised before is still nobody's to await.                 *)
BootFails ==
    /\ sdk = "booting" /\ boot \in Plugins
    /\ sdk' = "failed"
    /\ \E promise \in {"none", "pending"} : initiated' = [initiated EXCEPT ![boot] = promise]
    /\ UNCHANGED <<vars, boot, warmed, owner, up, use, wants, stage, announced>>

WarmUp(c, s) ==
    /\ sdk = "booting" /\ boot > NPlugins
    /\ s \in Eager \ warmed
    /\ stage[c] = "idle"
    /\ GetOrFetch(c, s)
    /\ warmed' = warmed \cup {s}
    /\ use' = [use EXCEPT ![c] = "warmUp"]
    /\ stage' = [stage EXCEPT ![c] = "discovering"]
    /\ UNCHANGED <<boot, sdk, owner, initiated, up, wants, announced>>

Built ==
    /\ sdk = "booting" /\ boot > NPlugins /\ warmed = Eager
    /\ sdk' = "built"
    /\ UNCHANGED <<vars, boot, warmed, owner, initiated, up, use, wants, stage, announced>>

(* A plugin may have kept the builder; the registry is never closed.       *)
AddLate(p, n) ==
    /\ sdk = "built" /\ up
    /\ AddNamespace(p, n)
    /\ UNCHANGED <<vars, boot, warmed, sdk, initiated, up, use, wants, stage, announced>>

OnInitSettles(p, how) ==
    /\ sdk # "booting" /\ up
    /\ initiated[p] = "pending"
    /\ initiated' = [initiated EXCEPT ![p] = how]
    /\ up' = (how = "none")
    /\ UNCHANGED <<vars, boot, warmed, sdk, owner, use, wants, stage, announced>>

-----------------------------------------------------------------------------
(* sdk.<s>.<resource>.<action>(...): the proxies hand the names on, unless *)
(* a plugin's namespace answers first.  `await sdk.<s>.<resource>` makes   *)
(* the same call, of an action named "then" that no manifest declares.     *)

Start(c, s, purpose) ==
    /\ sdk = "built" /\ up
    /\ stage[c] \in {"idle", "done"}
    /\ s \in Namespaces => owner[s] = 0
    /\ GetOrFetch(c, s)
    /\ use' = [use EXCEPT ![c] = purpose]
    /\ stage' = [stage EXCEPT ![c] = "discovering"]
    /\ UNCHANGED <<bootVars, up, announced>>

Invoke(c, s, feature) ==
    /\ Start(c, s, "call")
    /\ wants' = [wants EXCEPT ![c] = feature]

Await(c, s) ==
    /\ Start(c, s, "await")
    /\ UNCHANGED wants

-----------------------------------------------------------------------------
(* invokeAction after its await.                                           *)

(* A warm-up swallows its rejection; an application is taken to handle the *)
(* rejections of its calls.                                                *)
Caught(c) == use[c] \in {"call", "warmUp"}

(* The promise of the caller settles; a caller that awaits a resource      *)
(* waits on, its resolve and reject having been taken for arguments.       *)
Finish(c, failed) ==
    /\ stage' = [stage EXCEPT ![c] = "done"]
    /\ up' = (failed => Caught(c))

(* onServiceDiscovered of the first n plugins.                             *)
AnnounceMutant(c, n) == UNCHANGED announced
Announce(c, n) ==
    announced' = [p \in Plugins |->
        IF p <= n THEN [announced[p] EXCEPT ![svc[c]] = got[c]] ELSE announced[p]]

DiscoveryFails(c) ==
    /\ use[c] # "warmUp" /\ got[c] = 0
    /\ Finish(c, TRUE)
    /\ UNCHANGED announced

HookThrows(c) ==
    /\ use[c] # "warmUp" /\ got[c] # 0
    /\ \E n \in Plugins : Announce(c, n)
    /\ Finish(c, TRUE)

(* findResourceAndAction; no plugin sees its error.                        *)
Declared(c) == use[c] = "call" /\ wants[c] <= got[c]

LookupFails(c) ==
    /\ use[c] # "warmUp" /\ got[c] # 0
    /\ Announce(c, NPlugins)
    /\ ~Declared(c)
    /\ Finish(c, TRUE)

DispatchStarts(c) ==
    /\ use[c] # "warmUp" /\ got[c] # 0
    /\ Announce(c, NPlugins)
    /\ Declared(c)
    /\ stage' = [stage EXCEPT ![c] = "dispatched"]
    /\ UNCHANGED up

WarmUpEnds(c) ==
    /\ use[c] = "warmUp"
    /\ Finish(c, got[c] = 0)
    /\ UNCHANGED announced

Continue(c) ==
    /\ sdk = "built" /\ up /\ stage[c] = "discovering"
    /\ Resume(c)
    /\ DiscoveryFails(c) \/ HookThrows(c) \/ LookupFails(c) \/ DispatchStarts(c) \/ WarmUpEnds(c)
    /\ UNCHANGED <<bootVars, use, wants>>

(* The outcome of dispatchAction.  The plugins' onError are asked in order *)
(* about an EcorpinError; the first that returns an error, or throws,      *)
(* decides which error the caller gets, never whether it gets one.         *)
DispatchEnds(c) ==
    /\ sdk = "built" /\ up /\ stage[c] = "dispatched"
    /\ \E failed \in BOOLEAN : Finish(c, failed)
    /\ UNCHANGED <<vars, bootVars, use, wants, announced>>

-----------------------------------------------------------------------------
(* Below the sdk object: the cache, the network, the clock, the operators. *)
Below ==
    /\ sdk = "built" /\ up
    /\ \/ \E r \in Callers : Network(r) \/ Settle(r) \/ CleanUp(r)
       \/ Tick
       \/ Operator
    /\ UNCHANGED sdkVars

SdkNext ==
    \/ BootPlugin \/ BootFails \/ Built
    \/ \E c \in Callers, s \in Services : WarmUp(c, s) \/ Await(c, s)
    \/ \E c \in Callers, s \in Services, feature \in Versions : Invoke(c, s, feature)
    \/ \E p \in Plugins, n \in Namespaces : AddLate(p, n)
    \/ \E p \in Plugins, how \in {"none", "rejected"} : OnInitSettles(p, how)
    \/ \E c \in Callers : Continue(c) \/ DispatchEnds(c)
    \/ Below

SdkSpec == SdkInit /\ [][SdkNext]_allVars

(* As the cache's fairness: promise reactions run, the network answers or  *)
(* fails; and a dispatched call ends, which is CallPipeline's CallSettles. *)
SdkFairness ==
    /\ WF_allVars(BootPlugin \/ Built \/ \E c \in Callers, s \in Services : WarmUp(c, s))
    /\ \A c \in Callers :
         /\ SF_allVars(Below /\ Network(c))
         /\ WF_allVars(Below /\ (Settle(c) \/ CleanUp(c)))
         /\ WF_allVars(Continue(c))
         /\ WF_allVars(DispatchEnds(c))

SdkFairSpec == SdkSpec /\ SdkFairness

-----------------------------------------------------------------------------
(* Correctness.                                                            *)

SdkTypeOK ==
    /\ TypeOK
    /\ boot \in 1 .. NPlugins + 1
    /\ warmed \subseteq Eager
    /\ sdk \in {"booting", "built", "failed"}
    /\ owner \in [Namespaces -> Plugins \cup {0}]
    /\ initiated \in [Plugins -> {"none", "pending", "rejected"}]
    /\ up \in BOOLEAN
    /\ use \in [Callers -> {"none", "warmUp", "call", "await"}]
    /\ wants \in [Callers -> Versions]
    /\ stage \in [Callers -> {"idle", "discovering", "dispatched", "done"}]
    /\ announced \in [Plugins -> [Services -> Manifests]]
    /\ sdk = "failed" => \A c \in Callers : pc[c] = "ready" /\ stage[c] = "idle"

(* Calls overlap, joined or not, and their promises are resumed in some    *)
(* order; still no plugin hears of an older contract of a service after a  *)
(* newer one, as long as the service stays where it is.                    *)
PluginsHearInOrder ==
    [][\A p \in Plugins, s \in Services : announced'[p][s] >= announced[p][s]]_allVars

(* A request is made only for an action the manifest it was built from     *)
(* declares, and of a contract that every plugin has heard of.             *)
DispatchedWasAnnounced ==
    \A c \in Callers : stage[c] = "dispatched" =>
        /\ wants[c] <= got[c]
        /\ \A p \in Plugins : announced[p][svc[c]] >= got[c]

(* Whoever's refresh a call or a warm-up shares, it hears of a failure     *)
(* only while the service has nothing cached or no URL to be found at: in  *)
(* the moment it goes on, not when the refresh began or ended.             *)
FailsOnlyWithoutManifest ==
    \A c \in Callers : stage[c] = "discovering" /\ pc[c] = "resumed" /\ got[c] = 0 =>
        entries[svc[c]] = NoEntry \/ env[svc[c]] = NoUrl

(* Every call made ends, unless the process does.                          *)
CallsSettle ==
    \A c \in Callers :
        stage[c] = "discovering" ~> (stage[c] = "done" \/ ~up)

(* The comment of namespaceBuilder.ts: a plugin's namespace colliding with *)
(* a service, once resolved, is an error at boot and hides nothing.        *)
NoServiceHidden ==
    \A s \in Services \cap Namespaces : entries[s] # NoEntry => owner[s] = 0
=============================================================================
