--------------------------- MODULE MetadataCache ---------------------------
(***************************************************************************)
(* The metadata cache of the JavaScript client: MetadataCache.getOrFetch,  *)
(* its private refresh, and the two lines of the call path that read it    *)
(* (invokeAction awaits the manifest, dispatchAction then asks for the     *)
(* cached base URL).                                                       *)
(*                                                                         *)
(* The cache runs on one event loop.  Code between two awaits is one       *)
(* action; an action that the network, the clock or an operator causes is  *)
(* a macrotask and waits until the promise reactions already queued        *)
(* (MicrotasksDrained) have run.  Application code may start a call at any *)
(* time, between two promise reactions included.                           *)
(*                                                                         *)
(* Data: a manifest is the number of the contract its host had deployed,   *)
(* 0 standing for "no manifest" (undefined, or a rejected promise), and    *)
(* its ETag is that number too (a content hash), 0 when the header is      *)
(* missing.  Time is the age of an entry, counted up to the TTL: nothing   *)
(* depends on how far past it an entry is.                                 *)
(***************************************************************************)
EXTENDS Integers, FiniteSets

CONSTANTS
    Callers,      \* concurrent sdk.<service>.<resource>.<action>() calls
    NoCaller,
    Services,
    Urls,         \* base URLs a service name may resolve to
    NoUrl,        \* resolution fails, or no URL recorded
    MaxVersion,   \* bound: contracts a host deploys, 1 .. MaxVersion
    Understood,   \* contracts whose protocol version this client speaks
    Ttl           \* metadataCacheTtlMs, in clock ticks

ASSUME CallersAssumption == NoCaller \notin Callers
ASSUME UrlsAssumption == NoUrl \notin Urls
ASSUME VersionAssumption == MaxVersion \in Nat \ {0}
ASSUME TtlAssumption == Ttl \in Nat

VARIABLES
    env,       \* what resolveServiceBaseUrl(s) returns at this moment
    version,   \* the contract each host currently serves
    entries,   \* this.entries
    age,       \* Date.now() - fetchedAt of each entry, saturated at Ttl
    inFlight,  \* this.inFlight: the caller whose refresh is registered
    pc,        \* "ready", "waiting" on a refresh, or "resumed" with a result
    svc,       \* the service a caller asks for
    awaits,    \* the refresh (named by the caller that started it) it awaits
    got,       \* the manifest its getOrFetch resolved to, 0 if it rejected
    target,    \* the base URL its request went to
    phase,     \* "none", "sent", "answered" or "settled", per refresh
    asked,     \* baseUrl of the refresh
    existing,  \* the entry the refresh captured when it started
    reply,     \* what the fetch came back with
    result     \* the value the refresh's promise settled with, 0 if rejected

hostVars == <<env, version>>
cacheVars == <<entries, age, inFlight>>
callVars == <<pc, svc, awaits, got, target>>
refreshVars == <<phase, asked, existing, reply, result>>
vars == <<hostVars, cacheVars, callVars, refreshVars>>

Versions == 1 .. MaxVersion
Manifests == 0 .. MaxVersion

(* CacheEntry; the record NoEntry stands for a missing map key.            *)
Entries == [ver : Manifests, etag : Manifests, url : Urls \cup {NoUrl}]
NoEntry == [ver |-> 0, etag |-> 0, url |-> NoUrl]

(* FetchManifestResult.  `ver` is the contract the host compared or sent.  *)
Replies == [status : {"none", "manifest", "notModified", "failed"},
            ver : Manifests, etag : Manifests]
NoReply == [status |-> "none", ver |-> 0, etag |-> 0]
Failure == [status |-> "failed", ver |-> 0, etag |-> 0]

Phases == {"none", "sent", "answered", "settled"}

Init ==
    /\ env \in [Services -> Urls \cup {NoUrl}]
    /\ version = [u \in Urls |-> 1]
    /\ entries = [s \in Services |-> NoEntry]
    /\ age = [s \in Services |-> 0]
    /\ inFlight = [s \in Services |-> NoCaller]
    /\ pc = [c \in Callers |-> "ready"]
    /\ svc \in [Callers -> Services]
    /\ awaits = [c \in Callers |-> NoCaller]
    /\ got = [c \in Callers |-> 0]
    /\ target = [c \in Callers |-> NoUrl]
    /\ phase = [c \in Callers |-> "none"]
    /\ asked = [c \in Callers |-> NoUrl]
    /\ existing = [c \in Callers |-> NoEntry]
    /\ reply = [c \in Callers |-> NoReply]
    /\ result = [c \in Callers |-> 0]

-----------------------------------------------------------------------------
(* getOrFetch, from its first line to its first suspension.                *)

IsFresh(s) == entries[s] # NoEntry /\ age[s] < Ttl

NoneInFlightMutant(s) == TRUE
NoneInFlight(s) == inFlight[s] = NoCaller

(* A new call through this caller: what the previous one left is dropped.  *)
Enter(c, s) ==
    /\ pc[c] = "ready"
    /\ svc' = [svc EXCEPT ![c] = s]
    /\ target' = [target EXCEPT ![c] = NoUrl]

Hit(c, s) ==
    /\ Enter(c, s)
    /\ IsFresh(s)
    /\ pc' = [pc EXCEPT ![c] = "resumed"]
    /\ got' = [got EXCEPT ![c] = entries[s].ver]
    /\ UNCHANGED <<hostVars, cacheVars, awaits, refreshVars>>

JoinMutantStale(c, s) ==
    /\ Enter(c, s)
    /\ ~IsFresh(s)
    /\ ~NoneInFlight(s)
    /\ pc' = [pc EXCEPT ![c] = "resumed"]
    /\ got' = [got EXCEPT ![c] = entries[s].ver]
    /\ UNCHANGED <<hostVars, cacheVars, awaits, refreshVars>>
Join(c, s) ==
    /\ Enter(c, s)
    /\ ~IsFresh(s)
    /\ ~NoneInFlight(s)
    /\ pc' = [pc EXCEPT ![c] = "waiting"]
    /\ got' = [got EXCEPT ![c] = 0]
    /\ awaits' = [awaits EXCEPT ![c] = inFlight[s]]
    /\ UNCHANGED <<hostVars, cacheVars, refreshVars>>

(* refresh runs up to its fetch in the same step.  resolveServiceBaseUrl   *)
(* is called before the try block: when it throws, the promise is rejected *)
(* at once, whatever is cached.                                            *)
FirstPhaseMutant(s) == "sent"
FirstPhase(s) == IF env[s] = NoUrl THEN "settled" ELSE "sent"

StartRefresh(c, s) ==
    /\ Enter(c, s)
    /\ ~IsFresh(s)
    /\ NoneInFlight(s)
    /\ inFlight' = [inFlight EXCEPT ![s] = c]
    /\ pc' = [pc EXCEPT ![c] = "waiting"]
    /\ got' = [got EXCEPT ![c] = 0]
    /\ awaits' = [awaits EXCEPT ![c] = c]
    /\ existing' = [existing EXCEPT ![c] = entries[s]]
    /\ asked' = [asked EXCEPT ![c] = env[s]]
    /\ phase' = [phase EXCEPT ![c] = FirstPhase(s)]
    /\ UNCHANGED <<hostVars, entries, age, reply, result>>

GetOrFetch(c, s) == Hit(c, s) \/ Join(c, s) \/ StartRefresh(c, s)

-----------------------------------------------------------------------------
(* The network and the host: GET <asked>/discovery with If-None-Match.     *)

MicrotasksDrained ==
    /\ \A c \in Callers : pc[c] # "resumed"
    /\ \A r \in Callers : phase[r] # "settled"

Answer(r, answer) ==
    /\ MicrotasksDrained
    /\ phase[r] = "sent"
    /\ phase' = [phase EXCEPT ![r] = "answered"]
    /\ reply' = [reply EXCEPT ![r] = answer]
    /\ UNCHANGED <<hostVars, cacheVars, callVars, asked, existing, result>>

(* The If-None-Match header is sent only when an ETag was remembered; the  *)
(* ETag of a full answer may have been dropped on the way.                 *)
ServeNotModified(r) ==
    LET deployed == version[asked[r]] IN
    /\ phase[r] = "sent"
    /\ existing[r].etag = deployed
    /\ Answer(r, [status |-> "notModified", ver |-> deployed, etag |-> 0])

ServeManifest(r) ==
    LET deployed == version[asked[r]] IN
    /\ phase[r] = "sent"
    /\ existing[r].etag # deployed
    /\ \E etag \in {0, deployed} :
         Answer(r, [status |-> "manifest", ver |-> deployed, etag |-> etag])

(* Unreachable host, an HTTP error status or a malformed body.             *)
FetchFails(r) == Answer(r, Failure)

-----------------------------------------------------------------------------
(* refresh after its await, its finally callback, and the waiting calls.   *)

IsUsable(answer) == answer.status = "manifest" /\ answer.ver \in Understood

IsRevalidated(r) == reply[r].status = "notModified" /\ existing[r] # NoEntry

Store(r) ==
    /\ IsUsable(reply[r])
    /\ entries' = [entries EXCEPT ![svc[r]] =
                     [ver |-> reply[r].ver, etag |-> reply[r].etag, url |-> asked[r]]]
    /\ age' = [age EXCEPT ![svc[r]] = 0]
    /\ result' = [result EXCEPT ![r] = reply[r].ver]

(* A 304 restamps the entry and changes nothing else of it.                *)
Revalidate(r) ==
    /\ IsRevalidated(r)
    /\ age' = [age EXCEPT ![svc[r]] = 0]
    /\ result' = [result EXCEPT ![r] = existing[r].ver]
    /\ UNCHANGED entries

(* Stale-if-error; with nothing cached the error is thrown (0).            *)
FallBackMutantThrows(r) ==
    /\ ~IsUsable(reply[r]) /\ ~IsRevalidated(r)
    /\ result' = [result EXCEPT ![r] = 0]
    /\ UNCHANGED <<entries, age>>
FallBackMutantRestamps(r) ==
    /\ ~IsUsable(reply[r]) /\ ~IsRevalidated(r)
    /\ result' = [result EXCEPT ![r] = existing[r].ver]
    /\ age' = [age EXCEPT ![svc[r]] = 0]
    /\ UNCHANGED entries
FallBack(r) ==
    /\ ~IsUsable(reply[r]) /\ ~IsRevalidated(r)
    /\ result' = [result EXCEPT ![r] = existing[r].ver]
    /\ UNCHANGED <<entries, age>>

Settle(r) ==
    /\ phase[r] = "answered"
    /\ phase' = [phase EXCEPT ![r] = "settled"]
    /\ Store(r) \/ Revalidate(r) \/ FallBack(r)
    /\ UNCHANGED <<hostVars, inFlight, callVars, asked, existing, reply>>

WaitersMutant(r) == {c \in {r} : pc[c] = "waiting"}
Waiters(r) == {c \in Callers : pc[c] = "waiting" /\ awaits[c] = r}

UnregisteredMutant(r) ==
    IF result[r] = 0 THEN inFlight ELSE [inFlight EXCEPT ![svc[r]] = NoCaller]
Unregistered(r) == [inFlight EXCEPT ![svc[r]] = NoCaller]

(* The finally callback unregisters the refresh; the calls that awaited    *)
(* its promise are then runnable with its result.                          *)
CleanUp(r) ==
    /\ phase[r] = "settled"
    /\ inFlight' = Unregistered(r)
    /\ pc' = [c \in Callers |-> IF c \in Waiters(r) THEN "resumed" ELSE pc[c]]
    /\ got' = [c \in Callers |-> IF c \in Waiters(r) THEN result[r] ELSE got[c]]
    /\ awaits' = [c \in Callers |-> IF c \in Waiters(r) THEN NoCaller ELSE awaits[c]]
    /\ phase' = [phase EXCEPT ![r] = "none"]
    /\ asked' = [asked EXCEPT ![r] = NoUrl]
    /\ existing' = [existing EXCEPT ![r] = NoEntry]
    /\ reply' = [reply EXCEPT ![r] = NoReply]
    /\ result' = [result EXCEPT ![r] = 0]
    /\ UNCHANGED <<hostVars, entries, age, svc, target>>

(* invokeAction after its await, through getCachedBaseUrl in               *)
(* dispatchAction, which falls back on resolving the URL again.            *)
TargetUrlMutant(s) == env[s]
TargetUrl(s) == IF entries[s] # NoEntry THEN entries[s].url ELSE env[s]

Resume(c) ==
    /\ pc[c] = "resumed"
    /\ pc' = [pc EXCEPT ![c] = "ready"]
    /\ target' = [target EXCEPT ![c] = IF got[c] = 0 THEN NoUrl ELSE TargetUrl(svc[c])]
    /\ UNCHANGED <<hostVars, cacheVars, svc, awaits, got, refreshVars>>

-----------------------------------------------------------------------------
(* The clock, and the operators of the services.                           *)

Tick ==
    /\ MicrotasksDrained
    /\ \E s \in Services : entries[s] # NoEntry /\ age[s] < Ttl
    /\ age' = [s \in Services |-> IF entries[s] # NoEntry /\ age[s] < Ttl
                                  THEN age[s] + 1 ELSE age[s]]
    /\ UNCHANGED <<hostVars, entries, inFlight, callVars, refreshVars>>

(* Setting, changing or clearing SDK_SERVICE_<NAME>_URL.                   *)
Repoint(s, u) ==
    /\ MicrotasksDrained
    /\ env[s] # u
    /\ env' = [env EXCEPT ![s] = u]
    /\ UNCHANGED <<version, cacheVars, callVars, refreshVars>>

Deploy(u) ==
    /\ MicrotasksDrained
    /\ version[u] < MaxVersion
    /\ version' = [version EXCEPT ![u] = @ + 1]
    /\ UNCHANGED <<env, cacheVars, callVars, refreshVars>>

-----------------------------------------------------------------------------
Operator == (\E s \in Services, u \in Urls \cup {NoUrl} : Repoint(s, u)) \/ (\E u \in Urls : Deploy(u))

Network(r) == ServeNotModified(r) \/ ServeManifest(r) \/ FetchFails(r)

Reaction(c) == Settle(c) \/ CleanUp(c) \/ Resume(c)

Next ==
    \/ \E c \in Callers, s \in Services : GetOrFetch(c, s)
    \/ \E c \in Callers : Network(c) \/ Reaction(c)
    \/ Tick
    \/ Operator

Spec == Init /\ [][Next]_vars

(* The event loop runs every queued reaction and polls the network between *)
(* any two tasks, however many calls other callers make meanwhile; that a  *)
(* fetch sooner or later answers or fails is assumed of the runtime, the   *)
(* client sets no timeout on it.                                           *)
Fairness == \A c \in Callers : SF_vars(Network(c)) /\ WF_vars(Reaction(c))

FairSpec == Spec /\ Fairness

-----------------------------------------------------------------------------
(* Correctness.                                                            *)

TypeOK ==
    /\ env \in [Services -> Urls \cup {NoUrl}]
    /\ version \in [Urls -> Versions]
    /\ entries \in [Services -> Entries]
    /\ age \in [Services -> 0 .. Ttl]
    /\ inFlight \in [Services -> Callers \cup {NoCaller}]
    /\ pc \in [Callers -> {"ready", "waiting", "resumed"}]
    /\ svc \in [Callers -> Services]
    /\ awaits \in [Callers -> Callers \cup {NoCaller}]
    /\ got \in [Callers -> Manifests]
    /\ target \in [Callers -> Urls \cup {NoUrl}]
    /\ phase \in [Callers -> Phases]
    /\ asked \in [Callers -> Urls \cup {NoUrl}]
    /\ \A r \in Callers : phase[r] \in {"sent", "answered"} => asked[r] \in Urls
    /\ existing \in [Callers -> Entries]
    /\ reply \in [Callers -> Replies]
    /\ result \in [Callers -> Manifests]

Running(r) == phase[r] # "none"

(* Coalescing: however many calls want a service's manifest, at most one   *)
(* refresh of that service runs.                                           *)
SingleOutstanding ==
    \A r1, r2 \in Callers :
        Running(r1) /\ Running(r2) /\ svc[r1] = svc[r2] => r1 = r2

(* No lost wakeup: a waiting call awaits a refresh that still runs, is for *)
(* the call's own service, and is the one registered as in flight.         *)
WaitersServed ==
    \A c \in Callers : pc[c] = "waiting" =>
        LET r == awaits[c] IN
        /\ r \in Callers
        /\ Running(r)
        /\ svc[r] = svc[c]
        /\ inFlight[svc[c]] = r

(* What refresh captured before its await is not stale when it is used     *)
(* after it: until it settles, the captured entry is the cached entry.     *)
ExistingIsCurrent ==
    \A r \in Callers :
        phase[r] \in {"sent", "answered"} => existing[r] = entries[svc[r]]

(* Stale-if-error: once a URL was found to ask, no refresh fails for a     *)
(* service whose manifest is cached.                                       *)
StaleIfError ==
    \A r \in Callers :
        phase[r] = "settled" /\ result[r] = 0 /\ asked[r] # NoUrl
            => entries[svc[r]] = NoEntry

(* The call that follows a discovery goes to a host that really has        *)
(* deployed the contract the call was built from: manifest and base URL    *)
(* are read at different moments, and still belong together.               *)
ServedPair ==
    \A c \in Callers :
        pc[c] = "ready" /\ got[c] # 0 =>
            target[c] \in Urls /\ got[c] <= version[target[c]]

(* A late or reordered answer never replaces a newer contract of the same  *)
(* host by an older one.                                                   *)
NoRegress ==
    [][\A s \in Services :
         entries[s] # NoEntry /\ entries'[s].url = entries[s].url
             => entries'[s].ver >= entries[s].ver]_vars

(* Only an answer of a host makes an entry young again, and what is then   *)
(* cached is the contract that host had: a stale entry served because a    *)
(* refresh failed is revalidated by the next call.                         *)
YoungOnlyByAnswer ==
    [][\A s \in Services :
         age'[s] < age[s] =>
            \E r \in Callers :
                /\ phase[r] = "answered" /\ svc[r] = s
                /\ reply[r].status # "failed"
                /\ entries'[s].ver = reply[r].ver]_vars

(* Every call gets a manifest or an error.                                 *)
EveryCallSettles == \A c \in Callers : pc[c] = "waiting" ~> pc[c] = "ready"

(* The promise to the callers: this cache is a SingleFlight, whose flight  *)
(* of a service is the registered refresh with the calls awaiting it.      *)
Flight(s) ==
    IF inFlight[s] = NoCaller THEN [riders |-> {}, decided |-> FALSE, outcome |-> 0]
    ELSE [riders |-> Waiters(inFlight[s]),
          decided |-> phase[inFlight[s]] = "settled",
          outcome |-> result[inFlight[s]]]

Flights ==
    INSTANCE SingleFlight WITH
        known <- [s \in Services |-> entries[s].ver],
        flight <- [s \in Services |-> Flight(s)],
        asks <- svc, status <- pc, outcome <- got

ImplementsSingleFlight == Flights!Spec

(* The inductive invariant behind the safety properties.  First, the       *)
(* refreshes that run and the ones registered are the same.                *)
Registration ==
    /\ \A r \in Callers : Running(r) =>
         inFlight[svc[r]] = r /\ pc[r] = "waiting" /\ awaits[r] = r
    /\ \A s \in Services : inFlight[s] # NoCaller =>
         Running(inFlight[s]) /\ svc[inFlight[s]] = s

(* Entries hold a manifest, and a URL whose host deployed it.              *)
EntriesSound ==
    \A s \in Services :
        \/ entries[s] = NoEntry
        \/ /\ entries[s].ver # 0
           /\ entries[s].etag \in {0, entries[s].ver}
           /\ entries[s].url \in Urls
           /\ entries[s].ver <= version[entries[s].url]

(* An answer still to be applied is no older than what it would replace;   *)
(* a 304 vouches for the contract that is cached.                          *)
AnswersSound ==
    \A r \in Callers : phase[r] = "answered" =>
        /\ reply[r].etag \in {0, reply[r].ver}
        /\ reply[r].status = "notModified" => reply[r].ver = existing[r].ver
        /\ reply[r].status = "manifest" =>
            /\ reply[r].ver # 0
            /\ reply[r].ver <= version[asked[r]]
            /\ existing[r].url = asked[r] => existing[r].ver <= reply[r].ver

(* While a refresh runs its service's entry is stale, and when its answer  *)
(* is about to be applied no call is about to read that entry.             *)
StaleWhileRunning ==
    \A r \in Callers : phase[r] \in {"sent", "answered"} => ~IsFresh(svc[r])

NoReaderAhead ==
    \A r, c \in Callers :
        phase[r] = "answered" /\ pc[c] = "resumed" => svc[c] # svc[r]

(* A result on its way to the calls is what the cache holds.               *)
ResultsCached ==
    \A r \in Callers :
        result[r] # 0 => phase[r] = "settled" /\ entries[svc[r]].ver = result[r]

ReadersCurrent ==
    \A c \in Callers :
        pc[c] = "resumed" /\ got[c] # 0 => entries[svc[c]].ver = got[c]

IInv ==
    /\ TypeOK
    /\ Registration
    /\ WaitersServed
    /\ ExistingIsCurrent
    /\ EntriesSound
    /\ AnswersSound
    /\ StaleWhileRunning
    /\ NoReaderAhead
    /\ ResultsCached
    /\ ReadersCurrent
    /\ StaleIfError
    /\ ServedPair

(* The doc comment of getCachedBaseUrl: the cached URL is the one resolved *)
(* for the most recent fetch that succeeded.                               *)
BaseUrlOfLastFetch ==
    [][\A r \in Callers :
         Settle(r) /\ (IsUsable(reply[r]) \/ IsRevalidated(r))
             => entries'[svc[r]].url = asked[r]]_vars
=============================================================================
