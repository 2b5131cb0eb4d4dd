--------------------------- MODULE PyMetadataCache ---------------------------
(***************************************************************************)
(* The metadata cache of the Python client: get_or_fetch with its lock per *)
(* service, _refresh, and dispatch_action's later reading of the cached    *)
(* base URL, run by preemptive threads.                                    *)
(*                                                                         *)
(* An action is one read or write of what the threads share: the look      *)
(* without the lock, everything from taking the lock to sending the fetch  *)
(* (only the holder writes the service's entry), the application of the    *)
(* answer with the lock's release, and the reading of the base URL.        *)
(* Manifests, ETags and ages are as in MetadataCache.                      *)
(***************************************************************************)
EXTENDS Integers, FiniteSets

CONSTANTS
    Threads, NoThread,
    Services,
    Urls, NoUrl,
    MaxVersion,   \* bound: contracts a host deploys
    Understood,   \* contracts whose protocol version this client speaks
    Ttl,          \* metadata_cache_ttl_ms, in clock ticks
    MaxCalls      \* bound: calls per thread

ASSUME ThreadsAssumption == NoThread \notin Threads
ASSUME UrlsAssumption == NoUrl \notin Urls
ASSUME VersionAssumption == MaxVersion \in Nat \ {0}
ASSUME TtlAssumption == Ttl \in Nat
ASSUME CallsAssumption == MaxCalls \in Nat

VARIABLES
    env,       \* what resolve_service_base_url returns at this moment
    version,   \* the contract each host currently serves
    entries,   \* self._entries
    age,       \* time.monotonic() - fetched_at, saturated at Ttl
    lock,      \* the thread that holds the service's lock
    pc,        \* "ready", "locking", "fetching", "answered" or "found"
    calls,     \* calls this thread has made
    svc,       \* the service its call asks for
    got,       \* the manifest get_or_fetch returned, 0 if it raised
    target,    \* the base URL its request went to
    asked,     \* base_url of its fetch
    existing,  \* the entry read under the lock
    reply      \* what its fetch came back with

hostVars == <<env, version>>
cacheVars == <<entries, age, lock>>
callVars == <<calls, svc, got, target>>
fetchVars == <<asked, existing, reply>>
vars == <<hostVars, cacheVars, pc, callVars, fetchVars>>

Manifests == 0 .. MaxVersion

Entries == [ver : Manifests, etag : Manifests, url : Urls \cup {NoUrl}]
NoEntry == [ver |-> 0, etag |-> 0, url |-> NoUrl]

Replies == [status : {"none", "manifest", "notModified", "failed"},
            ver : Manifests, etag : Manifests]
NoReply == [status |-> "none", ver |-> 0, etag |-> 0]
Failure == [status |-> "failed", ver |-> 0, etag |-> 0]

Init ==
    /\ env \in [Services -> Urls \cup {NoUrl}]
    /\ version = [u \in Urls |-> 1]
    /\ entries = [s \in Services |-> NoEntry]
    /\ age = [s \in Services |-> 0]
    /\ lock = [s \in Services |-> NoThread]
    /\ pc = [t \in Threads |-> "ready"]
    /\ calls = [t \in Threads |-> 0]
    /\ svc \in [Threads -> Services]
    /\ got = [t \in Threads |-> 0]
    /\ target = [t \in Threads |-> NoUrl]
    /\ asked = [t \in Threads |-> NoUrl]
    /\ existing = [t \in Threads |-> NoEntry]
    /\ reply = [t \in Threads |-> NoReply]

-----------------------------------------------------------------------------
(* get_or_fetch.                                                           *)

IsFresh(s) == entries[s] # NoEntry /\ age[s] < Ttl

Move(t, where) == pc' = [pc EXCEPT ![t] = where]

Look(t, s) ==
    /\ pc[t] = "ready"
    /\ calls[t] < MaxCalls
    /\ calls' = [calls EXCEPT ![t] = @ + 1]
    /\ svc' = [svc EXCEPT ![t] = s]
    /\ target' = [target EXCEPT ![t] = NoUrl]
    /\ \/ /\ IsFresh(s)
          /\ got' = [got EXCEPT ![t] = entries[s].ver]
          /\ Move(t, "found")
       \/ /\ ~IsFresh(s)
          /\ got' = [got EXCEPT ![t] = 0]
          /\ Move(t, "locking")
    /\ UNCHANGED <<hostVars, cacheVars, fetchVars>>

MayEnterMutant(s) == TRUE
MayEnter(s) == lock[s] = NoThread

HasUrl(s) == env[s] # NoUrl

(* The second look, under the lock.                                        *)
EnterAndFind(t) ==
    /\ pc[t] = "locking"
    /\ MayEnter(svc[t])
    /\ IsFresh(svc[t])
    /\ got' = [got EXCEPT ![t] = entries[svc[t]].ver]
    /\ Move(t, "found")
    /\ UNCHANGED <<hostVars, cacheVars, calls, svc, target, fetchVars>>

(* resolve_service_base_url raises outside the try block: the with         *)
(* statement releases the lock and the call fails, whatever is cached.     *)
EnterAndRaise(t) ==
    /\ pc[t] = "locking"
    /\ MayEnter(svc[t])
    /\ ~IsFresh(svc[t])
    /\ ~HasUrl(svc[t])
    /\ Move(t, "ready")
    /\ UNCHANGED <<hostVars, cacheVars, callVars, fetchVars>>

EnterAndFetch(t) ==
    /\ pc[t] = "locking"
    /\ MayEnter(svc[t])
    /\ ~IsFresh(svc[t])
    /\ HasUrl(svc[t])
    /\ lock' = [lock EXCEPT ![svc[t]] = t]
    /\ existing' = [existing EXCEPT ![t] = entries[svc[t]]]
    /\ asked' = [asked EXCEPT ![t] = env[svc[t]]]
    /\ Move(t, "fetching")
    /\ UNCHANGED <<hostVars, entries, age, callVars, reply>>

Enter(t) == EnterAndFind(t) \/ EnterAndRaise(t) \/ EnterAndFetch(t)

-----------------------------------------------------------------------------
(* session.get(...): the host answers, or the timeout of ten seconds.      *)

Answer(t, answer) ==
    /\ reply' = [reply EXCEPT ![t] = answer]
    /\ Move(t, "answered")
    /\ UNCHANGED <<hostVars, cacheVars, callVars, asked, existing>>

ServeNotModified(t) ==
    /\ pc[t] = "fetching"
    /\ existing[t].etag = version[asked[t]]
    /\ Answer(t, [status |-> "notModified", ver |-> version[asked[t]], etag |-> 0])

ServeManifest(t) ==
    /\ pc[t] = "fetching"
    /\ existing[t].etag # version[asked[t]]
    /\ \E etag \in {0, version[asked[t]]} :
         Answer(t, [status |-> "manifest", ver |-> version[asked[t]], etag |-> etag])

FetchFails(t) ==
    /\ pc[t] = "fetching"
    /\ Answer(t, Failure)

-----------------------------------------------------------------------------
(* _refresh after the fetch, up to the release of the lock.                *)

IsUsable(answer) == answer.status = "manifest" /\ answer.ver \in Understood
IsRevalidated(t) == reply[t].status = "notModified" /\ existing[t] # NoEntry

StoreMutant(t) ==
    /\ IsUsable(reply[t])
    /\ entries' = [entries EXCEPT ![svc[t]] =
                     [ver |-> reply[t].ver, etag |-> reply[t].etag, url |-> env[svc[t]]]]
    /\ age' = [age EXCEPT ![svc[t]] = 0]
    /\ got' = [got EXCEPT ![t] = reply[t].ver]
Store(t) ==
    /\ IsUsable(reply[t])
    /\ entries' = [entries EXCEPT ![svc[t]] =
                     [ver |-> reply[t].ver, etag |-> reply[t].etag, url |-> asked[t]]]
    /\ age' = [age EXCEPT ![svc[t]] = 0]
    /\ got' = [got EXCEPT ![t] = reply[t].ver]

Revalidate(t) ==
    /\ IsRevalidated(t)
    /\ age' = [age EXCEPT ![svc[t]] = 0]
    /\ got' = [got EXCEPT ![t] = existing[t].ver]
    /\ UNCHANGED entries

FallBackMutant(t) ==
    /\ ~IsUsable(reply[t]) /\ ~IsRevalidated(t)
    /\ got' = [got EXCEPT ![t] = 0]
    /\ UNCHANGED <<entries, age>>
FallBack(t) ==
    /\ ~IsUsable(reply[t]) /\ ~IsRevalidated(t)
    /\ got' = [got EXCEPT ![t] = existing[t].ver]
    /\ UNCHANGED <<entries, age>>

ReleasedMutant(t) ==
    IF IsUsable(reply[t]) \/ IsRevalidated(t) THEN [lock EXCEPT ![svc[t]] = NoThread] ELSE lock
Released(t) == [lock EXCEPT ![svc[t]] = NoThread]

Apply(t) ==
    /\ pc[t] = "answered"
    /\ Store(t) \/ Revalidate(t) \/ FallBack(t)
    /\ lock' = Released(t)
    /\ Move(t, IF got'[t] = 0 THEN "ready" ELSE "found")
    /\ asked' = [asked EXCEPT ![t] = NoUrl]
    /\ existing' = [existing EXCEPT ![t] = NoEntry]
    /\ reply' = [reply EXCEPT ![t] = NoReply]
    /\ UNCHANGED <<hostVars, calls, svc, target>>

(* dispatch_action: get_cached_base_url, without the lock.                 *)
Dispatch(t) ==
    /\ pc[t] = "found"
    /\ target' = [target EXCEPT ![t] = entries[svc[t]].url]
    /\ Move(t, "ready")
    /\ UNCHANGED <<hostVars, cacheVars, calls, svc, got, fetchVars>>

-----------------------------------------------------------------------------
Tick ==
    /\ \E s \in Services : entries[s] # NoEntry /\ age[s] < Ttl
    /\ age' = [s \in Services |-> IF entries[s] # NoEntry /\ age[s] < Ttl
                                  THEN age[s] + 1 ELSE age[s]]
    /\ UNCHANGED <<hostVars, entries, lock, pc, callVars, fetchVars>>

Repoint(s, u) ==
    /\ env[s] # u
    /\ env' = [env EXCEPT ![s] = u]
    /\ UNCHANGED <<version, cacheVars, pc, callVars, fetchVars>>

Deploy(u) ==
    /\ version[u] < MaxVersion
    /\ version' = [version EXCEPT ![u] = @ + 1]
    /\ UNCHANGED <<env, cacheVars, pc, callVars, fetchVars>>

-----------------------------------------------------------------------------
Network(t) == ServeNotModified(t) \/ ServeManifest(t) \/ FetchFails(t)

Thread(t) == Enter(t) \/ Network(t) \/ Apply(t) \/ Dispatch(t)

Operator == (\E s \in Services, u \in Urls \cup {NoUrl} : Repoint(s, u)) \/ (\E u \in Urls : Deploy(u))

Next ==
    \/ \E t \in Threads, s \in Services : Look(t, s)
    \/ \E t \in Threads : Thread(t)
    \/ Tick
    \/ Operator

Spec == Init /\ [][Next]_vars

(* The fetch has a timeout, and a thread that waits for a lock which is    *)
(* free for good takes it; no order among waiting threads is assumed.      *)
FairSpec == Spec /\ \A t \in Threads : WF_vars(Thread(t))

-----------------------------------------------------------------------------
(* Correctness.                                                            *)

TypeOK ==
    /\ env \in [Services -> Urls \cup {NoUrl}]
    /\ version \in [Urls -> 1 .. MaxVersion]
    /\ entries \in [Services -> Entries]
    /\ age \in [Services -> 0 .. Ttl]
    /\ lock \in [Services -> Threads \cup {NoThread}]
    /\ pc \in [Threads -> {"ready", "locking", "fetching", "answered", "found"}]
    /\ calls \in [Threads -> 0 .. MaxCalls]
    /\ svc \in [Threads -> Services]
    /\ got \in [Threads -> Manifests]
    /\ target \in [Threads -> Urls \cup {NoUrl}]
    /\ asked \in [Threads -> Urls \cup {NoUrl}]
    /\ \A t \in Threads : pc[t] \in {"fetching", "answered"} => asked[t] \in Urls
    /\ existing \in [Threads -> Entries]
    /\ reply \in [Threads -> Replies]

HasFetch(t) == pc[t] \in {"fetching", "answered"}

(* At most one fetch of a service runs, and the entry it captured is still *)
(* the cached one when its answer is applied.                              *)
OneFetchPerService ==
    \A t \in Threads : HasFetch(t) =>
        /\ lock[svc[t]] = t
        /\ existing[t] = entries[svc[t]]

(* The lock is held for a fetch and for nothing else.                      *)
LockIsReleased ==
    \A s \in Services : lock[s] # NoThread => HasFetch(lock[s]) /\ svc[lock[s]] = s

(* A contract is cached with the base URL that served it, and with an ETag *)
(* that is its own if any.                                                 *)
Served(ver, etag, url) == ver <= version[url] /\ etag \in {0, ver}

CachedPair ==
    \A s \in Services : entries[s] # NoEntry =>
        /\ entries[s].url \in Urls
        /\ entries[s].ver > 0
        /\ Served(entries[s].ver, entries[s].etag, entries[s].url)

(* An answer is of the host that was asked, and no older than what the     *)
(* cache has of that host.                                                 *)
AnswerIsRecent ==
    \A t \in Threads : pc[t] = "answered" /\ reply[t].status = "manifest" =>
        /\ reply[t].ver > 0
        /\ Served(reply[t].ver, reply[t].etag, asked[t])
        /\ existing[t].url = asked[t] => existing[t].ver <= reply[t].ver

(* A thread has a manifest to work with where it goes on to dispatch, and  *)
(* then its service has a base URL.                                        *)
FoundIsCached ==
    \A t \in Threads : pc[t] = "found" => got[t] > 0 /\ entries[svc[t]] # NoEntry

(* What holds between the cache, its locks and the threads in every state: *)
(* one fetch of a service at a time, whose answer can be applied to the    *)
(* entry it was asked for although hosts, URLs and time moved meanwhile.   *)
IInv ==
    /\ TypeOK
    /\ OneFetchPerService
    /\ LockIsReleased
    /\ CachedPair
    /\ AnswerIsRecent
    /\ FoundIsCached

(* Stale-if-error: a thread whose fetch brought nothing fails only when    *)
(* nothing is cached.                                                      *)
StaleIfError ==
    [][\A t \in Threads :
         Apply(t) /\ pc'[t] = "ready" => entries[svc[t]] = NoEntry]_vars

(* A slow answer never replaces a newer contract of a host by an older.    *)
NoRegress ==
    [][\A s \in Services :
         entries[s] # NoEntry /\ entries'[s].url = entries[s].url
             => entries'[s].ver >= entries[s].ver]_vars

(* Every call returns or raises, however many threads want the lock.       *)
EveryCallSettles == \A t \in Threads : pc[t] = "locking" ~> pc[t] = "ready"
=============================================================================
