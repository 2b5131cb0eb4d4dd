# Ecorpin SDK: TLA+ models and proofs

Ecorpin lets a program call a service as `sdk.crm.users.get(42)` with no URL in it. A service
registers resources and actions (`@ecorpin/server`), advertises them in a manifest at `/discovery`,
and a client (`@ecorpin/client`, or `ecorpin_client` in Python) fetches that manifest, caches it,
and turns each call into an HTTP request with credentials, a timeout, retries and typed errors
(`@ecorpin/core`). This directory holds TLA+ models of those parts, their TLC runs, and proofs
checked by TLAPS. `PROJECT.json` lists every component, run, mutant, theorem and hazard, and maps
every definition to its lines in `src/`.

## Inventory

Paths are relative to `src/packages`; "JS" is `client/src`, "py" is `client-py/src/ecorpin_client`.

| Component | State it keeps | Operations | What is hard | What makes it correct |
|---|---|---|---|---|
| JS metadata cache (`cache/metadataCache.ts`) with discovery (`discovery/*.ts`) | `entries` (manifest, etag, fetchedAt, baseUrl), `inFlight` | `getOrFetch`, `refresh`, `getCachedBaseUrl` | calls that overlap at every await; promise reactions; an entry captured before an await and used after it; failures | one refresh per service; no call lost; stale served on error and never made fresh by it; manifest and base URL belong together |
| JS call pipeline (`pipeline/composePipeline.ts`, `retry.ts`, `transport.ts`) with credentials (`auth/`) | per call: attempt, `authAlreadyRefreshed`, timer, response | `dispatchAction`, `withRetry`, `performRequest`, `getHeader`, `forceRefresh` | lost, late and broken requests; timer races; refresh times retry | a mutation at most once; bounded traffic; no early give-up; every call ends |
| Request mapping (`pipeline/buildRequest.ts`) | none | `mapArgsToCall`, `buildUrl` | odd ids | a call reaches its own action |
| SDK object (`sdk/*.ts`) | plugin namespaces; `onInit` promises; warm-ups under way | `createSDK`, `invokeAction`, `addNamespace`, the proxies | boot that fails half way; promises nobody awaits; hooks that throw; name collisions; manifests heard of out of order | nobody hears of a failed discovery while a manifest is cached and a URL resolves; plugins hear of a contract before any request of it; a service is not hidden |
| Error taxonomy (`core/src/errors`, `server/src/errors`) | none | `mapThrownError`, `errorFromEnvelope` | odd statuses, unknown codes | a client sees the class the server threw |
| Action endpoint (`server/src/adapters/express.ts`, `auth/`, `validation/`, `observability/`) | per request: id, auth, input; counters | middleware chain, route handler, error middleware | concurrent handlers; hooks that throw; a rejected async handler; process exit | every request answered; counters, plugins and answers agree |
| Health endpoint (`server/src/health`) | none | `GET /health` | a callback that hangs or reports what cannot be serialized, in the process of the action handlers | a probe is lost only by a rejection |
| Registry and router (`server/src/register`, `adapters/express.ts`, `discovery/`) | `currentRegistry`, `resources`; a router's routes | `registerService`, `registerResource`, `createEcorpinRouter`, `/discovery` | order of boot calls; failures half way; live manifest, which plugins extend, and fixed routes | unique names; the ETag names the manifest; advertised actions are reachable |
| Python metadata cache (`py/cache.py`, `discovery.py`) | entries, a lock per service | `get_or_fetch`, `_refresh`, `get_cached_base_url` | preemptive threads; a lock held across a fetch | one fetch at a time; the lock is given back |
| Python pipeline (`py/dispatch.py`, `retry.py`, `transport.py`, `auth.py`) | per call as in JS | `dispatch_action`, `with_retry`, `perform_request`, `get_header`, `force_refresh` | as in JS; a timeout per read, not per call; a body read under it; credentials without `force_refresh` | what the JS pipeline promises |
| Core utilities (`core/src/utils`, `metadata/schema.ts`) | none | hash, naming, semver, validation | hash collisions | deterministic (taken as constants) |

How they interact: `invokeAction` awaits `MetadataCache.getOrFetch`, which fetches from the
service's discovery endpoint; it tells the plugins of the manifest, looks the action up in it and calls
`dispatchAction`, which reads the base URL from the cache, asks the credentials for a header, and sends
requests to the action endpoint; an error comes back as an envelope that the taxonomy turns into a class,
the class decides about refresh and retry, and the plugins may replace it before the caller gets it.

## Modules

| Module | Models | State and actions against the code |
|---|---|---|
| `SingleFlight` | abstract specification of the cache | per service the last known manifest and at most one flight; a call is answered at once or boards; a flight is decided once and lands with one outcome for all |
| `MetadataCache` | `metadataCache.ts`, `metadataFetcher.ts`, `resolveServiceBaseUrl.ts` | `entries` and `inFlight` are the two maps; a caller is one pending `getOrFetch`, and the refresh it started carries its name. `GetOrFetch` is the synchronous part; `ServeManifest`, `ServeNotModified`, `FetchFails` are what the fetch comes back with; `Settle` the rest of `refresh`; `CleanUp` the `finally` callback; `Resume` the caller after its await, up to the reading of the base URL |
| `SdkCalls` | `createSDK.ts`, `proxyEngine.ts`, `namespaceBuilder.ts` on top of the cache: it extends `MetadataCache`, and every one of its steps is one of the cache's or leaves the cache alone | `BootPlugin`, `BootFails`, `WarmUp`, `Built` are `createSDK`; `Invoke` and `Await` a call through the proxies; `Continue` is `invokeAction` after its await; `DispatchEnds` its end; `up` is whether an unhandled rejection has ended the process |
| `ErrorTaxonomy` | `taxonomy.ts`, `mapThrownError.ts`, `fromEnvelope.ts` | constant operators |
| `RemoteCall` | abstract specification of one call, of both clients | counts the tries of a call, the runs of its handler and those that returned; a value needs a run that returned, a success without a value a run; a mutation is run once at most and not tried again after it was |
| `ServiceWire` | the network and the service as the requests of either client meet them | `wire`, `inbox`; `runs` counts the requests the handler was run for, whatever it had done when it threw, `returned` those in which nothing was thrown; a handler throws classes or legacy errors, whose status passes unchecked; `serverKey` is the key the service accepts |
| `CallPipeline` | `composePipeline.ts`, `retry.ts`, `transport.ts`, `credentialProvider.ts` over `ServiceWire` | `pc` is the await a call is suspended in; `attempt`, `refreshed` are the variables of the closures |
| `PyCallPipeline` | `dispatch.py`, `retry.py`, `transport.py`, `auth.py` over `ServiceWire` | `pc` is what the thread is blocked in; the head and the body of a response are read in different states, both under the read timer; `provider` tells the kinds of credentials apart |
| `ActionEndpoint` | `express.ts` with its middlewares | `Refuse...` and `StartHandler` are the synchronous chain, with keys that `apiKeys` merely inherits and schemas that throw; `HandlerReturns`, `HandlerThrows`, `HookThrows`, `ResultUnserializable` are the handler's outcomes with metrics, hooks and response; `Reject` is an unhandled rejection |
| `HealthEndpoint` | `healthEndpoint.ts` in the process of an action: it extends `ActionEndpoint` | a probe waits for its callback and is answered, or rejects and takes the requests with it, as they take it |
| `Routing` | `action.ts`, `buildRequest.ts`, Express's matching | constant operators: `Resolve`, `BreaksContract`, `Url`, `Target`. The table of a router is in groups, its own endpoints and then each resource, in the order in which `createEcorpinRouter` adds the routes; literals are compared without regard to case (`Lower`) |
| `ServiceRegistry` | `registerService.ts`, `serviceRegistry.ts`, router creation, `discoveryEndpoint.ts` | `registries`, `current`, `routers` with the routes fixed when each was built, `extension` for what the plugins' `extendMetadata` do, and one client that revalidates |
| `PyMetadataCache` | `cache.py`, `discovery.py`, one line of `dispatch.py` | one action per access of a thread to what threads share |
| `MC...` | instances for TLC | sets and model values only |
| `..._proofs` | theorems about `MetadataCache`, `SdkCalls`, `CallPipeline`, `PyCallPipeline`, `PyMetadataCache`, `ServiceRegistry`, `HealthEndpoint` | extend the modules they are about; `SdkCalls_proofs` extends `MetadataCache_proofs` and uses its theorems |

The definitions named `...Mutant` are plausible mistakes in the definition that follows them. No
specification uses them: each property of a passing run has been seen to fail with one of them in place.

### Abstractions

* A manifest is its contract's number: a host deploys contracts 1, 2, ... in order, so "older" can be
  stated. The ETag of a contract is that number, or 0 when the response has none. An action is known by the
  contract that introduced it (`wants` in `SdkCalls`).
* Time is an age that saturates at the TTL; a timer may fire whenever it is armed.
* A key, a service name, a body or an error is a model value or a class. Messages, details and latency figures
  are left out, and so are the figures a health probe reports.
* JavaScript code between two awaits is one action. In `MetadataCache` the clock, the environment and new
  deployments do not move between a promise's settling and its reactions (`MicrotasksDrained`); calls that
  were made before do interleave there.
* `PyMetadataCache` puts everything from taking the lock to sending the request in one step. Only the lock's holder
  writes the service's entry, and the thread reads nothing else that others write before the answer arrives.
* A process whose promise rejects with nobody to handle it ends, which is Node's default; the endpoints are
  also checked in a process that survives it (`exitOnRejection`).
* `Digest` in `ServiceRegistry` is injective in the run: collisions of the 32-bit hash are not considered.
* A response with a status that no HTTP message can end with (`IsFinalStatus`) is none: the client waits for its timer.
* The path of a URL is compared in the lower case of `Lower`, a constant; names, which are URL-safe, have no other.
* In `SdkCalls` the application is assumed to handle the rejections of the calls it makes (`Caught`), as callers of a promise do.
  What can still end the process is the code's own: an `onInit` that rejects with nobody waiting for it, and the `then` that awaiting a resource calls.
* In `SdkCalls` a dispatched call just ends with a value or an error; how is the matter of `CallPipeline`.

## What the runs check

Bounds are the smallest at which each case occurs: three callers allow a call to start a refresh, one to
join it and one to arrive as it ends; two URLs allow a service to move and come back; a second contract
allows a 200 after a 304. Where a run stops (`CHECK_DEADLOCK FALSE`), calls or requests are
finite in number and all of them are done.

| Run | Bounds | Shows |
|---|---|---|
| `cache_one` | 3 callers, 1 service, 2 URLs, 2 contracts, TTL 1 | the inductive invariant, coalescing, no lost wakeup, captured entry current, stale-if-error, freshness only by an answer, no regress; every call settles; `MetadataCache` implements `SingleFlight` |
| `sdk_calls` | 2 callers used again and again, 1 service at 1 URL, 2 contracts, 1 plugin, a namespace that may have the service's name, 1 warm-up | plugins hear of contracts in order and before a request of them is made; nobody hears of a failed discovery while the service has a manifest cached and a URL; every call ends |
| `call_retry` | 1 call of any kind, 2 retries, 2 keys, 5 things a handler may throw, among them legacy errors with status 200 and 0 | the inductive invariant, at most once, quiet after success, bounded traffic, no early give-up; `CallPipeline` implements `RemoteCall`; every call ends |
| `py_call` | 1 call of any kind with any kind of credentials, 2 retries, 2 keys, 5 things a handler may throw, among them legacy errors with status 200, 302 and 0 | the inductive invariant of the Python pipeline, which implements `RemoteCall` too; every call ends |
| `py_lock` | 3 threads with one call each, 1 service, 2 URLs, 3 contracts (the third not understood), TTL 1 | the inductive invariant, one fetch per service, stale-if-error, no regress, no thread waits for ever |
| `endpoint_hooks` | 2 requests, 2 health probes, 2 hooks that may throw, 2 keys, 2 bad ones and an inherited name, schemas that throw, a process that exits on a rejection or survives it | refusals are final unless the middleware itself breaks; counters and plugins agree with the answers; what an exit loses |
| `registry_contract` | 2 registries, 2 routers, 2 registrations of 3 resource names (one refused, one also an endpoint's), 5 declarations, literal paths that differ in case only | unique names, the ETag names the manifest, calls reach their own action unless paths overlap |

One call is enough in `call_retry` and `py_call` since calls share nothing but the credentials, whose key another call's refresh
replaces as `RotateKey` and this call's own refresh do; the proofs are for any number of calls. A contract the client does not understand
is treated like a failed fetch by both caches; `py_lock` has it, and the proofs of both do.

The other runs exhibit a disagreement between the code and something it says of itself; `PROJECT.json` quotes both:

| Run | What happens |
|---|---|
| `cache_baseurl` | a 304 from the new host keeps the old host's URL in the entry |
| `call_body` | a response body that stalls hangs the call, its timer being cleared |
| `endpoint_silent` | a throwing hook leaves a request unanswered |
| `sdk_shadow` | a plugin namespace with a service's name hides the service, without an error |
| `py_bare` | credentials without `force_refresh` turn a rejected key into an `AttributeError` |

Smaller things that a reader of the code meets on the way, and that no run is spent on:

* Cache: `resolveServiceBaseUrl` is called outside the `try` that falls back on the stale manifest, so a cached manifest is not served when
  no URL can be resolved (`client/src/cache/metadataCache.ts:47`; `StaleIfError` leaves this case out). Failures are not remembered: while a host is
  down each non-overlapping call fetches again (`metadataCache.ts:79`). `Date.now()` may step back and lengthen the TTL (`metadataCache.ts:27`).
  Python threads that waited for a failed fetch repeat it one after the other (`cache.py:54`), and read the base URL after the
  lock is given back, so that another thread's refresh may pair it with an older manifest (`dispatch.py:60`).
* Pipeline: a legacy error whose status is below 400 passes unchecked (`mapThrownError.ts:89`) and both clients take it for a success without a value
  (`client/src/pipeline/transport.ts:74`, `transport.py:75`), which is why `RemoteCall` has `ReturnNothing`; a handler that throws an `AuthenticationError` of its own after having done its work makes the client repeat a mutation
  (`composePipeline.ts:93`; the theorems about at most once exclude it). A success whose body breaks returns `undefined`
  (`client/src/pipeline/transport.ts:72`); a connection broken after the service ran the request is a `NetworkError`, "never reached the server" (`transport.ts:61`);
  a proxy's 503 page, without an envelope, is not retried (`transport.ts:75`); `maxRetries: -1` throws `undefined` (`retry.ts:38`);
  a `GET` action with an id and a second argument is refused by `fetch` (`buildRequest.ts:34`).
* Routing: an action with a path parameter other than `:id` cannot be called (`buildRequest.ts:34`); `get("")` runs `list`
  (`buildRequest.ts:63`); actions whose paths differ in case only are the same route to Express and pass the registry (`express.ts:122`); an action registered after the router was built is advertised and not routed (`express.ts:134`).
* SDK: the plugins' `onError` are not asked about errors of discovery and lookup (`createSDK.ts:35`); `onServiceRegistered` and
  `middleware` are declared in `core/src/plugins/contracts.ts` and called nowhere; `await sdk.crm.users` calls an action named `then`, whose
  rejection nobody handles (`proxyEngine.ts:71`).
* Server: keys are looked up on a plain object (`authMiddleware.ts:42`), so the name of an inherited member passes for a key where no scope is
  required and is answered with 500 where one is; a schema that throws is answered with 500 or with what it throws (`validateMiddleware.ts:29`);
  a malformed body is answered without the caller's correlation id (`server/src/adapters/express.ts:125`); a DELETE action's
  schema is not applied (`validateMiddleware.ts:23`); a health callback that never settles leaves the probe waiting (`healthEndpoint.ts:73`).

### Fairness

* `MetadataCache`: weak fairness of each promise reaction, which the event loop runs, and strong fairness of the network for each
  refresh: calls that hit the cache again and again run reactions in between, after which the event loop polls the network. That
  a fetch ends at all is an assumption on the runtime, since the client gives it no timeout.
* `SdkCalls`: the same of the cache below; `createSDK` runs on; and a dispatched call ends, which is what `CallSettles` says of `CallPipeline`.
* `CallPipeline`: the event loop and the timers (`Proceed`, `TimesOut`). Nothing in the code makes a
  response body end, so `BodyFairness` is separate, and `call_body` shows what happens without it. Breaking
  connections, answers and rotations are never assumed to happen.
* `PyCallPipeline`: the thread and the read timers. The timer restarts with every byte: that a body does not trickle in for ever
  is an assumption on the service.
* `ActionEndpoint`: requests are taken up and handlers settle (used by `endpoint_silent` only). `HealthEndpoint` assumes nothing.
* `PyMetadataCache`: each thread proceeds while it can, and the session's timeout ends every fetch. No order among
  the threads waiting for a lock is assumed.

## What is proved

All theorems hold for every value of the constants under the modules' named assumptions.

`MetadataCache_proofs`: `TypeCorrect`, `InvariantHolds`, `Coalescing`, `NoLostWakeup`,
`CapturedEntryCurrent`, `StaleServedOnError`, `PairBelongsTogether`, `NoRegressHolds`, `YoungByAnswer`, `CacheImplementsSingleFlight`.
The safety properties are not inductive one by one; `IInv` is. Its core is `Registration`: a refresh runs
exactly while it is registered in `inFlight`, and its starter awaits it. This gives coalescing, and with
it only the registered refresh can change the service's entry, so the captured entry stays current
(`ExistingIsCurrent`). `EntriesSound` and `AnswersSound` relate entries and answers on their way to what the hosts
have deployed, which no later step undoes; `StaleWhileRunning` says that a service being refreshed has a
stale entry. `NoReaderAhead` is what `ServedPair` needs: when an answer is about to be applied no call of that
service is between its result and its reading of the base URL, because reactions run before the next task.
`ResultsCached` and `ReadersCurrent` carry the result from the refresh to its callers.

`CacheImplementsSingleFlight` is the refinement: every step of the cache is a step of `SingleFlight` or changes nothing of it. A flight stands for
the refresh registered in `inFlight`; the decision is the answer being applied, the landing the `finally` callback, and a rider is a caller awaiting the
promise. `Registered` and `OneFlight`, from `IInv`, say that there is never a choice which refresh a flight stands for; then there is one lemma per action.

`SdkCalls_proofs`: `CacheBelow` says that the sdk object implements the cache's specification, `SdkSpec => Spec`, step by step; so
`CacheInvariantBelow` and `SingleFlightBelow` carry `IInv` and the refinement up to it, whatever plugins, warm-ups and proxies do. `SdkTypeCorrect` needs
`NothingStarted`: a boot that failed, or has plugins left to start, has started no call. `FailsForAReason` says that a call or a warm-up
hears of a failure only while nothing is cached or no URL can be found, in the moment it goes on and whoever's refresh it shares: its invariant `FailureSound`
keeps this from the refresh's failure over the `finally` callback to each caller, between which neither entries nor URLs change. `HearingInOrder` and `DispatchAnnounced` are about
a service that stays at its base URL, which is the hypothesis `StaysAt(home)`; a service that moves may have an older contract at its new host, and plugins then
hear of that one after the newer. Under the hypothesis `AtHome` keeps entries and requests at that URL and so their contracts growing
(`EntriesGrow`, from `NoRegressStep`), and `HeardSound` says that no plugin heard of more than is cached.

`CallPipeline_proofs`: `TypeCorrect`, `TrafficIsBounded`, `ValuesWereReturned`, `AtMostOnce`, `QuietAfterReturn`,
`NothingLeftUntried`, `LoopNeverFallsThrough`, `InvariantHolds`, `Implementation`. In `IInv`, `TrafficSound` counts the requests a call can have
made by where it is suspended; `MutationSound` says that a mutating call's request is on its way, was run or was answered, and
never two of these, and that a refused request was not run; `SuccessSound` that a success on
its way is of a request that was run, and, unless it is an error's envelope under a status of success, of one that returned; `OutcomeSound` that an error reaches the caller only through the
guards of `Fail`. From these `Implementation` shows that every step of the pipeline is a step of `RemoteCall` or changes nothing of it.
`AtMostOnce`, `QuietAfterReturn`, `InvariantHolds` and `Implementation` assume that no handler answers as the authentication middleware does (`HandlersNeverDeny`), without which they are false;
`LoopNeverFallsThrough` assumes that `MaxRetries` is a natural number.

`PyCallPipeline_proofs`: `TypeCorrect`, `InvariantHolds` and `Implementation`, along the same argument and under the same assumption on handlers. The
differences that matter to it are that a thread does not abort a request whose read timed out, that a broken body is an error to be
retried (the JS client takes it for a success without a value), and that the error path may end in an exception of the credentials.

`PyMetadataCache_proofs`: `TypeCorrect`, `InvariantHolds`, `Coalescing`, `StaleServedOnError`, `NoRegressHolds`. The invariant says that the
thread that fetches holds the service's lock and captured the entry which is still cached, and that entries and answers are of contracts deployed.

`ServiceRegistry_proofs`: `UniqueNames`, from `RegistriesSound`, an invariant that the current registry is one of those made and each has unique names;
`TypeCorrect`, from `Referred`, that routers and the client refer to registries and routers there are, which no step takes away;
`NotModifiedIsTrue`, that the client's ETag is the digest of the manifest it holds, so that a 304 is true, when the digest is injective
(`contentHash` has 32 bits and is so only nearly); and `CallsReachOwnAction`. Its invariant `Traced` says that a router's groups of routes are its own
endpoints or those of resources of its registry, and that the client knows only resources of the registry of the router it asked. The rest is about the operators of `Routing`,
for any path and id: a URL keeps the segments of its action's path (`UrlKeepsPath`), so that it matches the action's own route (`OwnRouteMatches`), what else matches it
overlaps with that route (`RivalOverlaps`), no route of another resource does (`OtherResourcesDoNotMatch`), and what Express calls is one of the routes that match
(`TargetIsAHit`). The theorem assumes what the code does not check, that no declared path has an empty or a dot segment (`PlainPaths`): URL parsing and
routing would drop it (`buildRequest.ts:63`). `IdsAssumption` says the same of the ids of the calls it is about, `NamesAssumption` of names,
and that they are in lower case, where `isUrlSafeName` sees to both.

`HealthEndpoint_proofs`: `FailuresContained`, `RefusalsAreFinal`, `PluginsAgree`, `CountersMatch`, `HealthTypeCorrect`, for any number of requests, probes, plugins and keys. The invariant
`HealthSound` keeps, for each request, its answer beside what every plugin heard, through the rejections of probes and of other requests. For `CountersMatch`,
`CountersSound` counts the requests the plugins heard of (each joins the finite set of those heard of once, `StepCounts`), as the middleware does.

Every safety invariant, action property and refinement a passing run checks is stated by a theorem. Only model-checked is the liveness (`CallSettles`,
`EveryCallSettles`, `CallsSettle`), since TLAPS proves neither liveness under fairness nor ENABLED; the operators of `ErrorTaxonomy`, which are
finite tables; and what `WithoutDots` folds when a path does have dot segments, which is an induction over the path.

## Not modelled

* Hangs of the discovery fetch itself, steps of the wall clock, hash collisions.
* Query strings, request bodies, headers, redirects, correlation ids, log lines, latency percentiles and the deprecation warning.
* Which error the plugins' `onError` put in the place of a call's: that there is one does not depend on it.
* A handler that answers on `ctx.res` itself.
* Python's `sdk.py`: attribute access that keeps no state. The string functions of `core/src/utils`, which appear as constants.

## What would come next

1. A composition of `MetadataCache`, `ServiceRegistry` and `ActionEndpoint`: a service redeployed while clients hold its manifest.
2. Shared lemmas for the two pipelines, whose proofs over `ServiceWire` run in parallel.
3. Credentials whose `forceRefresh` several calls run at once, as a component of their own.
