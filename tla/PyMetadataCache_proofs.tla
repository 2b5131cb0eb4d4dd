------------------------ MODULE PyMetadataCache_proofs ------------------------
(***************************************************************************)
(* Proofs about PyMetadataCache for every set of threads, services and     *)
(* URLs, every TTL and every bound on contracts and calls.                 *)
(***************************************************************************)
EXTENDS PyMetadataCache, TLAPS

USE ThreadsAssumption, UrlsAssumption, VersionAssumption, TtlAssumption, CallsAssumption
USE DEF Manifests, NoEntry, NoReply, Failure, hostVars, cacheVars, callVars, fetchVars

(* Every step keeps every variable in its type.                            *)
LEMMA TypeInductive == TypeOK /\ [Next]_vars => TypeOK'
<1> SUFFICES ASSUME TypeOK, [Next]_vars PROVE TypeOK'
  OBVIOUS
<1> USE DEF TypeOK, Entries, Replies
<1>1. ASSUME NEW t \in Threads, NEW s \in Services, Look(t, s) PROVE TypeOK'
  <2>1. entries[s].ver \in Manifests /\ calls[t] + 1 \in 0 .. MaxCalls
    BY <1>1 DEF Look
  <2>2. got' \in [Threads -> Manifests] /\ calls' \in [Threads -> 0 .. MaxCalls]
    BY <1>1, <2>1 DEF Look
  <2>3. pc' \in [Threads -> {"ready", "locking", "fetching", "answered", "found"}]
    BY <1>1 DEF Look, Move
  <2>4. \A x \in Threads : pc'[x] \in {"fetching", "answered"} => asked'[x] \in Urls
    BY <1>1 DEF Look, Move
  <2>5. svc' \in [Threads -> Services] /\ target' \in [Threads -> Urls \cup {NoUrl}]
    BY <1>1 DEF Look
  <2> QED
    BY <1>1, <2>2, <2>3, <2>4 DEF Look
<1>2. ASSUME NEW t \in Threads, EnterAndFind(t) PROVE TypeOK'
  BY <1>2 DEF EnterAndFind, Move, MayEnter, IsFresh
<1>3. ASSUME NEW t \in Threads, EnterAndRaise(t) PROVE TypeOK'
  BY <1>3 DEF EnterAndRaise, Move, MayEnter
<1>4. ASSUME NEW t \in Threads, EnterAndFetch(t) PROVE TypeOK'
  BY <1>4 DEF EnterAndFetch, Move, MayEnter, HasUrl
<1>5. ASSUME NEW t \in Threads, ServeNotModified(t) PROVE TypeOK'
  BY <1>5 DEF ServeNotModified, Answer, Move
<1>6. ASSUME NEW t \in Threads, ServeManifest(t) PROVE TypeOK'
  BY <1>6 DEF ServeManifest, Answer, Move
<1>7. ASSUME NEW t \in Threads, FetchFails(t) PROVE TypeOK'
  BY <1>7 DEF FetchFails, Answer, Move
<1>8. ASSUME NEW t \in Threads, Apply(t) PROVE TypeOK'
  <2>1. CASE Store(t)
    BY <1>8, <2>1 DEF Apply, Move, Released, Store
  <2>2. CASE Revalidate(t)
    BY <1>8, <2>2 DEF Apply, Move, Released, Revalidate
  <2>3. CASE FallBack(t)
    BY <1>8, <2>3 DEF Apply, Move, Released, FallBack
  <2> QED
    BY <1>8, <2>1, <2>2, <2>3 DEF Apply
<1>9. ASSUME NEW t \in Threads, Dispatch(t) PROVE TypeOK'
  BY <1>9 DEF Dispatch, Move
<1>10. CASE Tick
  BY <1>10 DEF Tick
<1>11. ASSUME NEW s \in Services, NEW u \in Urls \cup {NoUrl}, Repoint(s, u) PROVE TypeOK'
  BY <1>11 DEF Repoint
<1>12. ASSUME NEW u \in Urls, Deploy(u) PROVE TypeOK'
  BY <1>12 DEF Deploy
<1>13. CASE UNCHANGED vars
  BY <1>13 DEF vars
<1> QED
  BY <1>1, <1>2, <1>3, <1>4, <1>5, <1>6, <1>7, <1>8, <1>9, <1>10, <1>11, <1>12, <1>13
     DEF Next, Enter, Network, Thread, Operator

(* Type correctness: every variable keeps its type.                        *)
THEOREM TypeCorrect == Spec => []TypeOK
<1>1. Init => TypeOK
  BY DEF Init, TypeOK, Entries, Replies
<1> QED
  BY <1>1, TypeInductive, PTL DEF Spec

(* The invariant is inductive.                                             *)
LEMMA InvariantInductive == IInv /\ [Next]_vars => IInv'
<1> SUFFICES ASSUME IInv, [Next]_vars PROVE IInv'
  OBVIOUS
<1>0. TypeOK /\ TypeOK'
  BY TypeInductive DEF IInv
<1>1. ASSUME NEW t \in Threads, NEW s \in Services, Look(t, s) PROVE IInv'
  <2>1. OneFetchPerService'
    BY <1>1 DEF IInv, TypeOK, OneFetchPerService, HasFetch, Look, Move
  <2>2. LockIsReleased'
    BY <1>1 DEF IInv, TypeOK, LockIsReleased, HasFetch, Look, Move
  <2>3. CachedPair'
    BY <1>1 DEF IInv, CachedPair, Served, Look
  <2>4. AnswerIsRecent'
    BY <1>1 DEF IInv, TypeOK, AnswerIsRecent, Served, Look, Move
  <2>5. FoundIsCached'
    BY <1>1 DEF IInv, TypeOK, FoundIsCached, CachedPair, Look, Move, IsFresh
  <2> QED
    BY <1>0, <2>1, <2>2, <2>3, <2>4, <2>5 DEF IInv
<1>2. ASSUME NEW t \in Threads, EnterAndFind(t) PROVE IInv'
  <2>1. OneFetchPerService'
    BY <1>2 DEF IInv, OneFetchPerService, HasFetch, EnterAndFind, Move
  <2>2. LockIsReleased'
    BY <1>2 DEF IInv, LockIsReleased, HasFetch, EnterAndFind, Move
  <2>3. CachedPair'
    BY <1>2 DEF IInv, CachedPair, Served, EnterAndFind
  <2>4. AnswerIsRecent'
    BY <1>2 DEF IInv, AnswerIsRecent, Served, EnterAndFind, Move
  <2>5. FoundIsCached'
    BY <1>2 DEF IInv, TypeOK, FoundIsCached, CachedPair, EnterAndFind, Move, IsFresh
  <2> QED
    BY <1>0, <2>1, <2>2, <2>3, <2>4, <2>5 DEF IInv
<1>3. ASSUME NEW t \in Threads, EnterAndRaise(t) PROVE IInv'
  <2>1. OneFetchPerService'
    BY <1>3 DEF IInv, OneFetchPerService, HasFetch, EnterAndRaise, Move
  <2>2. LockIsReleased'
    BY <1>3 DEF IInv, LockIsReleased, HasFetch, EnterAndRaise, Move
  <2>3. CachedPair'
    BY <1>3 DEF IInv, CachedPair, Served, EnterAndRaise
  <2>4. AnswerIsRecent'
    BY <1>3 DEF IInv, AnswerIsRecent, Served, EnterAndRaise, Move
  <2>5. FoundIsCached'
    BY <1>3 DEF IInv, FoundIsCached, EnterAndRaise, Move
  <2> QED
    BY <1>0, <2>1, <2>2, <2>3, <2>4, <2>5 DEF IInv
<1>4. ASSUME NEW t \in Threads, EnterAndFetch(t) PROVE IInv'
  <2>1. OneFetchPerService'
    BY <1>4 DEF IInv, TypeOK, OneFetchPerService, HasFetch, EnterAndFetch, Move, MayEnter
  <2>2. LockIsReleased'
    BY <1>4 DEF IInv, TypeOK, LockIsReleased, HasFetch, EnterAndFetch, Move
  <2>3. CachedPair'
    BY <1>4 DEF IInv, CachedPair, Served, EnterAndFetch
  <2>4. AnswerIsRecent'
    BY <1>4 DEF IInv, AnswerIsRecent, Served, EnterAndFetch, Move
  <2>5. FoundIsCached'
    BY <1>4 DEF IInv, FoundIsCached, EnterAndFetch, Move
  <2> QED
    BY <1>0, <2>1, <2>2, <2>3, <2>4, <2>5 DEF IInv
<1>5. ASSUME NEW t \in Threads, ServeNotModified(t) PROVE IInv'
  <2>1. OneFetchPerService'
    BY <1>5 DEF IInv, OneFetchPerService, HasFetch, ServeNotModified, Answer, Move
  <2>2. LockIsReleased'
    BY <1>5 DEF IInv, LockIsReleased, HasFetch, ServeNotModified, Answer, Move
  <2>3. CachedPair'
    BY <1>5 DEF IInv, CachedPair, Served, ServeNotModified, Answer
  <2>4. AnswerIsRecent'
    BY <1>5 DEF IInv, TypeOK, AnswerIsRecent, Served, ServeNotModified, Answer, Move
  <2>5. FoundIsCached'
    BY <1>5 DEF IInv, FoundIsCached, ServeNotModified, Answer, Move
  <2> QED
    BY <1>0, <2>1, <2>2, <2>3, <2>4, <2>5 DEF IInv
<1>6. ASSUME NEW t \in Threads, ServeManifest(t) PROVE IInv'
  <2>1. OneFetchPerService'
    BY <1>6 DEF IInv, OneFetchPerService, HasFetch, ServeManifest, Answer, Move
  <2>2. LockIsReleased'
    BY <1>6 DEF IInv, LockIsReleased, HasFetch, ServeManifest, Answer, Move
  <2>3. CachedPair'
    BY <1>6 DEF IInv, CachedPair, Served, ServeManifest, Answer
  <2>4. AnswerIsRecent'
    <3> SUFFICES ASSUME NEW x \in Threads, pc'[x] = "answered", reply'[x].status = "manifest"
                 PROVE  /\ reply'[x].ver > 0
                        /\ reply'[x].ver <= version'[asked'[x]]
                        /\ reply'[x].etag \in {0, reply'[x].ver}
                        /\ existing'[x].url = asked'[x] => existing'[x].ver <= reply'[x].ver
      BY DEF AnswerIsRecent, Served
    <3>1. CASE x # t
      BY <1>6, <3>1 DEF IInv, AnswerIsRecent, Served, ServeManifest, Answer, Move
    <3>2. CASE x = t
      <4>1. asked[t] \in Urls /\ version[asked[t]] \in 1 .. MaxVersion
        BY <1>0, <1>6 DEF TypeOK, ServeManifest
      <4>2. reply'[t].ver = version[asked[t]] /\ reply'[t].etag \in {0, version[asked[t]]}
        BY <1>0, <1>6 DEF TypeOK, ServeManifest, Answer
      <4>3. UNCHANGED <<existing, asked, version>>
        BY <1>6 DEF ServeManifest, Answer
      <4>4. existing[t] = entries[svc[t]] /\ svc[t] \in Services
        BY <1>6 DEF IInv, TypeOK, OneFetchPerService, HasFetch, ServeManifest
      <4>5. existing[t].url = asked[t] => existing[t].ver <= version[asked[t]]
        BY <4>1, <4>4 DEF IInv, CachedPair, Served
      <4> QED
        BY <3>2, <4>1, <4>2, <4>3, <4>5
    <3> QED
      BY <3>1, <3>2
  <2>5. FoundIsCached'
    BY <1>6 DEF IInv, FoundIsCached, ServeManifest, Answer, Move
  <2> QED
    BY <1>0, <2>1, <2>2, <2>3, <2>4, <2>5 DEF IInv
<1>7. ASSUME NEW t \in Threads, FetchFails(t) PROVE IInv'
  <2>1. OneFetchPerService'
    BY <1>7 DEF IInv, OneFetchPerService, HasFetch, FetchFails, Answer, Move
  <2>2. LockIsReleased'
    BY <1>7 DEF IInv, LockIsReleased, HasFetch, FetchFails, Answer, Move
  <2>3. CachedPair'
    BY <1>7 DEF IInv, CachedPair, Served, FetchFails, Answer
  <2>4. AnswerIsRecent'
    BY <1>7 DEF IInv, TypeOK, AnswerIsRecent, Served, FetchFails, Answer, Move
  <2>5. FoundIsCached'
    BY <1>7 DEF IInv, FoundIsCached, FetchFails, Answer, Move
  <2> QED
    BY <1>0, <2>1, <2>2, <2>3, <2>4, <2>5 DEF IInv
<1>8. ASSUME NEW t \in Threads, Apply(t) PROVE IInv'
  <2>1. OneFetchPerService'
    BY <1>8
       DEF IInv, TypeOK, OneFetchPerService, HasFetch, Apply, Move, Released, Store,
           Revalidate, FallBack
  <2>2. LockIsReleased'
    BY <1>8 DEF IInv, TypeOK, LockIsReleased, HasFetch, Apply, Move, Released
  <2>3. CachedPair'
    BY <1>0, <1>8
       DEF IInv, TypeOK, Entries, CachedPair, AnswerIsRecent, Served, Apply, Store, Revalidate,
           FallBack, IsUsable
  <2>4. AnswerIsRecent'
    BY <1>8 DEF IInv, TypeOK, AnswerIsRecent, Served, Apply, Move
  <2>5. FoundIsCached'
    BY <1>0, <1>8
       DEF IInv, TypeOK, FoundIsCached, OneFetchPerService, HasFetch, Apply, Move, Store,
           Revalidate, FallBack
  <2> QED
    BY <1>0, <2>1, <2>2, <2>3, <2>4, <2>5 DEF IInv
<1>9. ASSUME NEW t \in Threads, Dispatch(t) PROVE IInv'
  <2>1. OneFetchPerService'
    BY <1>9 DEF IInv, OneFetchPerService, HasFetch, Dispatch, Move
  <2>2. LockIsReleased'
    BY <1>9 DEF IInv, LockIsReleased, HasFetch, Dispatch, Move
  <2>3. CachedPair'
    BY <1>9 DEF IInv, CachedPair, Served, Dispatch
  <2>4. AnswerIsRecent'
    BY <1>9 DEF IInv, AnswerIsRecent, Served, Dispatch, Move
  <2>5. FoundIsCached'
    BY <1>9 DEF IInv, FoundIsCached, Dispatch, Move
  <2> QED
    BY <1>0, <2>1, <2>2, <2>3, <2>4, <2>5 DEF IInv
<1>10. CASE Tick
  <2>1. OneFetchPerService'
    BY <1>10 DEF IInv, OneFetchPerService, HasFetch, Tick
  <2>2. LockIsReleased'
    BY <1>10 DEF IInv, LockIsReleased, HasFetch, Tick
  <2>3. CachedPair'
    BY <1>10 DEF IInv, CachedPair, Served, Tick
  <2>4. AnswerIsRecent'
    BY <1>10 DEF IInv, AnswerIsRecent, Served, Tick
  <2>5. FoundIsCached'
    BY <1>10 DEF IInv, FoundIsCached, Tick
  <2> QED
    BY <1>0, <2>1, <2>2, <2>3, <2>4, <2>5 DEF IInv
<1>11. ASSUME NEW s \in Services, NEW u \in Urls \cup {NoUrl}, Repoint(s, u) PROVE IInv'
  <2>1. OneFetchPerService'
    BY <1>11 DEF IInv, OneFetchPerService, HasFetch, Repoint
  <2>2. LockIsReleased'
    BY <1>11 DEF IInv, LockIsReleased, HasFetch, Repoint
  <2>3. CachedPair'
    BY <1>11 DEF IInv, CachedPair, Served, Repoint
  <2>4. AnswerIsRecent'
    BY <1>11 DEF IInv, AnswerIsRecent, Served, Repoint
  <2>5. FoundIsCached'
    BY <1>11 DEF IInv, FoundIsCached, Repoint
  <2> QED
    BY <1>0, <2>1, <2>2, <2>3, <2>4, <2>5 DEF IInv
<1>12. ASSUME NEW u \in Urls, Deploy(u) PROVE IInv'
  <2>1. OneFetchPerService'
    BY <1>12 DEF IInv, OneFetchPerService, HasFetch, Deploy
  <2>2. LockIsReleased'
    BY <1>12 DEF IInv, LockIsReleased, HasFetch, Deploy
  <2>3. CachedPair'
    BY <1>12 DEF IInv, TypeOK, Entries, CachedPair, Served, Deploy
  <2>4. AnswerIsRecent'
    BY <1>12 DEF IInv, TypeOK, Replies, AnswerIsRecent, Served, Deploy
  <2>5. FoundIsCached'
    BY <1>12 DEF IInv, FoundIsCached, Deploy
  <2> QED
    BY <1>0, <2>1, <2>2, <2>3, <2>4, <2>5 DEF IInv
<1>13. CASE UNCHANGED vars
  <2>1. OneFetchPerService'
    BY <1>13 DEF IInv, OneFetchPerService, HasFetch, vars
  <2>2. LockIsReleased'
    BY <1>13 DEF IInv, LockIsReleased, HasFetch, vars
  <2>3. CachedPair'
    BY <1>13 DEF IInv, CachedPair, Served, vars
  <2>4. AnswerIsRecent'
    BY <1>13 DEF IInv, AnswerIsRecent, Served, vars
  <2>5. FoundIsCached'
    BY <1>13 DEF IInv, FoundIsCached, vars
  <2> QED
    BY <1>0, <2>1, <2>2, <2>3, <2>4, <2>5 DEF IInv
<1> QED
  BY <1>1, <1>2, <1>3, <1>4, <1>5, <1>6, <1>7, <1>8, <1>9, <1>10, <1>11, <1>12, <1>13
     DEF Next, Enter, Network, Thread, Operator

(* The invariant holds: one fetch of a service at a time, cached contracts *)
(* paired with the URL that served them, answers that are no older than    *)
(* what they replace.                                                      *)
THEOREM InvariantHolds == Spec => []IInv
<1>1. Init => IInv
  BY DEF Init, IInv, TypeOK, Entries, Replies, OneFetchPerService, HasFetch, LockIsReleased,
         CachedPair, AnswerIsRecent, FoundIsCached
<1> QED
  BY <1>1, InvariantInductive, PTL DEF Spec

(* At most one fetch of a service runs, on the entry that is cached.       *)
THEOREM Coalescing == Spec => []OneFetchPerService
<1>1. IInv => OneFetchPerService
  BY DEF IInv
<1> QED
  BY <1>1, InvariantHolds, PTL

(* A thread whose fetch brought nothing fails only when nothing is cached. *)
THEOREM StaleServedOnError == Spec => StaleIfError
<1>1. ASSUME IInv, NEW t \in Threads, Apply(t), pc'[t] = "ready"
      PROVE  entries[svc[t]] = NoEntry
  <2>1. got'[t] = 0
    BY <1>1 DEF IInv, TypeOK, Apply, Move
  <2>2. existing[t] = entries[svc[t]] /\ svc[t] \in Services
    BY <1>1 DEF IInv, TypeOK, OneFetchPerService, HasFetch, Apply
  <2>3. ~Store(t)
    BY <1>1, <2>1 DEF IInv, TypeOK, AnswerIsRecent, Apply, Store, IsUsable
  <2>4. existing[t].ver = 0
    BY <1>1, <2>1, <2>3 DEF IInv, TypeOK, Apply, Revalidate, FallBack
  <2> QED
    BY <1>1, <2>2, <2>4 DEF IInv, CachedPair
<1>2. IInv => \A t \in Threads : Apply(t) /\ pc'[t] = "ready" => entries[svc[t]] = NoEntry
  BY <1>1
<1>3. ASSUME IInv, UNCHANGED vars, NEW t \in Threads, Apply(t) PROVE FALSE
  BY <1>3 DEF IInv, TypeOK, Apply, vars
<1> QED
  BY <1>2, <1>3, InvariantHolds, PTL DEF StaleIfError

(* A slow answer never replaces a newer contract of a host by an older.    *)
THEOREM NoRegressHolds == Spec => NoRegress
<1> DEFINE Kept == \A s \in Services :
         entries[s] # NoEntry /\ entries'[s].url = entries[s].url
             => entries'[s].ver >= entries[s].ver
<1>1. ASSUME IInv, NEW t \in Threads, Apply(t), Store(t) PROVE Kept
  <2>1. existing[t] = entries[svc[t]] /\ svc[t] \in Services
    BY <1>1 DEF IInv, TypeOK, OneFetchPerService, HasFetch, Apply
  <2>2. existing[t].url = asked[t] => existing[t].ver <= reply[t].ver
    BY <1>1 DEF IInv, AnswerIsRecent, Apply, Store, IsUsable
  <2> QED
    BY <1>1, <2>1, <2>2 DEF IInv, TypeOK, Entries, Store
<1>2. ASSUME IInv, UNCHANGED entries PROVE Kept
  BY <1>2 DEF IInv, TypeOK, Entries
<1>3. ASSUME IInv, [Next]_vars PROVE Kept
  <2>1. UNCHANGED entries \/ \E t \in Threads : Apply(t) /\ Store(t)
    BY <1>3 DEF Next, Thread, Enter, Network, Operator, vars, Look, EnterAndFind, EnterAndRaise,
       EnterAndFetch, ServeNotModified, ServeManifest, FetchFails, Answer, Apply, Revalidate,
       FallBack, Dispatch, Tick, Repoint, Deploy
  <2> QED
    BY <1>1, <1>2, <1>3, <2>1
<1> QED
  BY <1>3, InvariantHolds, PTL DEF Spec, NoRegress
=============================================================================
