------------------------ MODULE MetadataCache_proofs ------------------------
(***************************************************************************)
(* Proofs about MetadataCache for every set of callers, services and URLs, *)
(* every TTL and every bound on the contracts.                             *)
(***************************************************************************)
EXTENDS MetadataCache, TLAPS

USE DEF Manifests, Versions, Phases, NoEntry, NoReply, Failure

(* Every variable starts in its type, ...                                  *)
LEMMA TypeInitial == Init => TypeOK
  BY VersionAssumption, TtlAssumption DEF Init, TypeOK, Entries, Replies

(* ... and every step keeps it there.                                      *)
LEMMA TypeInductive == TypeOK /\ [Next]_vars => TypeOK'
<1> SUFFICES ASSUME TypeOK, [Next]_vars PROVE TypeOK'
  OBVIOUS
<1> USE DEF TypeOK, hostVars, cacheVars, callVars, refreshVars
<1> USE VersionAssumption, TtlAssumption
<1>1. ASSUME NEW c \in Callers, NEW s \in Services, Hit(c, s) PROVE TypeOK'
  BY <1>1 DEF Hit, Enter, Entries
<1>2. ASSUME NEW c \in Callers, NEW s \in Services, Join(c, s) PROVE TypeOK'
  BY <1>2 DEF Join, Enter
<1>3. ASSUME NEW c \in Callers, NEW s \in Services, StartRefresh(c, s) PROVE TypeOK'
  BY <1>3 DEF StartRefresh, Enter, FirstPhase
<1>4. ASSUME NEW c \in Callers, ServeNotModified(c) PROVE TypeOK'
  BY <1>4 DEF ServeNotModified, Answer, Replies, Entries
<1>5. ASSUME NEW c \in Callers, ServeManifest(c) PROVE TypeOK'
  BY <1>5 DEF ServeManifest, Answer, Replies, Entries
<1>6. ASSUME NEW c \in Callers, FetchFails(c) PROVE TypeOK'
  BY <1>6 DEF FetchFails, Answer, Replies
<1>7. ASSUME NEW c \in Callers, Settle(c) PROVE TypeOK'
  <2>1. CASE Store(c)
    BY <1>7, <2>1 DEF Settle, Store, Replies, Entries
  <2>2. CASE Revalidate(c)
    BY <1>7, <2>2 DEF Settle, Revalidate, Entries
  <2>3. CASE FallBack(c)
    BY <1>7, <2>3 DEF Settle, FallBack, Entries
  <2> QED
    BY <1>7, <2>1, <2>2, <2>3 DEF Settle
<1>8. ASSUME NEW c \in Callers, CleanUp(c) PROVE TypeOK'
  BY <1>8 DEF CleanUp, Unregistered, Entries, Replies
<1>9. ASSUME NEW c \in Callers, Resume(c) PROVE TypeOK'
  BY <1>9 DEF Resume, TargetUrl, Entries
<1>10. CASE Tick
  BY <1>10 DEF Tick
<1>11. ASSUME NEW s \in Services, NEW u \in Urls \cup {NoUrl}, Repoint(s, u) PROVE TypeOK'
  BY <1>11 DEF Repoint
<1>12. ASSUME NEW u \in Urls, Deploy(u) PROVE TypeOK'
  BY <1>12 DEF Deploy
<1>13. CASE UNCHANGED vars
  BY <1>13 DEF vars
<1> QED
  BY <1>1, <1>2, <1>3, <1>4, <1>5, <1>6, <1>7, <1>8, <1>9, <1>10, <1>11, <1>12, <1>13
     DEF Next, GetOrFetch, Network, Reaction, Operator

(* Type correctness: every variable keeps its type.                        *)
THEOREM TypeCorrect == Spec => []TypeOK
  BY TypeInitial, TypeInductive, PTL DEF Spec

(* The invariant that implies the safety properties is inductive.          *)
LEMMA InvariantInductive == IInv /\ [Next]_vars => IInv'
<1> SUFFICES ASSUME IInv, [Next]_vars PROVE IInv'
  OBVIOUS
<1> USE DEF hostVars, cacheVars, callVars, refreshVars
<1>0. TypeOK'
  BY TypeInductive DEF IInv
<1>1. ASSUME NEW c \in Callers, NEW s \in Services, Hit(c, s) PROVE IInv'
  <2>1. Registration'
    BY <1>1 DEF IInv, Registration, Running, Hit, Enter
  <2>2. WaitersServed'
    BY <1>1 DEF IInv, Registration, WaitersServed, Running, Hit, Enter
  <2>3. ExistingIsCurrent'
    BY <1>1 DEF IInv, Registration, ExistingIsCurrent, Running, Hit, Enter
  <2>4. EntriesSound'
    BY <1>1 DEF IInv, EntriesSound, Hit
  <2>5. AnswersSound'
    BY <1>1 DEF IInv, AnswersSound, Hit
  <2>6. StaleWhileRunning'
    BY <1>1 DEF IInv, StaleWhileRunning, Registration, Running, IsFresh, Hit, Enter
  <2>7. NoReaderAhead'
    BY <1>1
       DEF IInv, TypeOK, NoReaderAhead, StaleWhileRunning, Registration, Running, Hit, Enter
  <2>8. ResultsCached'
    BY <1>1 DEF IInv, ResultsCached, Registration, Running, Hit, Enter
  <2>9. ReadersCurrent'
    BY <1>1 DEF IInv, TypeOK, ReadersCurrent, Hit, Enter
  <2>10. StaleIfError'
    BY <1>1 DEF IInv, StaleIfError, Registration, Running, Hit, Enter
  <2>11. ServedPair'
    BY <1>1 DEF IInv, TypeOK, ServedPair, Hit, Enter
  <2> QED
    BY <1>0, <2>1, <2>2, <2>3, <2>4, <2>5, <2>6, <2>7, <2>8, <2>9, <2>10, <2>11 DEF IInv
<1>2. ASSUME NEW c \in Callers, NEW s \in Services, Join(c, s) PROVE IInv'
  <2>1. Registration'
    BY <1>2 DEF IInv, Registration, Running, Join, Enter
  <2>2. WaitersServed'
    BY <1>2 DEF IInv, TypeOK, Registration, WaitersServed, Running, Join, Enter, NoneInFlight
  <2>3. ExistingIsCurrent'
    BY <1>2 DEF IInv, Registration, ExistingIsCurrent, Running, Join, Enter
  <2>4. EntriesSound'
    BY <1>2 DEF IInv, EntriesSound, Join
  <2>5. AnswersSound'
    BY <1>2 DEF IInv, AnswersSound, Join
  <2>6. StaleWhileRunning'
    BY <1>2 DEF IInv, StaleWhileRunning, IsFresh, Join, Enter
  <2>7. NoReaderAhead'
    BY <1>2 DEF IInv, NoReaderAhead, Registration, Running, Join, Enter
  <2>8. ResultsCached'
    BY <1>2 DEF IInv, ResultsCached, Registration, Running, Join, Enter
  <2>9. ReadersCurrent'
    BY <1>2 DEF IInv, ReadersCurrent, Join, Enter
  <2>10. StaleIfError'
    BY <1>2 DEF IInv, StaleIfError, Registration, Running, Join, Enter
  <2>11. ServedPair'
    BY <1>2 DEF IInv, TypeOK, ServedPair, Join, Enter
  <2> QED
    BY <1>0, <2>1, <2>2, <2>3, <2>4, <2>5, <2>6, <2>7, <2>8, <2>9, <2>10, <2>11 DEF IInv
<1>3. ASSUME NEW c \in Callers, NEW s \in Services, StartRefresh(c, s) PROVE IInv'
  <2>1. Registration'
    BY <1>3, CallersAssumption
       DEF IInv, TypeOK, Registration, Running, StartRefresh, Enter, NoneInFlight, FirstPhase
  <2>2. WaitersServed'
    BY <1>3, CallersAssumption
       DEF IInv, TypeOK, Registration, WaitersServed, Running, StartRefresh, Enter,
           NoneInFlight, FirstPhase
  <2>3. ExistingIsCurrent'
    BY <1>3 DEF IInv, TypeOK, ExistingIsCurrent, StartRefresh, Enter
  <2>4. EntriesSound'
    BY <1>3 DEF IInv, EntriesSound, StartRefresh
  <2>5. AnswersSound'
    BY <1>3 DEF IInv, AnswersSound, Registration, Running, StartRefresh, Enter, FirstPhase
  <2>6. StaleWhileRunning'
    BY <1>3 DEF IInv, TypeOK, StaleWhileRunning, IsFresh, StartRefresh, Enter
  <2>7. NoReaderAhead'
    BY <1>3 DEF IInv, NoReaderAhead, Registration, Running, StartRefresh, Enter, FirstPhase
  <2>8. ResultsCached'
    BY <1>3 DEF IInv, ResultsCached, Registration, Running, StartRefresh, Enter
  <2>9. ReadersCurrent'
    BY <1>3 DEF IInv, ReadersCurrent, StartRefresh, Enter
  <2>10. StaleIfError'
    BY <1>3 DEF IInv, TypeOK, StaleIfError, StartRefresh, Enter, FirstPhase
  <2>11. ServedPair'
    BY <1>3 DEF IInv, TypeOK, ServedPair, StartRefresh, Enter
  <2> QED
    BY <1>0, <2>1, <2>2, <2>3, <2>4, <2>5, <2>6, <2>7, <2>8, <2>9, <2>10, <2>11 DEF IInv
<1>4. ASSUME NEW c \in Callers, ServeNotModified(c) PROVE IInv'
  <2>1. Registration'
    BY <1>4 DEF IInv, Registration, Running, ServeNotModified, Answer
  <2>2. WaitersServed'
    BY <1>4 DEF IInv, WaitersServed, Running, ServeNotModified, Answer
  <2>3. ExistingIsCurrent'
    BY <1>4 DEF IInv, ExistingIsCurrent, ServeNotModified, Answer
  <2>4. EntriesSound'
    BY <1>4 DEF IInv, EntriesSound, ServeNotModified, Answer
  <2>5. AnswersSound'
    <3>1. existing[c] = entries[svc[c]] /\ existing[c].etag = version[asked[c]]
      BY <1>4 DEF IInv, ExistingIsCurrent, ServeNotModified
    <3>2. version[asked[c]] # 0 /\ version[asked[c]] = existing[c].ver
      BY <1>4, <3>1 DEF IInv, EntriesSound, TypeOK, ServeNotModified
    <3> QED
      BY <1>4, <3>2 DEF IInv, AnswersSound, TypeOK, ServeNotModified, Answer
  <2>6. StaleWhileRunning'
    BY <1>4 DEF IInv, StaleWhileRunning, IsFresh, ServeNotModified, Answer
  <2>7. NoReaderAhead'
    BY <1>4 DEF NoReaderAhead, ServeNotModified, Answer, MicrotasksDrained
  <2>8. ResultsCached'
    BY <1>4 DEF IInv, ResultsCached, ServeNotModified, Answer
  <2>9. ReadersCurrent'
    BY <1>4 DEF IInv, ReadersCurrent, ServeNotModified, Answer
  <2>10. StaleIfError'
    BY <1>4 DEF IInv, StaleIfError, ServeNotModified, Answer
  <2>11. ServedPair'
    BY <1>4 DEF IInv, ServedPair, ServeNotModified, Answer
  <2> QED
    BY <1>0, <2>1, <2>2, <2>3, <2>4, <2>5, <2>6, <2>7, <2>8, <2>9, <2>10, <2>11 DEF IInv
<1>5. ASSUME NEW c \in Callers, ServeManifest(c) PROVE IInv'
  <2>1. Registration'
    BY <1>5 DEF IInv, Registration, Running, ServeManifest, Answer
  <2>2. WaitersServed'
    BY <1>5 DEF IInv, WaitersServed, Running, ServeManifest, Answer
  <2>3. ExistingIsCurrent'
    BY <1>5 DEF IInv, ExistingIsCurrent, ServeManifest, Answer
  <2>4. EntriesSound'
    BY <1>5 DEF IInv, EntriesSound, ServeManifest, Answer
  <2>5. AnswersSound'
    BY <1>5
       DEF IInv, TypeOK, AnswersSound, ExistingIsCurrent, EntriesSound, ServeManifest, Answer
  <2>6. StaleWhileRunning'
    BY <1>5 DEF IInv, StaleWhileRunning, IsFresh, ServeManifest, Answer
  <2>7. NoReaderAhead'
    BY <1>5 DEF NoReaderAhead, ServeManifest, Answer, MicrotasksDrained
  <2>8. ResultsCached'
    BY <1>5 DEF IInv, ResultsCached, ServeManifest, Answer
  <2>9. ReadersCurrent'
    BY <1>5 DEF IInv, ReadersCurrent, ServeManifest, Answer
  <2>10. StaleIfError'
    BY <1>5 DEF IInv, StaleIfError, ServeManifest, Answer
  <2>11. ServedPair'
    BY <1>5 DEF IInv, ServedPair, ServeManifest, Answer
  <2> QED
    BY <1>0, <2>1, <2>2, <2>3, <2>4, <2>5, <2>6, <2>7, <2>8, <2>9, <2>10, <2>11 DEF IInv
<1>6. ASSUME NEW c \in Callers, FetchFails(c) PROVE IInv'
  <2>1. Registration'
    BY <1>6 DEF IInv, Registration, Running, FetchFails, Answer
  <2>2. WaitersServed'
    BY <1>6 DEF IInv, WaitersServed, Running, FetchFails, Answer
  <2>3. ExistingIsCurrent'
    BY <1>6 DEF IInv, ExistingIsCurrent, FetchFails, Answer
  <2>4. EntriesSound'
    BY <1>6 DEF IInv, EntriesSound, FetchFails, Answer
  <2>5. AnswersSound'
    BY <1>6 DEF IInv, TypeOK, AnswersSound, FetchFails, Answer
  <2>6. StaleWhileRunning'
    BY <1>6 DEF IInv, StaleWhileRunning, IsFresh, FetchFails, Answer
  <2>7. NoReaderAhead'
    BY <1>6 DEF NoReaderAhead, FetchFails, Answer, MicrotasksDrained
  <2>8. ResultsCached'
    BY <1>6 DEF IInv, ResultsCached, FetchFails, Answer
  <2>9. ReadersCurrent'
    BY <1>6 DEF IInv, ReadersCurrent, FetchFails, Answer
  <2>10. StaleIfError'
    BY <1>6 DEF IInv, StaleIfError, FetchFails, Answer
  <2>11. ServedPair'
    BY <1>6 DEF IInv, ServedPair, FetchFails, Answer
  <2> QED
    BY <1>0, <2>1, <2>2, <2>3, <2>4, <2>5, <2>6, <2>7, <2>8, <2>9, <2>10, <2>11 DEF IInv
<1>7. ASSUME NEW c \in Callers, Settle(c) PROVE IInv'
  <2>0. \A r \in Callers : Running(r) /\ r # c => svc[r] # svc[c]
    BY <1>7 DEF IInv, Registration, Running, Settle
  <2>1. CASE Store(c)
    <3>1. Registration'
      BY <1>7 DEF IInv, Registration, Running, Settle
    <3>2. WaitersServed'
      BY <1>7 DEF IInv, WaitersServed, Running, Settle
    <3>3. ExistingIsCurrent'
      BY <1>7, <2>0, <2>1 DEF IInv, TypeOK, ExistingIsCurrent, Running, Settle, Store
    <3>4. EntriesSound'
      BY <1>7, <2>1 DEF IInv, TypeOK, EntriesSound, AnswersSound, Settle, Store, IsUsable
    <3>5. AnswersSound'
      BY <1>7 DEF IInv, AnswersSound, Settle
    <3>6. StaleWhileRunning'
      BY <1>7, <2>0, <2>1 DEF IInv, TypeOK, StaleWhileRunning, Running, IsFresh, Settle, Store
    <3>7. NoReaderAhead'
      BY <1>7 DEF IInv, NoReaderAhead, Settle
    <3>8. ResultsCached'
      BY <1>7, <2>0, <2>1 DEF IInv, TypeOK, ResultsCached, Running, Settle, Store
    <3>9. ReadersCurrent'
      BY <1>7, <2>1 DEF IInv, ReadersCurrent, NoReaderAhead, Settle, Store
    <3>10. StaleIfError'
      BY <1>7, <2>0, <2>1
         DEF IInv, TypeOK, StaleIfError, Running, AnswersSound, Settle, Store, IsUsable
    <3>11. ServedPair'
      BY <1>7 DEF IInv, ServedPair, Settle
    <3> QED
      BY <1>0, <3>1, <3>2, <3>3, <3>4, <3>5, <3>6, <3>7, <3>8, <3>9, <3>10, <3>11 DEF IInv
  <2>2. CASE Revalidate(c)
    <3>1. Registration'
      BY <1>7 DEF IInv, Registration, Running, Settle
    <3>2. WaitersServed'
      BY <1>7 DEF IInv, WaitersServed, Running, Settle
    <3>3. ExistingIsCurrent'
      BY <1>7, <2>2 DEF IInv, ExistingIsCurrent, Settle, Revalidate
    <3>4. EntriesSound'
      BY <1>7, <2>2 DEF IInv, EntriesSound, Settle, Revalidate
    <3>5. AnswersSound'
      BY <1>7 DEF IInv, AnswersSound, Settle
    <3>6. StaleWhileRunning'
      BY <1>7, <2>0, <2>2
         DEF IInv, TypeOK, StaleWhileRunning, Running, IsFresh, Settle, Revalidate
    <3>7. NoReaderAhead'
      BY <1>7 DEF IInv, NoReaderAhead, Settle
    <3>8. ResultsCached'
      BY <1>7, <2>2 DEF IInv, TypeOK, ResultsCached, ExistingIsCurrent, Settle, Revalidate
    <3>9. ReadersCurrent'
      BY <1>7, <2>2 DEF IInv, ReadersCurrent, Settle, Revalidate
    <3>10. StaleIfError'
      BY <1>7, <2>2
         DEF IInv, TypeOK, StaleIfError, ExistingIsCurrent, EntriesSound, Settle, Revalidate
    <3>11. ServedPair'
      BY <1>7 DEF IInv, ServedPair, Settle
    <3> QED
      BY <1>0, <3>1, <3>2, <3>3, <3>4, <3>5, <3>6, <3>7, <3>8, <3>9, <3>10, <3>11 DEF IInv
  <2>3. CASE FallBack(c)
    <3>1. Registration'
      BY <1>7 DEF IInv, Registration, Running, Settle
    <3>2. WaitersServed'
      BY <1>7 DEF IInv, WaitersServed, Running, Settle
    <3>3. ExistingIsCurrent'
      BY <1>7, <2>3 DEF IInv, ExistingIsCurrent, Settle, FallBack
    <3>4. EntriesSound'
      BY <1>7, <2>3 DEF IInv, EntriesSound, Settle, FallBack
    <3>5. AnswersSound'
      BY <1>7 DEF IInv, AnswersSound, Settle
    <3>6. StaleWhileRunning'
      BY <1>7, <2>3 DEF IInv, StaleWhileRunning, IsFresh, Settle, FallBack
    <3>7. NoReaderAhead'
      BY <1>7 DEF IInv, NoReaderAhead, Settle
    <3>8. ResultsCached'
      BY <1>7, <2>3 DEF IInv, TypeOK, ResultsCached, ExistingIsCurrent, Settle, FallBack
    <3>9. ReadersCurrent'
      BY <1>7, <2>3 DEF IInv, ReadersCurrent, Settle, FallBack
    <3>10. StaleIfError'
      BY <1>7, <2>3
         DEF IInv, TypeOK, StaleIfError, ExistingIsCurrent, EntriesSound, Settle, FallBack
    <3>11. ServedPair'
      BY <1>7 DEF IInv, ServedPair, Settle
    <3> QED
      BY <1>0, <3>1, <3>2, <3>3, <3>4, <3>5, <3>6, <3>7, <3>8, <3>9, <3>10, <3>11 DEF IInv
  <2> QED
    BY <1>7, <2>1, <2>2, <2>3 DEF Settle
<1>8. ASSUME NEW c \in Callers, CleanUp(c) PROVE IInv'
  <2>0. \A r \in Callers : Running(r) /\ r # c => svc[r] # svc[c]
    BY <1>8 DEF IInv, Registration, Running, CleanUp
  <2>1. Registration'
    BY <1>8 DEF IInv, TypeOK, Registration, Running, CleanUp, Unregistered, Waiters
  <2>2. WaitersServed'
    BY <1>8, <2>0 DEF IInv, WaitersServed, Running, CleanUp, Unregistered, Waiters
  <2>3. ExistingIsCurrent'
    BY <1>8 DEF IInv, ExistingIsCurrent, CleanUp
  <2>4. EntriesSound'
    BY <1>8 DEF IInv, EntriesSound, CleanUp
  <2>5. AnswersSound'
    BY <1>8 DEF IInv, AnswersSound, CleanUp
  <2>6. StaleWhileRunning'
    BY <1>8 DEF IInv, StaleWhileRunning, IsFresh, CleanUp
  <2>7. NoReaderAhead'
    BY <1>8, <2>0 DEF IInv, NoReaderAhead, WaitersServed, Running, CleanUp, Waiters
  <2>8. ResultsCached'
    BY <1>8 DEF IInv, TypeOK, ResultsCached, CleanUp
  <2>9. ReadersCurrent'
    BY <1>8 DEF IInv, ReadersCurrent, ResultsCached, WaitersServed, CleanUp, Waiters
  <2>10. StaleIfError'
    BY <1>8 DEF IInv, TypeOK, StaleIfError, CleanUp
  <2>11. ServedPair'
    BY <1>8 DEF IInv, ServedPair, CleanUp
  <2> QED
    BY <1>0, <2>1, <2>2, <2>3, <2>4, <2>5, <2>6, <2>7, <2>8, <2>9, <2>10, <2>11 DEF IInv
<1>9. ASSUME NEW c \in Callers, Resume(c) PROVE IInv'
  <2>1. Registration'
    BY <1>9 DEF IInv, Registration, Running, Resume
  <2>2. WaitersServed'
    BY <1>9 DEF IInv, WaitersServed, Running, Resume
  <2>3. ExistingIsCurrent'
    BY <1>9 DEF IInv, ExistingIsCurrent, Resume
  <2>4. EntriesSound'
    BY <1>9 DEF IInv, EntriesSound, Resume
  <2>5. AnswersSound'
    BY <1>9 DEF IInv, AnswersSound, Resume
  <2>6. StaleWhileRunning'
    BY <1>9 DEF IInv, StaleWhileRunning, IsFresh, Resume
  <2>7. NoReaderAhead'
    BY <1>9 DEF IInv, NoReaderAhead, Resume
  <2>8. ResultsCached'
    BY <1>9 DEF IInv, ResultsCached, Resume
  <2>9. ReadersCurrent'
    BY <1>9 DEF IInv, ReadersCurrent, Resume
  <2>10. StaleIfError'
    BY <1>9 DEF IInv, StaleIfError, Resume
  <2>11. ServedPair'
    BY <1>9 DEF IInv, TypeOK, ServedPair, ReadersCurrent, EntriesSound, Resume, TargetUrl
  <2> QED
    BY <1>0, <2>1, <2>2, <2>3, <2>4, <2>5, <2>6, <2>7, <2>8, <2>9, <2>10, <2>11 DEF IInv
<1>10. CASE Tick
  <2>1. Registration'
    BY <1>10 DEF IInv, Registration, Running, Tick
  <2>2. WaitersServed'
    BY <1>10 DEF IInv, WaitersServed, Running, Tick
  <2>3. ExistingIsCurrent'
    BY <1>10 DEF IInv, ExistingIsCurrent, Tick
  <2>4. EntriesSound'
    BY <1>10 DEF IInv, EntriesSound, Tick
  <2>5. AnswersSound'
    BY <1>10 DEF IInv, AnswersSound, Tick
  <2>6. StaleWhileRunning'
    BY <1>10 DEF IInv, TypeOK, StaleWhileRunning, IsFresh, Tick
  <2>7. NoReaderAhead'
    BY <1>10 DEF IInv, NoReaderAhead, Tick
  <2>8. ResultsCached'
    BY <1>10 DEF IInv, ResultsCached, Tick
  <2>9. ReadersCurrent'
    BY <1>10 DEF IInv, ReadersCurrent, Tick
  <2>10. StaleIfError'
    BY <1>10 DEF IInv, StaleIfError, Tick
  <2>11. ServedPair'
    BY <1>10 DEF IInv, ServedPair, Tick
  <2> QED
    BY <1>0, <2>1, <2>2, <2>3, <2>4, <2>5, <2>6, <2>7, <2>8, <2>9, <2>10, <2>11 DEF IInv
<1>11. ASSUME NEW s \in Services, NEW u \in Urls \cup {NoUrl}, Repoint(s, u) PROVE IInv'
  <2>1. Registration'
    BY <1>11 DEF IInv, Registration, Running, Repoint
  <2>2. WaitersServed'
    BY <1>11 DEF IInv, WaitersServed, Running, Repoint
  <2>3. ExistingIsCurrent'
    BY <1>11 DEF IInv, ExistingIsCurrent, Repoint
  <2>4. EntriesSound'
    BY <1>11 DEF IInv, EntriesSound, Repoint
  <2>5. AnswersSound'
    BY <1>11 DEF IInv, AnswersSound, Repoint
  <2>6. StaleWhileRunning'
    BY <1>11 DEF IInv, StaleWhileRunning, IsFresh, Repoint
  <2>7. NoReaderAhead'
    BY <1>11 DEF IInv, NoReaderAhead, Repoint
  <2>8. ResultsCached'
    BY <1>11 DEF IInv, ResultsCached, Repoint
  <2>9. ReadersCurrent'
    BY <1>11 DEF IInv, ReadersCurrent, Repoint
  <2>10. StaleIfError'
    BY <1>11 DEF IInv, StaleIfError, Repoint
  <2>11. ServedPair'
    BY <1>11 DEF IInv, ServedPair, Repoint
  <2> QED
    BY <1>0, <2>1, <2>2, <2>3, <2>4, <2>5, <2>6, <2>7, <2>8, <2>9, <2>10, <2>11 DEF IInv
<1>12. ASSUME NEW u \in Urls, Deploy(u) PROVE IInv'
  <2>0. \A v \in Urls : version[v] <= version'[v]
    BY <1>12, VersionAssumption DEF IInv, TypeOK, Deploy
  <2>1. Registration'
    BY <1>12 DEF IInv, Registration, Running, Deploy
  <2>2. WaitersServed'
    BY <1>12 DEF IInv, WaitersServed, Running, Deploy
  <2>3. ExistingIsCurrent'
    BY <1>12 DEF IInv, ExistingIsCurrent, Deploy
  <2>4. EntriesSound'
    BY <1>12 DEF IInv, TypeOK, Entries, EntriesSound, Deploy
  <2>5. AnswersSound'
    <3>1. \A r \in Callers :
            phase[r] = "answered" /\ reply[r].status = "manifest" =>
               reply[r].ver <= version'[asked[r]]
      <4> TAKE r \in Callers
      <4> HAVE phase[r] = "answered" /\ reply[r].status = "manifest"
      <4>1. reply[r].ver <= version[asked[r]] /\ asked[r] \in Urls
        BY DEF IInv, AnswersSound, TypeOK
      <4>2. /\ reply[r].ver \in Int
            /\ version[asked[r]] \in Int
            /\ version'[asked[r]] \in Int
        BY <1>0, VersionAssumption DEF IInv, TypeOK, Replies
      <4> QED
        BY <2>0, <4>1, <4>2
    <3> QED
      BY <1>12, <3>1 DEF IInv, AnswersSound, Deploy
  <2>6. StaleWhileRunning'
    BY <1>12 DEF IInv, StaleWhileRunning, IsFresh, Deploy
  <2>7. NoReaderAhead'
    BY <1>12 DEF IInv, NoReaderAhead, Deploy
  <2>8. ResultsCached'
    BY <1>12 DEF IInv, ResultsCached, Deploy
  <2>9. ReadersCurrent'
    BY <1>12 DEF IInv, ReadersCurrent, Deploy
  <2>10. StaleIfError'
    BY <1>12 DEF IInv, StaleIfError, Deploy
  <2>11. ServedPair'
    BY <1>12 DEF IInv, TypeOK, ServedPair, Deploy
  <2> QED
    BY <1>0, <2>1, <2>2, <2>3, <2>4, <2>5, <2>6, <2>7, <2>8, <2>9, <2>10, <2>11 DEF IInv
<1>13. CASE UNCHANGED vars
  <2>1. Registration'
    BY <1>13 DEF IInv, Registration, Running, vars
  <2>2. WaitersServed'
    BY <1>13 DEF IInv, WaitersServed, Running, vars
  <2>3. ExistingIsCurrent'
    BY <1>13 DEF IInv, ExistingIsCurrent, vars
  <2>4. EntriesSound'
    BY <1>13 DEF IInv, EntriesSound, vars
  <2>5. AnswersSound'
    BY <1>13 DEF IInv, AnswersSound, vars
  <2>6. StaleWhileRunning'
    BY <1>13 DEF IInv, StaleWhileRunning, IsFresh, vars
  <2>7. NoReaderAhead'
    BY <1>13 DEF IInv, NoReaderAhead, vars
  <2>8. ResultsCached'
    BY <1>13 DEF IInv, ResultsCached, vars
  <2>9. ReadersCurrent'
    BY <1>13 DEF IInv, ReadersCurrent, vars
  <2>10. StaleIfError'
    BY <1>13 DEF IInv, StaleIfError, vars
  <2>11. ServedPair'
    BY <1>13 DEF IInv, ServedPair, vars
  <2> QED
    BY <1>0, <2>1, <2>2, <2>3, <2>4, <2>5, <2>6, <2>7, <2>8, <2>9, <2>10, <2>11 DEF IInv
<1> QED
  BY <1>1, <1>2, <1>3, <1>4, <1>5, <1>6, <1>7, <1>8, <1>9, <1>10, <1>11, <1>12, <1>13
     DEF Next, GetOrFetch, Network, Reaction, Operator

(* The invariant holds in every reachable state.                           *)
THEOREM InvariantHolds == Spec => []IInv
<1>1. Init => IInv
  <2> SUFFICES ASSUME Init PROVE IInv
    OBVIOUS
  <2>1. TypeOK
    BY TypeInitial
  <2> QED
    BY <2>1 DEF Init, IInv, Registration, WaitersServed, ExistingIsCurrent,
        EntriesSound, AnswersSound, StaleWhileRunning, NoReaderAhead,
        ResultsCached, ReadersCurrent, StaleIfError, ServedPair, Running
<1> QED
  BY <1>1, InvariantInductive, PTL DEF Spec

(* Coalescing: at most one refresh of a service runs, however many calls   *)
(* getOrFetch serves.                                                      *)
THEOREM Coalescing == Spec => []SingleOutstanding
<1>1. IInv => SingleOutstanding
  BY DEF IInv, Registration, SingleOutstanding
<1> QED
  BY <1>1, InvariantHolds, PTL

(* No call waits on a refresh that is gone, or on another service's.       *)
THEOREM NoLostWakeup == Spec => []WaitersServed
<1>1. IInv => WaitersServed
  BY DEF IInv
<1> QED
  BY <1>1, InvariantHolds, PTL

(* The entry a refresh captured before its await is still the cached one.  *)
THEOREM CapturedEntryCurrent == Spec => []ExistingIsCurrent
<1>1. IInv => ExistingIsCurrent
  BY DEF IInv
<1> QED
  BY <1>1, InvariantHolds, PTL

(* A refresh that had a URL to ask fails no call of a cached service.      *)
THEOREM StaleServedOnError == Spec => []StaleIfError
<1>1. IInv => StaleIfError
  BY DEF IInv
<1> QED
  BY <1>1, InvariantHolds, PTL

(* The manifest of a call and the base URL read after it belong together.  *)
THEOREM PairBelongsTogether == Spec => []ServedPair
<1>1. IInv => ServedPair
  BY DEF IInv
<1> QED
  BY <1>1, InvariantHolds, PTL

(* What a step does to the cache: an entry changes or turns young only     *)
(* when the answer of a running refresh is applied.                        *)
LEMMA CacheSteps ==
    ASSUME TypeOK, [Next]_vars, NEW s \in Services,
           entries'[s] # entries[s] \/ age'[s] < age[s]
    PROVE  \E r \in Callers : Settle(r) /\ s = svc[r]
<1> USE DEF TypeOK, hostVars, cacheVars, callVars, refreshVars
<1>1. ASSUME NEW c \in Callers, NEW t \in Services, GetOrFetch(c, t) PROVE FALSE
  BY <1>1, TtlAssumption DEF GetOrFetch, Hit, Join, StartRefresh
<1>2. ASSUME NEW c \in Callers, Network(c) PROVE FALSE
  BY <1>2, TtlAssumption DEF Network, ServeNotModified, ServeManifest, FetchFails, Answer
<1>3. ASSUME NEW c \in Callers, Settle(c) PROVE s = svc[c]
  BY <1>3, TtlAssumption DEF Settle, Store, Revalidate, FallBack
<1>4. ASSUME NEW c \in Callers, CleanUp(c) \/ Resume(c) PROVE FALSE
  BY <1>4, TtlAssumption DEF CleanUp, Resume
<1>5. CASE Tick
  BY <1>5, TtlAssumption DEF Tick
<1>6. CASE Operator
  BY <1>6, TtlAssumption DEF Operator, Repoint, Deploy
<1>7. CASE UNCHANGED vars
  BY <1>7, TtlAssumption DEF vars
<1> QED
  BY <1>1, <1>2, <1>3, <1>4, <1>5, <1>6, <1>7 DEF Next, Reaction

(* An entry turns young only by the answer of a host, and then holds what  *)
(* that host had deployed.                                                 *)
THEOREM YoungByAnswer == Spec => YoungOnlyByAnswer
<1>1. IInv /\ [Next]_vars =>
        [\A s \in Services :
           age'[s] < age[s] =>
              \E r \in Callers :
                  /\ phase[r] = "answered" /\ svc[r] = s
                  /\ reply[r].status # "failed"
                  /\ entries'[s].ver = reply[r].ver]_vars
  <2> SUFFICES ASSUME IInv, [Next]_vars, NEW s \in Services, age'[s] < age[s]
               PROVE  \E r \in Callers :
                         /\ phase[r] = "answered" /\ svc[r] = s
                         /\ reply[r].status # "failed"
                         /\ entries'[s].ver = reply[r].ver
    OBVIOUS
  <2>1. PICK r \in Callers : Settle(r) /\ s = svc[r]
    BY CacheSteps DEF IInv
  <2>2. phase[r] = "answered" /\ existing[r] = entries[s]
    BY <2>1 DEF IInv, ExistingIsCurrent, Settle
  <2>3. ~FallBack(r)
    BY TtlAssumption DEF IInv, TypeOK, FallBack
  <2>4. CASE Store(r)
    BY <2>2, <2>4 DEF IInv, TypeOK, Store, IsUsable
  <2>5. CASE Revalidate(r)
    BY <2>1, <2>2, <2>5 DEF IInv, AnswersSound, Revalidate, IsRevalidated
  <2> QED
    BY <2>1, <2>3, <2>4, <2>5 DEF Settle
<1> QED
  BY <1>1, InvariantHolds, PTL DEF Spec, YoungOnlyByAnswer

(* A step never replaces a contract by an older one of the same host.      *)
LEMMA NoRegressStep ==
    ASSUME IInv, [Next]_vars, NEW s \in Services,
           entries[s] # NoEntry, entries'[s].url = entries[s].url
    PROVE  entries'[s].ver >= entries[s].ver
<1>1. entries[s].ver \in Int
  BY VersionAssumption DEF IInv, TypeOK, Entries
<1>2. CASE entries'[s] = entries[s]
  BY <1>1, <1>2
<1>3. CASE entries'[s] # entries[s]
  <2>1. PICK r \in Callers : Settle(r) /\ s = svc[r]
    BY <1>3, CacheSteps DEF IInv
  <2>2. Store(r)
    BY <1>3, <2>1 DEF Settle, Revalidate, FallBack
  <2>3. existing[r] = entries[s] /\ phase[r] = "answered"
    BY <2>1 DEF IInv, ExistingIsCurrent, Settle
  <2>4. entries'[s].url = asked[r] /\ entries'[s].ver = reply[r].ver
    BY <2>1, <2>2 DEF Store, IInv, TypeOK
  <2>5. entries[s].ver <= reply[r].ver
    BY <2>2, <2>3, <2>4 DEF IInv, AnswersSound, Store, IsUsable
  <2>6. reply[r].ver \in Int
    BY VersionAssumption DEF IInv, TypeOK, Replies
  <2> QED
    BY <1>1, <2>4, <2>5, <2>6
<1> QED
  BY <1>2, <1>3

(* A late answer never replaces a newer contract of the same host.         *)
THEOREM NoRegressHolds == Spec => NoRegress
<1>1. IInv /\ [Next]_vars =>
        [\A s \in Services :
           entries[s] # NoEntry /\ entries'[s].url = entries[s].url
             => entries'[s].ver >= entries[s].ver]_vars
  BY NoRegressStep
<1> QED
  BY <1>1, InvariantHolds, PTL DEF Spec, NoRegress

(* The cache as a SingleFlight.  A flight depends only on which refresh is *)
(* registered, who waits for it, and whether and how it settled.           *)
LEMMA SameFlights ==
    ASSUME UNCHANGED <<inFlight, result>>,
           \A r \in Callers : Waiters(r)' = Waiters(r),
           \A r \in Callers : phase'[r] = "settled" <=> phase[r] = "settled",
           inFlight \in [Services -> Callers \cup {NoCaller}]
    PROVE  [s \in Services |-> Flight(s)]' = [s \in Services |-> Flight(s)]
<1>1. ASSUME NEW s \in Services PROVE Flight(s)' = Flight(s)
  <2>1. CASE inFlight[s] = NoCaller
    BY <2>1 DEF Flight
  <2>2. CASE inFlight[s] # NoCaller
    <3>1. inFlight[s] \in Callers
      BY <2>2
    <3> QED
      BY <2>2, <3>1 DEF Flight
  <2> QED
    BY <2>1, <2>2
<1> QED
  BY <1>1

(* A registered refresh is awaited by its starter, and no other service's  *)
(* refresh is the same one.                                                *)
LEMMA Registered ==
    ASSUME IInv, NEW s \in Services, inFlight[s] # NoCaller
    PROVE  /\ inFlight[s] \in Callers /\ inFlight[s] \in Waiters(inFlight[s])
           /\ svc[inFlight[s]] = s
           /\ \A t \in Services : inFlight[t] = inFlight[s] => t = s
  BY DEF IInv, TypeOK, Registration, Waiters

(* What changes one service's flight leaves the others alone.              *)
LEMMA OneFlight ==
    ASSUME NEW s \in Services, NEW f, Flight(s)' = f,
           \A t \in Services \ {s} : Flight(t)' = Flight(t)
    PROVE  [t \in Services |-> Flight(t)]'
             = [[t \in Services |-> Flight(t)] EXCEPT ![s] = f]
  OBVIOUS

LEMMA HitImplements ==
    ASSUME IInv, NEW c \in Callers, NEW s \in Services, Hit(c, s)
    PROVE  Flights!AnswerAtOnce(c, s)
<1> USE DEF hostVars, cacheVars, callVars, refreshVars
<1>1. entries[s].ver # 0
  BY DEF Hit, IsFresh, IInv, EntriesSound
<1>2. \A r \in Callers : Waiters(r)' = Waiters(r)
  BY DEF Hit, Enter, Waiters, IInv, TypeOK
<1>3. UNCHANGED [t \in Services |-> Flight(t)]
  BY <1>2, SameFlights DEF Hit, IInv, TypeOK
<1> QED
  BY <1>1, <1>3 DEF Hit, Enter, Flights!AnswerAtOnce, Flights!Enter, Flights!NoManifest

LEMMA JoinImplements ==
    ASSUME IInv, NEW c \in Callers, NEW s \in Services, Join(c, s)
    PROVE  Flights!Board(c, s)
<1> USE DEF hostVars, cacheVars, callVars, refreshVars
<1> DEFINE r == inFlight[s]
<1>1. /\ r \in Callers /\ r \in Waiters(r) /\ r # NoCaller
      /\ \A t \in Services : inFlight[t] = r => t = s
  BY Registered DEF Join, NoneInFlight
<1>2. /\ Waiters(r)' = Waiters(r) \cup {c}
      /\ \A q \in Callers \ {r} : Waiters(q)' = Waiters(q)
  BY DEF Join, Enter, Waiters, IInv, TypeOK
<1>3. Flight(s)' = [Flight(s) EXCEPT !.riders = @ \cup {c}]
  BY <1>1, <1>2 DEF Join, Flight
<1>4. ASSUME NEW t \in Services \ {s} PROVE Flight(t)' = Flight(t)
  <2>1. inFlight[t] \in (Callers \ {r}) \cup {NoCaller}
    BY <1>1 DEF IInv, TypeOK
  <2> QED
    BY <1>2, <2>1 DEF Join, Flight
<1>5. [t \in Services |-> Flight(t)]'
        = [[t \in Services |-> Flight(t)] EXCEPT ![s].riders = @ \cup {c}]
  BY <1>3, <1>4
<1> QED
  BY <1>1, <1>5 DEF Join, Enter, Flight, Flights!Board, Flights!Enter, Flights!NoManifest

LEMMA StartImplements ==
    ASSUME IInv, NEW c \in Callers, NEW s \in Services, StartRefresh(c, s)
    PROVE  Flights!Depart(c, s)
<1> USE CallersAssumption
<1> USE DEF hostVars, cacheVars, callVars, refreshVars
<1>1. inFlight[s] = NoCaller /\ ~Running(c) /\ result[c] = 0 /\ Waiters(c) = {}
  BY DEF StartRefresh, Enter, NoneInFlight, IInv, Registration, ResultsCached, Running,
         WaitersServed, Waiters
<1>2. /\ Waiters(c)' = {c}
      /\ \A q \in Callers \ {c} : Waiters(q)' = Waiters(q)
  BY <1>1 DEF StartRefresh, Enter, Waiters, IInv, TypeOK
<1>3. Flight(s) = Flights!NoFlight
  BY <1>1 DEF Flight, Flights!NoFlight, Flights!NoManifest
<1>4. Flight(s)' = [riders |-> {c}, decided |-> phase'[c] = "settled", outcome |-> 0]
  BY <1>1, <1>2 DEF StartRefresh, Flight, IInv, TypeOK
<1>5. ASSUME NEW t \in Services \ {s} PROVE Flight(t)' = Flight(t)
  <2>1. inFlight[t] # c
    BY <1>1 DEF IInv, Registration
  <2>2. inFlight[t] \in (Callers \ {c}) \cup {NoCaller} /\ inFlight'[t] = inFlight[t]
    BY <2>1 DEF StartRefresh, IInv, TypeOK
  <2>3. \A q \in Callers \ {c} : phase'[q] = phase[q] /\ result'[q] = result[q]
    BY DEF StartRefresh, IInv, TypeOK
  <2> QED
    BY <1>2, <2>2, <2>3 DEF Flight
<1>6. [t \in Services |-> Flight(t)]'
        = [[t \in Services |-> Flight(t)] EXCEPT ![s] =
             [riders |-> {c}, decided |-> phase'[c] = "settled", outcome |-> 0]]
  BY <1>4, <1>5, OneFlight
<1> QED
  BY <1>3, <1>6 DEF StartRefresh, Enter, Flights!Depart, Flights!Enter, Flights!NoManifest

LEMMA SettleImplements ==
    ASSUME IInv, NEW r \in Callers, Settle(r),
           NEW s \in Services, s = svc[r], NEW m, m = result'[r]
    PROVE  Flights!Decide(s, m)
<1> USE DEF hostVars, cacheVars, callVars, refreshVars
<1>1. /\ inFlight[s] = r /\ r # NoCaller /\ r \in Waiters(r)
      /\ \A t \in Services : inFlight[t] = r => t = s
  BY CallersAssumption DEF Settle, IInv, Registration, Running, Waiters
<1>2. \A q \in Callers : Waiters(q)' = Waiters(q)
  BY DEF Settle, Waiters
<1>3. /\ phase'[r] = "settled"
      /\ \A q \in Callers \ {r} : phase'[q] = phase[q] /\ result'[q] = result[q]
  BY DEF Settle, Store, Revalidate, FallBack, IInv, TypeOK
<1>4. Flight(s) = [riders |-> Waiters(r), decided |-> FALSE, outcome |-> result[r]]
  BY <1>1 DEF Settle, Flight
<1>5. Flight(s)' = [riders |-> Waiters(r), decided |-> TRUE, outcome |-> m]
  BY <1>1, <1>2, <1>3 DEF Settle, Flight
<1>6. ASSUME NEW t \in Services \ {s} PROVE Flight(t)' = Flight(t)
  <2>1. inFlight[t] \in (Callers \ {r}) \cup {NoCaller} /\ inFlight'[t] = inFlight[t]
    BY <1>1 DEF Settle, IInv, TypeOK
  <2> QED
    BY <1>2, <1>3, <2>1 DEF Flight
<1>7. [t \in Services |-> Flight(t)]'
        = [[t \in Services |-> Flight(t)] EXCEPT ![s] =
             [riders |-> @.riders, decided |-> TRUE, outcome |-> m]]
  <2>1. [t \in Services |-> Flight(t)][s].riders = Waiters(r)
    BY <1>4
  <2> QED
    BY <2>1, <1>5, <1>6, OneFlight
<1>8. /\ existing[r] = entries[s]
      /\ entries[s] = NoEntry \/ entries[s].ver # 0
  BY <1>1 DEF Settle, IInv, ExistingIsCurrent, EntriesSound
<1>9. /\ [t \in Services |-> entries[t].ver]'
           = IF m = 0 THEN [t \in Services |-> entries[t].ver]
             ELSE [[t \in Services |-> entries[t].ver] EXCEPT ![s] = m]
      /\ m = 0 => entries[s].ver = 0
  <2>1. CASE Store(r)
    BY <1>1, <2>1 DEF Store, IsUsable, Settle, IInv, TypeOK, AnswersSound
  <2>2. CASE Revalidate(r)
    BY <1>8, <2>2 DEF Revalidate, IInv, TypeOK
  <2>3. CASE FallBack(r)
    BY <1>8, <2>3 DEF FallBack, IInv, TypeOK
  <2> QED
    BY <2>1, <2>2, <2>3 DEF Settle
<1> QED
  BY <1>1, <1>4, <1>7, <1>9 DEF Settle, Flights!Decide, Flights!NoManifest

LEMMA CleanUpImplements ==
    ASSUME IInv, NEW r \in Callers, CleanUp(r), NEW s \in Services, s = svc[r]
    PROVE  Flights!Land(s)
<1> USE DEF hostVars, cacheVars, callVars, refreshVars
<1>1. /\ inFlight[s] = r /\ r # NoCaller
      /\ \A t \in Services : inFlight[t] = r => t = s
  BY CallersAssumption DEF CleanUp, IInv, Registration, Running
<1>2. \A q \in Callers \ {r} : Waiters(q)' = Waiters(q)
  BY CallersAssumption DEF CleanUp, Waiters
<1>3. /\ inFlight'[s] = NoCaller
      /\ \A t \in Services \ {s} : inFlight'[t] = inFlight[t]
      /\ \A q \in Callers \ {r} : phase'[q] = phase[q] /\ result'[q] = result[q]
  BY <1>1 DEF CleanUp, Unregistered, IInv, TypeOK
<1>4. Flight(s) = [riders |-> Waiters(r), decided |-> TRUE, outcome |-> result[r]]
  BY <1>1 DEF CleanUp, Flight
<1>5. Flight(s)' = Flights!NoFlight
  BY <1>3 DEF Flight, Flights!NoFlight, Flights!NoManifest
<1>6. ASSUME NEW t \in Services \ {s} PROVE Flight(t)' = Flight(t)
  <2>1. inFlight[t] \in (Callers \ {r}) \cup {NoCaller}
    BY <1>1 DEF IInv, TypeOK
  <2> QED
    BY <1>2, <1>3, <2>1 DEF Flight
<1>7. [t \in Services |-> Flight(t)]'
        = [[t \in Services |-> Flight(t)] EXCEPT ![s] = Flights!NoFlight]
  BY <1>1, <1>5, <1>6, OneFlight
<1> QED
  BY <1>1, <1>4, <1>7 DEF CleanUp, Flights!Land

LEMMA ResumeImplements ==
    ASSUME IInv, NEW c \in Callers, Resume(c)
    PROVE  Flights!Return(c)
<1> USE DEF hostVars, cacheVars, callVars, refreshVars
<1>1. \A r \in Callers : Waiters(r)' = Waiters(r)
  BY DEF Resume, Waiters, IInv, TypeOK
<1>2. UNCHANGED [t \in Services |-> Flight(t)]
  BY <1>1, SameFlights DEF Resume, IInv, TypeOK
<1> QED
  BY <1>2 DEF Resume, Flights!Return

(* The network, the clock and the operators are invisible to the callers.  *)
LEMMA OutsideImplements ==
    ASSUME IInv,
           \/ \E r \in Callers : Network(r)
           \/ Tick \/ Operator \/ UNCHANGED vars
    PROVE  UNCHANGED Flights!vars
<1> USE DEF hostVars, cacheVars, callVars, refreshVars
<1>1. /\ UNCHANGED <<entries, inFlight, svc, pc, awaits, got, result>>
      /\ \A q \in Callers : phase'[q] = "settled" <=> phase[q] = "settled"
  <2>1. ASSUME NEW r \in Callers, Network(r)
        PROVE  /\ UNCHANGED <<entries, inFlight, svc, pc, awaits, got, result>>
               /\ \A q \in Callers : phase'[q] = "settled" <=> phase[q] = "settled"
    BY <2>1 DEF Network, ServeNotModified, ServeManifest, FetchFails, Answer, IInv, TypeOK
  <2> QED
    BY <2>1 DEF Tick, Operator, Repoint, Deploy, vars
<1>2. \A r \in Callers : Waiters(r)' = Waiters(r)
  BY <1>1 DEF Waiters
<1>3. UNCHANGED [t \in Services |-> Flight(t)]
  BY <1>1, <1>2, SameFlights DEF IInv, TypeOK
<1> QED
  BY <1>1, <1>3 DEF Flights!vars

(* getOrFetch keeps its promise: to its callers the cache with its ETags,  *)
(* clocks, base URLs and hosts is a SingleFlight.                          *)
THEOREM CacheImplementsSingleFlight == Spec => ImplementsSingleFlight
<1>1. Init => Flights!Init
  BY DEF Init, Flights!Init, Flights!NoManifest, Flights!NoFlight, Flight
<1>2. IInv /\ [Next]_vars => [Flights!Next]_Flights!vars
  <2> SUFFICES ASSUME IInv, [Next]_vars PROVE [Flights!Next]_Flights!vars
    OBVIOUS
  <2>1. ASSUME NEW c \in Callers, NEW s \in Services, GetOrFetch(c, s)
        PROVE  Flights!Next
    BY <2>1, HitImplements, JoinImplements, StartImplements DEF GetOrFetch, Flights!Next
  <2>2. ASSUME NEW c \in Callers, Reaction(c) PROVE Flights!Next
    <3>1. CASE Settle(c)
      <4>1. PICK s \in Services, m \in Manifests : s = svc[c] /\ m = result'[c]
        BY TypeInductive DEF IInv, TypeOK
      <4>2. Flights!Decide(s, m)
        BY <3>1, <4>1, SettleImplements
      <4> QED
        BY <4>2 DEF Flights!Next
    <3>2. CASE CleanUp(c)
      BY <3>2, CleanUpImplements DEF Flights!Next, IInv, TypeOK
    <3>3. CASE Resume(c)
      BY <3>3, ResumeImplements DEF Flights!Next
    <3> QED
      BY <2>2, <3>1, <3>2, <3>3 DEF Reaction
  <2> QED
    BY <2>1, <2>2, OutsideImplements DEF Next
<1> QED
  BY <1>1, <1>2, InvariantHolds, PTL DEF Spec, ImplementsSingleFlight, Flights!Spec
=============================================================================
