------------------------- MODULE OpenDatabaseProofs -------------------------
(***************************************************************************)
(* Proofs about OpenDatabase, for any set of calls of openAsync.           *)
(***************************************************************************)
EXTENDS OpenDatabase, TLAPS

\* What the promise, the thread and the handle of one call say of each other:
\* there is no handle before its thread has come to an end, an open one only
\* after it has succeeded, and the version is asked for only then.
InStep ==
  \A o \in Opener :
    /\ caller[o] \in {"idle", "thrown"} => worker[o] = "idle"
    /\ worker[o] \in {"idle", "opening"} => handle[o] = "none"
    /\ worker[o] = "failed" => handle[o] = "closed"

\* The flag of the process is the one a call asked for until it is set again.
CacheHeld ==
  \A o \in Opener :
    /\ worker[o] = "opening" /\ ~reset[o] => cache = asked[o]
    /\ worker[o] = "idle" => ~reset[o]

OpeningInv == OpeningTypeOK /\ InStep /\ VersionKnown

-----------------------------------------------------------------------------
\* Every state is of the type of openVars.
THEOREM OpeningType == OpeningSpec => []OpeningTypeOK
<1>1. ASSUME OpeningInit PROVE OpeningTypeOK
  <2>1. version \in BOOLEAN /\ cache \in BOOLEAN
    BY <1>1, Zenon DEF OpeningInit
  <2> QED BY <1>1, <2>1 DEF OpeningInit, OpeningTypeOK
<1>2. OpeningTypeOK /\ [OpeningNext]_openVars => OpeningTypeOK'
  <2> SUFFICES ASSUME OpeningTypeOK, [OpeningNext]_openVars PROVE OpeningTypeOK'
    OBVIOUS
  <2> USE DEF OpeningTypeOK, CallerGoes, WorkerGoes, HandleGoes
  <2>1. ASSUME NEW o \in Opener, OpenAsync(o) PROVE OpeningTypeOK'
    BY <2>1 DEF OpenAsync
  <2>2. ASSUME NEW o \in Opener, OpenHandle(o) PROVE OpeningTypeOK'
    BY <2>2 DEF OpenHandle, OpenWith
  <2>3. ASSUME NEW o \in Opener, FailToOpen(o) PROVE OpeningTypeOK'
    BY <2>3 DEF FailToOpen, FailAs
  <2>4. ASSUME NEW o \in Opener, Opened(o) PROVE OpeningTypeOK'
    BY <2>4 DEF Opened, OpenedAs, AfterOpen
  <2>5. ASSUME NEW o \in Opener, Answered(o) PROVE OpeningTypeOK'
    BY <2>5 DEF Answered
  <2>6. ASSUME NEW o \in Opener, GiveUp(o) PROVE OpeningTypeOK'
    BY <2>6 DEF GiveUp
  <2>7. ASSUME NEW o \in Opener, Dispose(o) PROVE OpeningTypeOK'
    BY <2>7 DEF Dispose
  <2>8. ASSUME NEW value \in BOOLEAN, SetSharedCache(value) PROVE OpeningTypeOK'
    BY <2>8 DEF SetSharedCache
  <2>9. ASSUME UNCHANGED openVars PROVE OpeningTypeOK'
    BY <2>9 DEF openVars
  <2> QED BY <2>1, <2>2, <2>3, <2>4, <2>5, <2>6, <2>7, <2>8, <2>9 DEF OpeningNext
<1> QED BY <1>1, <1>2, PTL DEF OpeningSpec

\* No step breaks the invariant that the safety properties rest on.
LEMMA OpeningInductive == OpeningInv /\ OpeningTypeOK' /\ [OpeningNext]_openVars => OpeningInv'
<1> SUFFICES ASSUME OpeningInv, OpeningTypeOK', [OpeningNext]_openVars PROVE InStep' /\ VersionKnown'
  BY DEF OpeningInv
<1> USE DEF OpeningInv, OpeningTypeOK, InStep, VersionKnown, CallerGoes, WorkerGoes, HandleGoes
<1>1. ASSUME NEW o \in Opener, OpenAsync(o) PROVE InStep' /\ VersionKnown'
  BY <1>1 DEF OpenAsync
<1>2. ASSUME NEW o \in Opener, OpenHandle(o) PROVE InStep' /\ VersionKnown'
  BY <1>2 DEF OpenHandle, OpenWith
<1>3. ASSUME NEW o \in Opener, FailToOpen(o) PROVE InStep' /\ VersionKnown'
  BY <1>3 DEF FailToOpen, FailAs
<1>4. ASSUME NEW o \in Opener, Opened(o) PROVE InStep' /\ VersionKnown'
  BY <1>4 DEF Opened, OpenedAs, AfterOpen
<1>5. ASSUME NEW o \in Opener, Answered(o) PROVE InStep' /\ VersionKnown'
  BY <1>5 DEF Answered
<1>6. ASSUME NEW o \in Opener, GiveUp(o) PROVE InStep' /\ VersionKnown'
  BY <1>6 DEF GiveUp
<1>7. ASSUME NEW o \in Opener, Dispose(o) PROVE InStep' /\ VersionKnown'
  BY <1>7 DEF Dispose
<1>8. ASSUME NEW value \in BOOLEAN, SetSharedCache(value) PROVE InStep' /\ VersionKnown'
  BY <1>8 DEF SetSharedCache
<1>9. ASSUME UNCHANGED openVars PROVE InStep' /\ VersionKnown'
  BY <1>9 DEF openVars
<1> QED BY <1>1, <1>2, <1>3, <1>4, <1>5, <1>6, <1>7, <1>8, <1>9 DEF OpeningNext

\* Whoever has its database knows the version of SQLite.
THEOREM OpeningVersionKnown == OpeningSpec => []VersionKnown
<1>1. OpeningInit => InStep /\ VersionKnown
  BY DEF OpeningInit, InStep, VersionKnown
<1>2. OpeningInv => VersionKnown
  BY DEF OpeningInv
<1> QED BY <1>1, <1>2, OpeningType, OpeningInductive, PTL DEF OpeningSpec, OpeningInv

\* No handle is lost, however opens fail, are given up or meet a version query
\* that fails.
THEOREM OpeningHandlesAccounted == OpeningSpec => []HandlesAccounted
<1>1. OpeningInit => InStep /\ VersionKnown
  BY DEF OpeningInit, InStep, VersionKnown
<1>2. OpeningInv => HandlesAccounted
  BY DEF OpeningInv, OpeningTypeOK, InStep, HandlesAccounted
<1> QED BY <1>1, <1>2, OpeningType, OpeningInductive, PTL DEF OpeningSpec, OpeningInv

\* No step breaks what ties the flag of the process to the calls that are
\* opening and to the handles that are open.
LEMMA CacheInductive ==
  OpeningInv /\ CacheHeld /\ CacheAsSet /\ [OpeningNext]_openVars => CacheHeld' /\ CacheAsSet'
<1> SUFFICES ASSUME OpeningInv, CacheHeld, CacheAsSet, [OpeningNext]_openVars
             PROVE CacheHeld' /\ CacheAsSet'
  OBVIOUS
<1>0. /\ OpeningTypeOK
      /\ \A o \in Opener : caller[o] = "idle" => worker[o] = "idle"
  BY DEF OpeningInv, InStep
<1> USE DEF OpeningTypeOK, CacheHeld, CacheAsSet, WorkerGoes
<1>1. ASSUME NEW o \in Opener, OpenAsync(o) PROVE CacheHeld' /\ CacheAsSet'
  BY <1>0, <1>1 DEF OpenAsync
<1>2. ASSUME NEW o \in Opener, OpenHandle(o) PROVE CacheHeld' /\ CacheAsSet'
  BY <1>0, <1>2 DEF OpenHandle, OpenWith
<1>3. ASSUME NEW o \in Opener, FailToOpen(o) PROVE CacheHeld' /\ CacheAsSet'
  BY <1>0, <1>3 DEF FailToOpen, FailAs
<1>4. ASSUME NEW value \in BOOLEAN, SetSharedCache(value) PROVE CacheHeld' /\ CacheAsSet'
  <2>1. \A o \in Opener : reset'[o] = (reset[o] \/ worker[o] = "opening")
    BY <1>4, Zenon DEF SetSharedCache
  <2>2. worker' = worker /\ mode' = mode /\ asked' = asked
    BY <1>4, Zenon DEF SetSharedCache
  <2>3. ASSUME NEW o \in Opener
        PROVE /\ worker'[o] = "opening" /\ ~reset'[o] => cache' = asked'[o]
              /\ worker'[o] = "idle" => ~reset'[o]
              /\ worker'[o] = "opened" /\ ~reset'[o] => mode'[o] = asked'[o]
    <3>1. worker[o] = "idle" => worker[o] # "opening"
      BY Zenon
    <3> QED BY <2>1, <2>2, <3>1, Zenon
  <2> QED BY <2>3, Zenon
<1>5. ASSUME UNCHANGED <<worker, cache, mode, asked, reset>> PROVE CacheHeld' /\ CacheAsSet'
  BY <1>5
<1>6. ASSUME NEW o \in Opener, Opened(o) \/ Answered(o) \/ GiveUp(o) \/ Dispose(o)
      PROVE CacheHeld' /\ CacheAsSet'
  BY <1>5, <1>6, Zenon DEF Opened, OpenedAs, Answered, GiveUp, Dispose
<1>7. ASSUME UNCHANGED openVars PROVE CacheHeld' /\ CacheAsSet'
  BY <1>5, <1>7 DEF openVars
<1> QED BY <1>1, <1>2, <1>3, <1>4, <1>6, <1>7 DEF OpeningNext

\* A handle has the cache mode that was asked for, unless the client has set
\* the flag again while the handle was being opened.
THEOREM OpeningCacheAsSet == OpeningSpec => []CacheAsSet
<1>1. OpeningInit => CacheHeld /\ CacheAsSet
  BY DEF OpeningInit, CacheHeld, CacheAsSet
<1>2. OpeningInit => InStep /\ VersionKnown
  BY DEF OpeningInit, InStep, VersionKnown
<1> QED BY <1>1, <1>2, OpeningType, OpeningInductive, CacheInductive, PTL
        DEF OpeningSpec, OpeningInv
=============================================================================
