---------------------------- MODULE OpenDatabase ----------------------------
(***************************************************************************)
(* Opening databases: SQLite3JS.openAsync, lines 392 to 415 of SQLite3.js, *)
(* Database::OpenAsync, lines 93 to 112 of Database.cpp, and the shared    *)
(* cache flag of Database.h:18-29.  Each call opens its handle on a thread *)
(* of the pool; back on the UI thread the first ones to succeed ask the    *)
(* new database for the version of SQLite, which all of them share.        *)
(*                                                                         *)
(* SQLite keeps the shared cache flag for the process and reads it when a  *)
(* handle is opened.  The query for the version is one call on the queue   *)
(* of a database nobody else has yet.  A Database that nobody refers to is *)
(* finalised by the garbage collector of the client's process.             *)
(***************************************************************************)
CONSTANT Opener   \* the calls of openAsync

VARIABLES
  caller,  \* where the promise of each call is
  worker,  \* where its thread is
  handle,  \* its sqlite3 handle
  version, \* SQLite3JS.version is known
  cache,   \* the shared cache flag of the process
  mode,    \* whether each handle was opened with a shared cache
  asked,   \* history: the flag when each call was made
  reset    \* history: the flag was set while the handle was being opened

openVars == <<caller, worker, handle, version, cache, mode, asked, reset>>

OpeningTypeOK ==
  /\ caller \in [Opener -> {"idle", "opening", "asking", "done", "rejected", "thrown"}]
  /\ worker \in [Opener -> {"idle", "opening", "opened", "failed"}]
  /\ handle \in [Opener -> {"none", "open", "closed"}]
  /\ version \in BOOLEAN
  /\ cache \in BOOLEAN
  /\ mode \in [Opener -> BOOLEAN]
  /\ asked \in [Opener -> BOOLEAN]
  /\ reset \in [Opener -> BOOLEAN]

OpeningInit ==
  /\ caller = [o \in Opener |-> "idle"]
  /\ worker = [o \in Opener |-> "idle"]
  /\ handle = [o \in Opener |-> "none"]
  /\ version = FALSE
  /\ cache = FALSE
  /\ mode = [o \in Opener |-> FALSE]
  /\ asked = [o \in Opener |-> FALSE]
  /\ reset = [o \in Opener |-> FALSE]

CallerGoes(o, next) == caller' = [caller EXCEPT ![o] = next]
WorkerGoes(o, next) == worker' = [worker EXCEPT ![o] = next]
HandleGoes(o, next) == handle' = [handle EXCEPT ![o] = next]

-----------------------------------------------------------------------------
\* An empty path throws before there is a promise; any other starts a thread.
OpenAsync(o) ==
  /\ caller[o] = "idle"
  /\ \/ CallerGoes(o, "opening") /\ WorkerGoes(o, "opening")
     \/ CallerGoes(o, "thrown") /\ UNCHANGED worker
  /\ asked' = [asked EXCEPT ![o] = cache]
  /\ UNCHANGED <<handle, version, cache, mode, reset>>

OpenWith(o, shared) ==
  /\ worker[o] = "opening"
  /\ WorkerGoes(o, "opened")
  /\ HandleGoes(o, "open")
  /\ mode' = [mode EXCEPT ![o] = shared]
  /\ UNCHANGED <<caller, version, cache, asked, reset>>

\* Deviation: the handle is opened with the program's own flag, sharedCache,
\* which nothing ever sets.
OpenHandleOwnFlag(o) == OpenWith(o, FALSE)

\* sqlite3_open16 succeeds and the Database is made.
OpenHandle(o) == OpenWith(o, cache)

FailAs(o, left) ==
  /\ worker[o] = "opening"
  /\ WorkerGoes(o, "failed")
  /\ HandleGoes(o, left)
  /\ UNCHANGED <<caller, version, cache, mode, asked, reset>>

\* Deviation: the handle of a failed sqlite3_open16 is forgotten.
FailToOpenForgets(o) == FailAs(o, "open")

\* sqlite3_open16 fails: it leaves a handle that is closed before the throw.
FailToOpen(o) == FailAs(o, "closed")

OpenedAs(o, next) ==
  /\ caller[o] = "opening"
  /\ CallerGoes(o, next)
  /\ UNCHANGED <<worker, handle, version, cache, mode, asked, reset>>

AfterOpen == IF version THEN "done" ELSE "asking"

\* Deviation: nobody looks at the failure of a thread.
OpenedOnly(o) == worker[o] = "opened" /\ OpenedAs(o, AfterOpen)

\* opened and onerror, when the thread has come to its end and the caller has
\* not given up: the database is ready if the version is known.
Opened(o) ==
  \/ worker[o] = "opened" /\ OpenedAs(o, AfterOpen)
  \/ worker[o] = "failed" /\ OpenedAs(o, "rejected")

\* Deviation: a query for the version that failed counts as an answer.
AnsweredAnyhow(o) ==
  /\ caller[o] = "asking"
  /\ CallerGoes(o, "done") /\ version' \in BOOLEAN
  /\ UNCHANGED <<worker, handle, cache, mode, asked, reset>>

\* The query for the version is answered, or fails: the error goes to the
\* caller as it is, and the database goes nowhere.
Answered(o) ==
  /\ caller[o] = "asking"
  /\ \/ CallerGoes(o, "done") /\ version' = TRUE
     \/ CallerGoes(o, "rejected") /\ UNCHANGED version
  /\ UNCHANGED <<worker, handle, cache, mode, asked, reset>>

\* The client cancels the promise; a thread that is opening is not stopped.
GiveUp(o) ==
  /\ caller[o] \in {"opening", "asking"}
  /\ CallerGoes(o, "rejected")
  /\ UNCHANGED <<worker, handle, version, cache, mode, asked, reset>>

\* ~Database, from close() or for a Database that nobody got.
Dispose(o) ==
  /\ caller[o] \in {"done", "rejected"}
  /\ handle[o] = "open"
  /\ HandleGoes(o, "closed")
  /\ UNCHANGED <<caller, worker, version, cache, mode, asked, reset>>

\* SharedCache::set.
SetSharedCache(value) ==
  /\ cache' = value
  /\ reset' = [o \in Opener |-> reset[o] \/ worker[o] = "opening"]
  /\ UNCHANGED <<caller, worker, handle, version, mode, asked>>

OpeningNext ==
  \/ \E o \in Opener :
       \/ OpenAsync(o) \/ OpenHandle(o) \/ FailToOpen(o)
       \/ Opened(o) \/ Answered(o) \/ GiveUp(o) \/ Dispose(o)
  \/ \E value \in BOOLEAN : SetSharedCache(value)

\* Every thread of the pool comes to its end, the UI thread takes its turns,
\* and the queue serves the query for the version.
OpeningFairness ==
  \A o \in Opener :
    /\ WF_openVars(OpenHandle(o) \/ FailToOpen(o))
    /\ WF_openVars(Opened(o))
    /\ WF_openVars(Answered(o))

OpeningSpec == OpeningInit /\ [][OpeningNext]_openVars

OpeningFairSpec == OpeningSpec /\ OpeningFairness

-----------------------------------------------------------------------------
\* Whoever has its database, also one that asked while others were asking or
\* failing to, knows the version; and once known it stays known.
VersionKnown == (\E o \in Opener : caller[o] = "done") => version

\* No handle is lost: one that is open belongs to a Database, which its caller
\* has, is about to get, or has left to the garbage collector.  A failed open
\* leaves none, whether or not the caller had given up by then.
HandlesAccounted ==
  \A o \in Opener : handle[o] = "open" =>
    worker[o] = "opened" /\ caller[o] \in {"opening", "asking", "done", "rejected"}

\* A handle has the cache mode that was set when openAsync was called, unless
\* it was set again while the handle was being opened.
CacheAsSet ==
  \A o \in Opener : worker[o] = "opened" /\ ~reset[o] => mode[o] = asked[o]

\* Every call that returned a promise settles it, with the version known or
\* with an error.
OpenSettles ==
  \A o \in Opener : caller[o] = "opening" ~> caller[o] \in {"done", "rejected"}
=============================================================================
