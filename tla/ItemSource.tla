------------------------------ MODULE ItemSource ------------------------------
(***************************************************************************)
(* The ItemDataSource of SQLite3JS, lines 263 to 324 of SQLite3.js.  A     *)
(* page of items is two calls of the promise queue, the count of the query *)
(* and then the rows of the page; setQuery, other requests and calls that  *)
(* write come between them.  The queue serves one call at a time, in the   *)
(* order of the calls, which is what CallQueue promises to a client that   *)
(* cancels nothing.                                                        *)
(*                                                                         *)
(* The database is external: a query is known by the number of rows it     *)
(* yields, and a page by the positions of its rows in it.                  *)
(***************************************************************************)
EXTENDS Integers, Sequences

CONSTANTS
  Request,   \* the requests of the list view: getCount and itemsFromIndex
  Wanted,    \* [Request -> [index, before, after]], or CountOnly for getCount
  Query,     \* the queries the client sets: an sql with the args it needs
  Size,      \* the numbers of rows a query may yield
  CountOnly, \* the request is getCount
  Unknown    \* no count or no page yet

ASSUME ItemAssumption ==
  /\ \A r \in Request : Wanted[r] # CountOnly =>
       /\ Wanted[r] \in [index : Nat, before : Nat, after : Nat]
       /\ Wanted[r].before <= Wanted[r].index
  /\ Query # {}
  /\ \A q \in Query : q = [sql |-> q.sql, args |-> q.args]
  /\ Size \subseteq Nat

Sql == {q.sql : q \in Query}
Args == {q.args : q \in Query}

VARIABLES
  sql,       \* _sql of the data adapter
  args,      \* _args
  content,   \* how many rows each SQL yields now
  calls,     \* the calls in the queue, the first one running
  state,     \* where each request is
  counted,   \* totalCount of each request
  page,      \* offset and number of the rows of its page
  disturbed  \* history: setQuery or a write since the request was made

itemVars == <<sql, args, content, calls, state, counted, page, disturbed>>

Page == [offset : Nat, length : Nat]

ItemTypeOK ==
  /\ sql \in Sql
  /\ args \in Args
  /\ content \in [Sql -> Size]
  /\ calls \in Seq([of : Request, part : {"count", "page"}, sql : Sql, args : Args])
  /\ state \in [Request -> {"idle", "counting", "paging", "answered", "failed"}]
  /\ counted \in [Request -> Size \cup {Unknown}]
  /\ page \in [Request -> Page \cup {Unknown}]
  /\ disturbed \in SUBSET Request

ItemInit ==
  /\ \E q \in Query : sql = q.sql /\ args = q.args
  /\ content \in [Sql -> Size]
  /\ calls = << >>
  /\ state = [r \in Request |-> "idle"]
  /\ counted = [r \in Request |-> Unknown]
  /\ page = [r \in Request |-> Unknown]
  /\ disturbed = {}

-----------------------------------------------------------------------------
\* The SQL text and the arguments of a call are those of the adapter in the
\* turn in which the call is made.
Ask(r) ==
  /\ state[r] = "idle"
  /\ state' = [state EXCEPT ![r] = "counting"]
  /\ calls' = Append(calls, [of |-> r, part |-> "count", sql |-> sql, args |-> args])
  /\ UNCHANGED <<sql, args, content, counted, page, disturbed>>

Turn(r, part) == calls # << >> /\ Head(calls).of = r /\ Head(calls).part = part

CountFor(r, pageArgs) ==
  /\ Turn(r, "count")
  /\ counted' = [counted EXCEPT ![r] = content[Head(calls).sql]]
  /\ IF Wanted[r] = CountOnly
       THEN /\ state' = [state EXCEPT ![r] = "answered"]
            /\ calls' = Tail(calls)
       ELSE /\ state' = [state EXCEPT ![r] = "paging"]
            /\ calls' = Append(Tail(calls),
                          [of |-> r, part |-> "page", sql |-> sql, args |-> pageArgs])
  /\ UNCHANGED <<sql, args, content, page, disturbed>>

\* Deviation: the page is asked for with the arguments of the count.
CountKeepsArgs(r) == CountFor(r, Head(calls).args)

\* The count is there: getCount is answered, itemsFromIndex goes on in the same
\* turn to ask for the page.
Count(r) == CountFor(r, args)

PageOf(r, first, itself) ==
  /\ Turn(r, "page")
  /\ LET w == Wanted[r]
         offset == w.index - w.before - first
         limit == w.before + itself + w.after
         size == content[Head(calls).sql]
         rest == IF size > offset THEN size - offset ELSE 0
     IN  page' = [page EXCEPT ![r] =
                    [offset |-> offset, length |-> IF rest < limit THEN rest ELSE limit]]
  /\ state' = [state EXCEPT ![r] = "answered"]
  /\ calls' = Tail(calls)
  /\ UNCHANGED <<sql, args, content, counted, disturbed>>

\* Deviation: the item that was asked for is not counted itself.
FetchOneLess(r) == PageOf(r, 0, 0)

\* Deviation: positions are taken to begin at one.
FetchFromOne(r) == PageOf(r, 1, 1)

\* The page is there: LIMIT countBefore + 1 + countAfter from OFFSET
\* requestIndex - countBefore.
Fetch(r) == PageOf(r, 0, 1)

\* Deviation: a request that fails makes its call again.
FailRetries(r) ==
  /\ Turn(r, "count") \/ Turn(r, "page")
  /\ calls' = Append(Tail(calls), Head(calls))
  /\ UNCHANGED <<sql, args, content, state, counted, page, disturbed>>

\* A query fails, or a row has no key or no group key.
Fail(r) ==
  /\ Turn(r, "count") \/ Turn(r, "page")
  /\ state' = [state EXCEPT ![r] = "failed"]
  /\ calls' = Tail(calls)
  /\ UNCHANGED <<sql, args, content, counted, page, disturbed>>

UnderWay == {r \in Request : state[r] \in {"counting", "paging"}}

\* setQuery replaces both parts of the query in one turn.
SetQuery(q) ==
  /\ sql' = q.sql
  /\ args' = q.args
  /\ disturbed' = disturbed \cup UnderWay
  /\ UNCHANGED <<content, calls, state, counted, page>>

\* Some other call or connection changes the rows.
Write ==
  /\ content' \in [Sql -> Size]
  /\ disturbed' = disturbed \cup UnderWay
  /\ UNCHANGED <<sql, args, calls, state, counted, page>>

ItemNext ==
  \/ \E r \in Request : Ask(r) \/ Count(r) \/ Fetch(r) \/ Fail(r)
  \/ \E q \in Query : SetQuery(q)
  \/ Write

\* Every call in the queue is served.
ItemFairness == WF_itemVars(\E r \in Request : Count(r) \/ Fetch(r) \/ Fail(r))

ItemSpec == ItemInit /\ [][ItemNext]_itemVars

ItemFairSpec == ItemSpec /\ ItemFairness

-----------------------------------------------------------------------------
\* No call carries the SQL of one query and the arguments of another, whenever
\* setQuery came.
QueryWhole == \A n \in 1..Len(calls) : [sql |-> calls[n].sql, args |-> calls[n].args] \in Query

\* Unless setQuery or a write came between, count and page of an answer belong
\* together: the page holds the item that was asked for, at the offset that
\* the answer gives for it, exactly if the count says that there is one, and
\* no item past the end of the count.
CountAndPageAgree ==
  \A r \in Request \ disturbed :
    state[r] = "answered" /\ Wanted[r] # CountOnly =>
      LET w == Wanted[r]
          p == page[r]
      IN  /\ p.offset + w.before = w.index
          /\ p.length > w.before <=> w.index < counted[r]
          /\ p.length > 0 => p.offset + p.length <= counted[r]

\* Every request is answered or fails.
ItemRequestsEnd ==
  \A r \in Request : state[r] = "counting" ~> state[r] \in {"answered", "failed"}
=============================================================================
