--------------------------- MODULE ItemSourceProofs ---------------------------
(***************************************************************************)
(* Proofs about ItemSource, for any requests, queries and sizes.           *)
(***************************************************************************)
EXTENDS ItemSource, SequenceTheorems, TLAPS

Calls == [of : Request, part : {"count", "page"}, sql : Sql, args : Args]

\* Taking the first call off the queue.
LEMMA CallsTail ==
  ASSUME NEW s \in Seq(Calls), s # << >>
  PROVE  /\ Head(s) \in Calls /\ Head(s) = s[1] /\ 1 \in 1..Len(s)
         /\ Tail(s) \in Seq(Calls)
         /\ Len(s) \in Nat /\ Len(Tail(s)) = Len(s) - 1
         /\ \A k \in 1..Len(Tail(s)) : Tail(s)[k] = s[k + 1] /\ k + 1 \in 1..Len(s)
<1>1. Len(s) \in Nat \ {0}
  BY EmptySeq, LenProperties
<1> QED BY <1>1, HeadTailProperties

\* Putting a call at the end of the queue.
LEMMA CallsAppend ==
  ASSUME NEW s \in Seq(Calls), NEW c \in Calls
  PROVE  /\ Append(s, c) \in Seq(Calls)
         /\ Len(s) \in Nat /\ Len(Append(s, c)) = Len(s) + 1
         /\ \A k \in 1..Len(s) : Append(s, c)[k] = s[k]
         /\ Append(s, c)[Len(s) + 1] = c
  BY AppendProperties, LenProperties

\* Every call in the queue is a call.
LEMMA CallFacts ==
  ASSUME ItemTypeOK, NEW n \in 1..Len(calls)
  PROVE  calls[n] \in Calls
  BY ElementOfSeq DEF ItemTypeOK, Calls

\* The calls in the queue are those the requests under way have made, one for
\* each of them, and getCount makes none for a page.
CallsInv ==
  /\ \A n \in 1..Len(calls) :
       /\ state[calls[n].of] = IF calls[n].part = "count" THEN "counting" ELSE "paging"
       /\ calls[n].part = "page" => Wanted[calls[n].of] # CountOnly
  /\ \A m, n \in 1..Len(calls) : calls[m].of = calls[n].of => m = n

\* The adapter has one of the queries, and so has each call.
QueryInv == [sql |-> sql, args |-> args] \in Query /\ QueryWhole

\* What is not disturbed goes by the SQL and the rows of now.
FreshInv ==
  /\ \A n \in 1..Len(calls) : calls[n].of \notin disturbed => calls[n].sql = sql
  /\ \A r \in Request \ disturbed : state[r] = "paging" => counted[r] = content[sql]

-----------------------------------------------------------------------------
\* The page that a call gets: it begins at the offset, and it is as long as the
\* limit and the rows after the offset allow.
LEMMA PageFacts ==
  ASSUME NEW w \in [index : Nat, before : Nat, after : Nat], w.before <= w.index,
         NEW size \in Nat, NEW rest, NEW length,
         rest = IF size > w.index - w.before THEN size - (w.index - w.before) ELSE 0,
         length = IF rest < w.before + 1 + w.after THEN rest ELSE w.before + 1 + w.after
  PROVE  /\ w.index - w.before \in Nat /\ length \in Nat
         /\ w.index - w.before + w.before = w.index
         /\ length > w.before <=> w.index < size
         /\ length > 0 => w.index - w.before + length <= size
<1>1. w.index \in Nat /\ w.before \in Nat /\ w.after \in Nat
  OBVIOUS
<1>2. rest \in Nat /\ length \in Nat
  BY <1>1
<1>3. CASE size > w.index - w.before
  BY <1>1, <1>2, <1>3
<1>4. CASE ~(size > w.index - w.before)
  BY <1>1, <1>2, <1>4
<1> QED BY <1>1, <1>2, <1>3, <1>4

\* The steps that serve the first call of the queue.
LEMMA TurnFacts ==
  ASSUME ItemTypeOK, CallsInv, NEW r \in Request, NEW part \in {"count", "page"}, Turn(r, part)
  PROVE  /\ calls # << >> /\ calls \in Seq(Calls)
         /\ Head(calls) \in Calls /\ Head(calls).of = r /\ Head(calls).part = part
         /\ Head(calls) = calls[1] /\ 1 \in 1..Len(calls)
         /\ state[r] = IF part = "count" THEN "counting" ELSE "paging"
         /\ part = "page" => /\ Wanted[r] \in [index : Nat, before : Nat, after : Nat]
                             /\ Wanted[r].before <= Wanted[r].index
                             /\ Wanted[r] # CountOnly
<1>1. calls # << >> /\ calls \in Seq(Calls) /\ Head(calls).of = r /\ Head(calls).part = part
  BY DEF Turn, ItemTypeOK, Calls
<1>2. Head(calls) \in Calls /\ Head(calls) = calls[1] /\ 1 \in 1..Len(calls)
  BY <1>1, CallsTail
<1>3. /\ state[r] = IF part = "count" THEN "counting" ELSE "paging"
      /\ part = "page" => Wanted[r] # CountOnly
  BY <1>1, <1>2 DEF CallsInv
<1> QED BY <1>1, <1>2, <1>3, ItemAssumption

\* The page a request is answered with, as PageFacts has it.
LEMMA FetchFacts ==
  ASSUME ItemTypeOK, CallsInv, NEW r \in Request, Fetch(r)
  PROVE  LET w == Wanted[r]
             size == content[Head(calls).sql]
             rest == IF size > w.index - w.before THEN size - (w.index - w.before) ELSE 0
             length == IF rest < w.before + 1 + w.after THEN rest ELSE w.before + 1 + w.after
         IN  page' = [page EXCEPT ![r] = [offset |-> w.index - w.before, length |-> length]]
<1>1. Wanted[r].index \in Nat /\ Wanted[r].before \in Nat
  BY TurnFacts DEF Fetch, PageOf
<1>2. Wanted[r].index - Wanted[r].before - 0 = Wanted[r].index - Wanted[r].before
  BY <1>1
<1>3. QED
  BY <1>2 DEF Fetch, PageOf

\* Every step keeps the types.
LEMMA ItemTypeStep ==
  ASSUME ItemTypeOK, CallsInv, [ItemNext]_itemVars
  PROVE  ItemTypeOK'
<1> USE DEF ItemTypeOK
<1>0. calls \in Seq(Calls)
  BY DEF Calls
<1>1. ASSUME NEW r \in Request, Ask(r) PROVE ItemTypeOK'
  <2> DEFINE c == [of |-> r, part |-> "count", sql |-> sql, args |-> args]
  <2>1. c \in Calls
    BY DEF Calls
  <2>2. calls' \in Seq(Calls)
    BY <1>0, <1>1, <2>1, CallsAppend DEF Ask
  <2> QED BY <1>1, <2>2 DEF Ask, Calls
<1>2. ASSUME NEW r \in Request, Count(r) PROVE ItemTypeOK'
  <2> DEFINE c == [of |-> r, part |-> "page", sql |-> sql, args |-> args]
  <2>1. Head(calls) \in Calls /\ Tail(calls) \in Seq(Calls)
    BY <1>0, <1>2, CallsTail DEF Count, CountFor, Turn
  <2>2. c \in Calls
    BY DEF Calls
  <2>3. calls' = Tail(calls) \/ calls' = Append(Tail(calls), c)
    BY <1>2, Zenon DEF Count, CountFor
  <2>4. calls' \in Seq(Calls)
    BY <2>1, <2>2, <2>3, CallsAppend
  <2>5. content[Head(calls).sql] \in Size
    BY <2>1 DEF Calls
  <2>6. counted' \in [Request -> Size \cup {Unknown}]
    BY <1>2, <2>5 DEF Count, CountFor
  <2>7. state' \in [Request -> {"idle", "counting", "paging", "answered", "failed"}]
    BY <1>2 DEF Count, CountFor
  <2>8. UNCHANGED <<sql, args, content, page, disturbed>>
    BY <1>2 DEF Count, CountFor
  <2> QED BY <2>4, <2>6, <2>7, <2>8 DEF Calls
<1>3. ASSUME NEW r \in Request, Fetch(r) PROVE ItemTypeOK'
  <2> DEFINE w == Wanted[r]
             size == content[Head(calls).sql]
             rest == IF size > w.index - w.before THEN size - (w.index - w.before) ELSE 0
             length == IF rest < w.before + 1 + w.after THEN rest ELSE w.before + 1 + w.after
  <2>1. Head(calls) \in Calls /\ Tail(calls) \in Seq(Calls)
    BY <1>0, <1>3, CallsTail DEF Fetch, PageOf, Turn
  <2>2. w \in [index : Nat, before : Nat, after : Nat] /\ w.before <= w.index
    BY <1>3, TurnFacts DEF Fetch, PageOf
  <2>3. size \in Nat
    BY <2>1, ItemAssumption DEF Calls
  <2>4. w.index - w.before \in Nat /\ length \in Nat
    BY <2>2, <2>3, PageFacts
  <2>5. page' = [page EXCEPT ![r] = [offset |-> w.index - w.before, length |-> length]]
    BY <1>3, FetchFacts
  <2>6. page' \in [Request -> Page \cup {Unknown}]
    BY <2>4, <2>5 DEF Page
  <2> QED BY <1>3, <2>1, <2>6 DEF Fetch, PageOf, Calls
<1>4. ASSUME NEW r \in Request, Fail(r) PROVE ItemTypeOK'
  <2>1. Tail(calls) \in Seq(Calls)
    BY <1>0, <1>4, CallsTail DEF Fail, Turn
  <2> QED BY <1>4, <2>1 DEF Fail, Calls
<1>5. ASSUME NEW q \in Query, SetQuery(q) PROVE ItemTypeOK'
  BY <1>5 DEF SetQuery, UnderWay, Sql, Args
<1>6. ASSUME Write PROVE ItemTypeOK'
  BY <1>6 DEF Write, UnderWay
<1>7. ASSUME UNCHANGED itemVars PROVE ItemTypeOK'
  BY <1>7 DEF itemVars
<1> QED BY <1>1, <1>2, <1>3, <1>4, <1>5, <1>6, <1>7 DEF ItemNext

-----------------------------------------------------------------------------
ItemInv == CallsInv /\ QueryInv /\ FreshInv /\ CountAndPageAgree

\* The queue after a call was made: the new call is the last one.
LEMMA QueueGrown ==
  ASSUME NEW s \in Seq(Calls), NEW c \in Calls, NEW n \in 1..Len(Append(s, c))
  PROVE  \/ n \in 1..Len(s) /\ Append(s, c)[n] = s[n]
         \/ n = Len(s) + 1 /\ Append(s, c)[n] = c
  BY CallsAppend

\* Every step keeps what the calls and the requests say of each other.
LEMMA CallsStep ==
  ASSUME ItemTypeOK, CallsInv, [ItemNext]_itemVars
  PROVE  CallsInv'
<1>0. calls \in Seq(Calls) /\ state \in [Request -> {"idle", "counting", "paging", "answered", "failed"}]
  BY DEF ItemTypeOK, Calls
<1>a. \A n \in 1..Len(calls) : calls[n].of \in Request /\ calls[n].part \in {"count", "page"}
  BY CallFacts DEF Calls
<1>1. ASSUME NEW r \in Request, Ask(r) PROVE CallsInv'
  <2> DEFINE c == [of |-> r, part |-> "count", sql |-> sql, args |-> args]
  <2>1. c \in Calls /\ state[r] = "idle"
    BY <1>1 DEF Ask, Calls, ItemTypeOK
  <2>2. \A n \in 1..Len(calls) : calls[n].of # r
    BY <2>1 DEF CallsInv
  <2>3. calls' = Append(calls, c) /\ state' = [state EXCEPT ![r] = "counting"]
    BY <1>1 DEF Ask
  <2>4. \A n \in 1..Len(calls') :
          \/ n \in 1..Len(calls) /\ calls'[n] = calls[n]
          \/ n = Len(calls) + 1 /\ calls'[n] = c
    BY <1>0, <2>1, <2>3, QueueGrown
  <2>5. c.of = r /\ c.part = "count" /\ "count" # "page"
    OBVIOUS
  <2> HIDE DEF c
  <2>6. ASSUME NEW n \in 1..Len(calls')
        PROVE  /\ state'[calls'[n].of] = IF calls'[n].part = "count" THEN "counting" ELSE "paging"
               /\ calls'[n].part = "page" => Wanted[calls'[n].of] # CountOnly
    <3>1. CASE n \in 1..Len(calls) /\ calls'[n] = calls[n]
      BY <1>0, <1>a, <2>2, <2>3, <3>1 DEF CallsInv
    <3>2. CASE calls'[n] = c
      BY <1>0, <2>3, <2>5, <3>2
    <3> QED BY <2>4, <3>1, <3>2
  <2>7. \A m, n \in 1..Len(calls') : calls'[m].of = calls'[n].of => m = n
    BY <2>2, <2>4, <2>5 DEF CallsInv
  <2> QED BY <2>6, <2>7 DEF CallsInv
<1>2. ASSUME NEW r \in Request, NEW next, NEW part \in {"count", "page"}, Turn(r, part),
             calls' = Tail(calls), state' = [state EXCEPT ![r] = next]
      PROVE CallsInv'
  <2>1. calls[1].of = r /\ 1 \in 1..Len(calls) /\ calls # << >>
    BY <1>2, TurnFacts
  <2>2. \A n \in 1..Len(calls') : calls'[n] = calls[n + 1] /\ n + 1 \in 1..Len(calls) /\ n + 1 # 1
    BY <1>0, <1>2, <2>1, CallsTail
  <2>3. \A n \in 1..Len(calls') : calls'[n].of # r
    BY <2>1, <2>2 DEF CallsInv
  <2>4. ASSUME NEW n \in 1..Len(calls')
        PROVE  /\ state'[calls'[n].of] = IF calls'[n].part = "count" THEN "counting" ELSE "paging"
               /\ calls'[n].part = "page" => Wanted[calls'[n].of] # CountOnly
    BY <1>0, <1>a, <1>2, <2>2, <2>3 DEF CallsInv
  <2>5. \A m, n \in 1..Len(calls') : calls'[m].of = calls'[n].of => m = n
    BY <2>2 DEF CallsInv
  <2> QED BY <2>4, <2>5 DEF CallsInv
<1>3. ASSUME NEW r \in Request, Count(r) PROVE CallsInv'
  <2> DEFINE c == [of |-> r, part |-> "page", sql |-> sql, args |-> args]
  <2>0. Turn(r, "count")
    BY <1>3 DEF Count, CountFor
  <2>1. CASE Wanted[r] = CountOnly
    BY <1>2, <1>3, <2>0, <2>1 DEF Count, CountFor
  <2>2. CASE Wanted[r] # CountOnly
    <3>1. calls' = Append(Tail(calls), c) /\ state' = [state EXCEPT ![r] = "paging"]
      BY <1>3, <2>2 DEF Count, CountFor
    <3>2. calls[1].of = r /\ 1 \in 1..Len(calls) /\ calls # << >>
      BY <2>0, TurnFacts
    <3>3. c \in Calls /\ Tail(calls) \in Seq(Calls) /\ Len(Tail(calls)) \in Nat
      BY <1>0, <3>2, CallsTail DEF Calls, ItemTypeOK
    <3>4. \A n \in 1..Len(calls') :
            \/ n \in 1..Len(Tail(calls)) /\ calls'[n] = Tail(calls)[n]
            \/ n = Len(Tail(calls)) + 1 /\ calls'[n] = c
      BY <3>1, <3>3, QueueGrown
    <3>5. \A n \in 1..Len(Tail(calls)) :
            Tail(calls)[n] = calls[n + 1] /\ n + 1 \in 1..Len(calls) /\ n + 1 # 1
      BY <1>0, <3>2, CallsTail
    <3>6. \A n \in 1..Len(calls') :
            \/ calls'[n] = calls[n + 1] /\ n + 1 \in 1..Len(calls) /\ n + 1 # 1
            \/ n = Len(Tail(calls)) + 1 /\ calls'[n] = c
      BY <3>4, <3>5
    <3>7. \A n \in 1..Len(calls) : n # 1 => calls[n].of # r
      BY <3>2 DEF CallsInv
    <3>8. c.of = r /\ c.part = "page" /\ "page" # "count"
      OBVIOUS
    <3> HIDE DEF c
    <3>9. ASSUME NEW n \in 1..Len(calls')
          PROVE  /\ state'[calls'[n].of] = IF calls'[n].part = "count" THEN "counting" ELSE "paging"
                 /\ calls'[n].part = "page" => Wanted[calls'[n].of] # CountOnly
      <4>1. CASE calls'[n] = calls[n + 1] /\ n + 1 \in 1..Len(calls) /\ n + 1 # 1
        BY <1>0, <1>a, <3>1, <3>7, <4>1 DEF CallsInv
      <4>2. CASE calls'[n] = c
        BY <1>0, <2>2, <3>1, <3>8, <4>2
      <4> QED BY <3>6, <4>1, <4>2
    <3>10. \A m, n \in 1..Len(calls') : calls'[m].of = calls'[n].of => m = n
      BY <3>6, <3>7, <3>8 DEF CallsInv
    <3> QED BY <3>9, <3>10 DEF CallsInv
  <2> QED BY <2>1, <2>2
<1>4. ASSUME NEW r \in Request, Fetch(r) PROVE CallsInv'
  <2>1. Turn(r, "page") /\ calls' = Tail(calls) /\ state' = [state EXCEPT ![r] = "answered"]
    BY <1>4 DEF Fetch, PageOf
  <2> QED BY <1>2, <2>1
<1>5. ASSUME NEW r \in Request, Fail(r) PROVE CallsInv'
  <2>1. /\ Turn(r, "count") \/ Turn(r, "page")
        /\ calls' = Tail(calls) /\ state' = [state EXCEPT ![r] = "failed"]
    BY <1>5 DEF Fail
  <2> QED BY <1>2, <2>1
<1>6. ASSUME calls' = calls, state' = state PROVE CallsInv'
  BY <1>6 DEF CallsInv
<1>7. ASSUME (\E q \in Query : SetQuery(q)) \/ Write \/ UNCHANGED itemVars PROVE CallsInv'
  BY <1>6, <1>7, Zenon DEF SetQuery, Write, itemVars
<1> QED BY <1>1, <1>3, <1>4, <1>5, <1>7 DEF ItemNext

\* What is in the queue after a step was there before, or is a new call with
\* the SQL and the arguments that the adapter has now.
LEMMA QueueStep ==
  ASSUME ItemTypeOK, [ItemNext]_itemVars, NEW n \in 1..Len(calls')
  PROVE  \/ \E m \in 1..Len(calls) : calls'[n] = calls[m]
         \/ calls'[n].sql = sql /\ calls'[n].args = args /\ sql' = sql /\ args' = args
<1>0. calls \in Seq(Calls) /\ sql \in Sql /\ args \in Args
  BY DEF ItemTypeOK, Calls
<1>1. ASSUME NEW c \in Calls, c.sql = sql, c.args = args, sql' = sql, args' = args, calls' = Append(calls, c)
      PROVE  \/ \E m \in 1..Len(calls) : calls'[n] = calls[m]
             \/ calls'[n].sql = sql /\ calls'[n].args = args /\ sql' = sql /\ args' = args
  BY <1>0, <1>1, QueueGrown
<1>2. ASSUME NEW c \in Calls, c.sql = sql, c.args = args, sql' = sql, args' = args,
             calls # << >>, calls' = Append(Tail(calls), c)
      PROVE  \/ \E m \in 1..Len(calls) : calls'[n] = calls[m]
             \/ calls'[n].sql = sql /\ calls'[n].args = args /\ sql' = sql /\ args' = args
  BY <1>0, <1>2, CallsTail, QueueGrown
<1>3. ASSUME calls # << >>, calls' = Tail(calls)
      PROVE  \E m \in 1..Len(calls) : calls'[n] = calls[m]
  BY <1>0, <1>3, CallsTail
<1>4. ASSUME NEW r \in Request, Ask(r)
      PROVE  \/ \E m \in 1..Len(calls) : calls'[n] = calls[m]
             \/ calls'[n].sql = sql /\ calls'[n].args = args /\ sql' = sql /\ args' = args
  BY <1>0, <1>1, <1>4 DEF Ask, Calls
<1>5. ASSUME NEW r \in Request, Count(r)
      PROVE  \/ \E m \in 1..Len(calls) : calls'[n] = calls[m]
             \/ calls'[n].sql = sql /\ calls'[n].args = args /\ sql' = sql /\ args' = args
  <2>1. CASE Wanted[r] = CountOnly
    BY <1>3, <1>5, <2>1 DEF Count, CountFor, Turn
  <2>2. CASE Wanted[r] # CountOnly
    BY <1>0, <1>2, <1>5, <2>2 DEF Count, CountFor, Turn, Calls
  <2> QED BY <2>1, <2>2
<1>6. ASSUME NEW r \in Request, Fetch(r) \/ Fail(r)
      PROVE  \E m \in 1..Len(calls) : calls'[n] = calls[m]
  BY <1>3, <1>6 DEF Fetch, PageOf, Fail, Turn
<1>7. ASSUME (\E q \in Query : SetQuery(q)) \/ Write \/ UNCHANGED itemVars
      PROVE  \E m \in 1..Len(calls) : calls'[n] = calls[m]
  <2>1. calls' = calls
    BY <1>7, Zenon DEF SetQuery, Write, itemVars
  <2> QED BY <2>1
<1> QED BY <1>4, <1>5, <1>6, <1>7 DEF ItemNext

\* Every step keeps the two parts of a query together.
LEMMA QueryStep ==
  ASSUME ItemTypeOK, QueryInv, [ItemNext]_itemVars
  PROVE  QueryInv'
<1>1. [sql |-> sql, args |-> args]' \in Query
  <2>1. CASE UNCHANGED <<sql, args>>
    BY <2>1 DEF QueryInv
  <2>2. CASE \E q \in Query : SetQuery(q)
    BY <2>2, ItemAssumption DEF SetQuery
  <2> QED BY <2>1, <2>2 DEF ItemNext, Ask, Count, CountFor, Fetch, PageOf, Fail, Write, itemVars
<1>2. ASSUME NEW n \in 1..Len(calls')
      PROVE  [sql |-> calls'[n].sql, args |-> calls'[n].args] \in Query
  BY <1>2, QueueStep DEF QueryInv, QueryWhole
<1> QED BY <1>1, <1>2 DEF QueryInv, QueryWhole

\* Every step that leaves the SQL and the rows alone keeps what is not
\* disturbed, and every other step disturbs what is under way.
LEMMA FreshStep ==
  ASSUME ItemTypeOK, CallsInv, FreshInv, [ItemNext]_itemVars
  PROVE  FreshInv'
<1>0. /\ state \in [Request -> {"idle", "counting", "paging", "answered", "failed"}]
      /\ counted \in [Request -> Size \cup {Unknown}]
      /\ \A n \in 1..Len(calls) : calls[n].of \in Request
  BY CallFacts DEF ItemTypeOK, Calls
<1>1. ASSUME disturbed' = disturbed \cup UnderWay, calls' = calls, state' = state, counted' = counted
      PROVE FreshInv'
  <2>1. \A n \in 1..Len(calls) : calls[n].of \in UnderWay
    BY <1>0 DEF CallsInv, UnderWay
  <2>2. \A r \in Request : state[r] = "paging" => r \in UnderWay
    BY DEF UnderWay
  <2> QED BY <1>1, <2>1, <2>2 DEF FreshInv
<1>2. ASSUME sql' = sql, content' = content, disturbed' = disturbed,
             \A r \in Request : state'[r] = "paging" =>
               \/ state[r] = "paging" /\ counted'[r] = counted[r]
               \/ r \notin disturbed => counted'[r] = content[sql]
      PROVE FreshInv'
  <2>1. ASSUME NEW n \in 1..Len(calls'), calls'[n].of \notin disturbed PROVE calls'[n].sql = sql
    BY <1>2, <2>1, QueueStep DEF FreshInv
  <2>2. ASSUME NEW r \in Request \ disturbed, state'[r] = "paging" PROVE counted'[r] = content[sql]
    BY <1>2, <2>2 DEF FreshInv
  <2> QED BY <1>2, <2>1, <2>2 DEF FreshInv
<1>3. ASSUME NEW r \in Request, Count(r) PROVE FreshInv'
  <2>1. /\ Turn(r, "count") /\ counted' = [counted EXCEPT ![r] = content[Head(calls).sql]]
        /\ UNCHANGED <<sql, content, disturbed>>
        /\ \A q \in Request \ {r} : state'[q] = state[q]
    BY <1>0, <1>3 DEF Count, CountFor
  <2>2. Head(calls).of = r /\ Head(calls) = calls[1] /\ 1 \in 1..Len(calls)
    BY <2>1, TurnFacts
  <2>3. r \notin disturbed => Head(calls).sql = sql
    BY <2>2 DEF FreshInv
  <2>4. counted'[r] = content[Head(calls).sql] /\ \A q \in Request \ {r} : counted'[q] = counted[q]
    BY <1>0, <2>1
  <2> QED BY <1>2, <2>1, <2>3, <2>4
<1>4. ASSUME NEW r \in Request, NEW next \in {"counting", "answered", "failed"},
             UNCHANGED <<sql, content, counted, disturbed>>, state' = [state EXCEPT ![r] = next]
      PROVE FreshInv'
  BY <1>0, <1>2, <1>4
<1>5. ASSUME NEW r \in Request, Ask(r) \/ Fetch(r) \/ Fail(r) PROVE FreshInv'
  BY <1>4, <1>5 DEF Ask, Fetch, PageOf, Fail
<1>6. ASSUME (\E q \in Query : SetQuery(q)) \/ Write PROVE FreshInv'
  BY <1>1, <1>6, Zenon DEF SetQuery, Write
<1>7. ASSUME UNCHANGED itemVars PROVE FreshInv'
  BY <1>2, <1>7 DEF itemVars
<1> QED BY <1>3, <1>5, <1>6, <1>7 DEF ItemNext

\* Every step keeps the answers in agreement.
LEMMA AgreeStep ==
  ASSUME ItemTypeOK, CallsInv, FreshInv, CountAndPageAgree, [ItemNext]_itemVars
  PROVE  CountAndPageAgree'
<1>0. /\ state \in [Request -> {"idle", "counting", "paging", "answered", "failed"}]
      /\ counted \in [Request -> Size \cup {Unknown}] /\ page \in [Request -> Page \cup {Unknown}]
  BY DEF ItemTypeOK
<1>1. ASSUME NEW r \in Request, disturbed \subseteq disturbed',
             \A q \in Request \ {r} : /\ state'[q] = "answered" => state[q] = "answered"
                                      /\ state[q] = "answered" => counted'[q] = counted[q] /\ page'[q] = page[q],
             r \in disturbed' \/ state'[r] # "answered" \/ Wanted[r] = CountOnly
      PROVE CountAndPageAgree'
  BY <1>1 DEF CountAndPageAgree
<1>2. ASSUME NEW r \in Request, Ask(r) \/ Count(r) \/ Fail(r) PROVE CountAndPageAgree'
  <2>1. /\ disturbed' = disturbed
        /\ \A q \in Request \ {r} : state'[q] = state[q] /\ counted'[q] = counted[q] /\ page'[q] = page[q]
        /\ state'[r] # "answered" \/ Wanted[r] = CountOnly
    BY <1>0, <1>2 DEF Ask, Count, CountFor, Fail
  <2> QED BY <1>1, <2>1
<1>3. ASSUME NEW r \in Request, Fetch(r) PROVE CountAndPageAgree'
  <2> DEFINE w == Wanted[r]
             size == content[Head(calls).sql]
             rest == IF size > w.index - w.before THEN size - (w.index - w.before) ELSE 0
             length == IF rest < w.before + 1 + w.after THEN rest ELSE w.before + 1 + w.after
  <2>1. /\ Turn(r, "page") /\ page' = [page EXCEPT ![r] = [offset |-> w.index - w.before, length |-> length]]
        /\ state' = [state EXCEPT ![r] = "answered"] /\ counted' = counted /\ disturbed' = disturbed
    BY <1>3, FetchFacts DEF Fetch, PageOf
  <2>2. /\ state[r] = "paging" /\ Head(calls).of = r /\ Head(calls) = calls[1] /\ 1 \in 1..Len(calls)
        /\ Head(calls) \in Calls
        /\ w \in [index : Nat, before : Nat, after : Nat] /\ w.before <= w.index
    BY <2>1, TurnFacts
  <2>3. size \in Nat
    BY <2>2, ItemAssumption DEF Calls, ItemTypeOK
  <2>4. r \notin disturbed => counted[r] = size
    BY <2>2 DEF FreshInv
  <2>5. /\ w.index - w.before + w.before = w.index
        /\ length > w.before <=> w.index < size
        /\ length > 0 => w.index - w.before + length <= size
    BY <2>2, <2>3, PageFacts
  <2>6. page'[r].offset = w.index - w.before /\ page'[r].length = length
    BY <1>0, <2>1
  <2> HIDE DEF w, size, length
  <2>7. ASSUME NEW q \in Request \ disturbed', state'[q] = "answered", Wanted[q] # CountOnly
        PROVE  /\ page'[q].offset + Wanted[q].before = Wanted[q].index
               /\ page'[q].length > Wanted[q].before <=> Wanted[q].index < counted'[q]
               /\ page'[q].length > 0 => page'[q].offset + page'[q].length <= counted'[q]
    <3>1. CASE q = r
      BY <2>1, <2>4, <2>5, <2>6, <2>7, <3>1 DEF w
    <3>2. CASE q # r
      <4>1. state[q] = "answered" /\ page'[q] = page[q] /\ counted'[q] = counted[q] /\ q \notin disturbed
        BY <1>0, <2>1, <2>7, <3>2
      <4> QED BY <2>7, <4>1 DEF CountAndPageAgree
    <3> QED BY <3>1, <3>2
  <2> QED BY <2>7 DEF CountAndPageAgree
<1>4. ASSUME (\E q \in Query : SetQuery(q)) \/ Write \/ UNCHANGED itemVars PROVE CountAndPageAgree'
  <2>1. /\ UNCHANGED <<state, counted, page>>
        /\ disturbed' = disturbed \cup UnderWay \/ disturbed' = disturbed
    BY <1>4, Zenon DEF SetQuery, Write, itemVars
  <2> QED BY <2>1 DEF CountAndPageAgree
<1> QED BY <1>2, <1>3, <1>4 DEF ItemNext

-----------------------------------------------------------------------------
\* The invariant holds at first, when there is no call and no answer.
LEMMA ItemInitially == ItemInit => ItemTypeOK /\ ItemInv
<1> SUFFICES ASSUME ItemInit PROVE ItemTypeOK /\ ItemInv
  OBVIOUS
<1>1. ItemTypeOK
  BY ItemAssumption DEF ItemInit, ItemTypeOK, Sql, Args
<1>2. [sql |-> sql, args |-> args] \in Query
  BY ItemAssumption DEF ItemInit
<1>3. calls = << >> /\ Len(calls) = 0 /\ \A r \in Request : state[r] = "idle"
  BY DEF ItemInit
<1> QED BY <1>1, <1>2, <1>3 DEF ItemInv, CallsInv, QueryInv, QueryWhole, FreshInv, CountAndPageAgree

\* Every reachable state satisfies it.
THEOREM ItemInvariant == ItemSpec => [](ItemTypeOK /\ ItemInv)
<1>1. ItemTypeOK /\ ItemInv /\ [ItemNext]_itemVars => (ItemTypeOK /\ ItemInv)'
  BY ItemTypeStep, CallsStep, QueryStep, FreshStep, AgreeStep DEF ItemInv
<1> QED BY <1>1, ItemInitially, PTL DEF ItemSpec

\* Every state is of the type of itemVars.
THEOREM ItemType == ItemSpec => []ItemTypeOK
  BY ItemInvariant, PTL

\* No call carries the SQL of one query and the arguments of another.
THEOREM ItemQueryWhole == ItemSpec => []QueryWhole
<1>1. ItemInv => QueryWhole
  BY DEF ItemInv, QueryInv
<1> QED BY <1>1, ItemInvariant, PTL

\* Count and page of an undisturbed answer belong together.
THEOREM ItemCountAndPageAgree == ItemSpec => []CountAndPageAgree
<1>1. ItemInv => CountAndPageAgree
  BY DEF ItemInv
<1> QED BY <1>1, ItemInvariant, PTL
=============================================================================
