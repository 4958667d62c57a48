-------------------------- MODULE GroupSourceProofs --------------------------
(***************************************************************************)
(* Proofs about GroupSource, for any table, any number of requests and any *)
(* order of their loads.                                                   *)
(***************************************************************************)
EXTENDS GroupSource, SequenceTheorems, TLAPS

\* Every table is a finite list of rows with different keys.
LEMMA TableFacts ==
  ASSUME NEW t \in Table
  PROVE  /\ t \in Seq([key : Key, size : Nat])
         /\ Len(t) \in Nat
         /\ \A n \in 1..Len(t) : t[n] \in [key : Key, size : Nat]
         /\ \A m, n \in 1..Len(t) : t[m].key = t[n].key => m = n
<1>1. t \in Seq([key : Key, size : Nat])
  BY GroupAssumption
<1>2. Len(t) \in Nat /\ \A n \in 1..Len(t) : t[n] \in [key : Key, size : Nat]
  <2>1. Len(t) \in Nat
    BY <1>1
  <2>2. ASSUME NEW n \in 1..Len(t) PROVE t[n] \in [key : Key, size : Nat]
    BY <1>1, ElementOfSeq
  <2> QED BY <2>1, <2>2
<1>3. \A m, n \in 1..Len(t) : t[m].key = t[n].key => m = n
  BY GroupAssumption
<1> QED BY <1>1, <1>2, <1>3

\* The row that a load maps next.
LEMMA RowFacts ==
  ASSUME GroupTypeOK, groupIndex < Len(rows)
  PROVE  /\ groupIndex + 1 \in 1..Len(rows)
         /\ rows[groupIndex + 1].key \in Key
         /\ rows[groupIndex + 1].size \in Nat
<1>1. rows \in Table /\ groupIndex \in Nat
  BY DEF GroupTypeOK
<1>2. Len(rows) \in Nat
  BY <1>1, TableFacts
<1>3. groupIndex + 1 \in 1..Len(rows)
  BY <1>1, <1>2
<1>4. rows[groupIndex + 1] \in [key : Key, size : Nat]
  BY <1>1, <1>3, TableFacts
<1> QED BY <1>3, <1>4

\* An answer is of the type of answers.
LEMMA AnswerType ==
  ASSUME GroupTypeOK, NEW r \in Request, NEW from \in Seq(Item), Answer(r, from)
  PROVE  /\ state' \in [Request -> {"idle", "queued", "loading", "answered", "failed"}]
         /\ answer' \in [Request -> [offset : Nat \cup {Absent}, items : Seq(Item)] \cup {Absent}]
<1>1. Sought[r] \in Key \cup {Absent}
  BY GroupAssumption
<1>2. (IF Sought[r] = Absent THEN Absent ELSE keyIndexMap[Sought[r]]) \in Nat \cup {Absent}
  BY <1>1 DEF GroupTypeOK
<1> QED BY <1>2 DEF Answer, GroupTypeOK

\* Every state is of the type of groupVars.
THEOREM GroupType == GroupSpec => []GroupTypeOK
<1>1. ASSUME GroupInit PROVE GroupTypeOK
  <2>1. steady \in BOOLEAN
    BY <1>1, Zenon DEF GroupInit
  <2> QED BY <1>1, <2>1 DEF GroupInit, GroupTypeOK
<1>2. ASSUME GroupTypeOK, [GroupNext]_groupVars PROVE GroupTypeOK'
  <2> USE <1>2
  <2>1. ASSUME NEW r \in Request, AskLoaded(r) PROVE GroupTypeOK'
    <3>1. groups \in Seq(Item) /\ Answer(r, groups)
      BY <2>1 DEF AskLoaded, GroupTypeOK
    <3> QED BY <2>1, <3>1, AnswerType DEF AskLoaded, GroupTypeOK, loadVars
  <2>2. ASSUME NEW r \in Request, AskUnloaded(r) PROVE GroupTypeOK'
    BY <2>2 DEF AskUnloaded, GroupTypeOK
  <2>3. ASSUME StartLoad PROVE GroupTypeOK'
    BY <2>3 DEF StartLoad, StartWith, GroupTypeOK
  <2>4. ASSUME LoadRow PROVE GroupTypeOK'
    <3> DEFINE row == rows[groupIndex + 1]
               item == [key |-> row.key, size |-> row.size, first |-> firstItemIndex]
    <3>1. row.key \in Key /\ row.size \in Nat
      BY <2>4, RowFacts DEF LoadRow, MapRow
    <3>2. item \in Item
      BY <3>1 DEF Item, GroupTypeOK
    <3>3. full' \in Seq(Item)
      BY <2>4, <3>2 DEF LoadRow, MapRow, GroupTypeOK
    <3>4. firstItemIndex' \in Nat /\ groupIndex' \in Nat
      BY <2>4, <3>1 DEF LoadRow, MapRow, GroupTypeOK
    <3>5. keyIndexMap' \in [Key -> Nat \cup {Absent}]
      BY <2>4, <3>1 DEF LoadRow, MapRow, GroupTypeOK
    <3> QED BY <2>4, <3>3, <3>4, <3>5 DEF LoadRow, MapRow, GroupTypeOK
  <2>5. ASSUME FinishLoad PROVE GroupTypeOK'
    <3>1. Head(loads) \in Request /\ Tail(loads) \in Seq(Request)
      BY <2>5 DEF FinishLoad, FillFrom, Running, GroupTypeOK
    <3>2. full \in Seq(Item) /\ Answer(Head(loads), full)
      BY <2>5 DEF FinishLoad, FillFrom, GroupTypeOK
    <3> QED BY <2>5, <3>1, <3>2, AnswerType DEF FinishLoad, FillFrom, GroupTypeOK
  <2>6. ASSUME FailLoad PROVE GroupTypeOK'
    BY <2>6 DEF FailLoad, Running, GroupTypeOK
  <2>7. ASSUME ChangeTable PROVE GroupTypeOK'
    <3>1. steady' \in BOOLEAN
      BY <2>7, Zenon DEF ChangeTable
    <3> QED BY <2>7, <3>1 DEF ChangeTable, GroupTypeOK, loadVars
  <2>8. ASSUME UNCHANGED groupVars PROVE GroupTypeOK'
    BY <2>8 DEF groupVars, GroupTypeOK
  <2> QED BY <2>1, <2>2, <2>3, <2>4, <2>5, <2>6, <2>7, <2>8 DEF GroupNext
<1> QED BY <1>1, <1>2, PTL DEF GroupSpec
-----------------------------------------------------------------------------
\* Where the next group begins after gs.
NextFirst(gs) == IF gs = << >> THEN 0 ELSE gs[Len(gs)].first + gs[Len(gs)].size

\* What the variables of a load hold between its rows.
LoadInv ==
  /\ groupIndex <= Len(rows)
  /\ StartsWhereLastEnds(full)
  /\ firstItemIndex = NextFirst(full)
  /\ GroupsAmong(full, rows, groupIndex)

\* Appending an item to a list of items.
LEMMA ItemAppended ==
  ASSUME NEW gs \in Seq(Item), NEW item \in Item
  PROVE  /\ Append(gs, item) \in Seq(Item)
         /\ Len(gs) \in Nat
         /\ Len(Append(gs, item)) = Len(gs) + 1
         /\ \A n \in 1..Len(gs) : Append(gs, item)[n] = gs[n]
         /\ Append(gs, item)[Len(gs) + 1] = item
         /\ gs = << >> <=> Len(gs) = 0
         /\ Append(gs, item) # << >>
  BY AppendProperties, LenProperties, EmptySeq

\* A row with items is appended where the last group ends.
LEMMA AppendedStarts ==
  ASSUME NEW gs \in Seq(Item), NEW item \in Item,
         StartsWhereLastEnds(gs), item.first = NextFirst(gs)
  PROVE  /\ StartsWhereLastEnds(Append(gs, item))
         /\ NextFirst(Append(gs, item)) = item.first + item.size
<1> DEFINE all == Append(gs, item)
<1>1. NextFirst(all) = item.first + item.size
  BY ItemAppended DEF NextFirst
<1>2. ASSUME NEW n \in 1..Len(all)
      PROVE  all[n].first = IF n = 1 THEN 0 ELSE all[n - 1].first + all[n - 1].size
  <2>1. CASE n \in 1..Len(gs)
    <3>1. n # 1 => n - 1 \in 1..Len(gs)
      BY <2>1, ItemAppended
    <3>2. gs[n].first = IF n = 1 THEN 0 ELSE gs[n - 1].first + gs[n - 1].size
      BY <2>1 DEF StartsWhereLastEnds
    <3>3. all[n] = gs[n] /\ (n # 1 => all[n - 1] = gs[n - 1])
      BY <2>1, <3>1, ItemAppended
    <3> QED BY <3>2, <3>3
  <2>2. CASE n = Len(gs) + 1
    <3>1. all[n] = item
      BY <2>2, ItemAppended
    <3>2. CASE gs = << >>
      BY <2>2, <3>1, <3>2, ItemAppended DEF NextFirst
    <3>3. CASE gs # << >>
      <4>1. n - 1 = Len(gs) /\ n # 1 /\ Len(gs) \in 1..Len(gs)
        BY <2>2, <3>3, ItemAppended
      <4>2. all[n - 1] = gs[Len(gs)]
        BY <4>1, ItemAppended
      <4> QED BY <3>1, <3>3, <4>1, <4>2 DEF NextFirst
    <3> QED BY <3>2, <3>3
  <2> QED BY <2>1, <2>2, ItemAppended
<1> QED BY <1>1, <1>2 DEF StartsWhereLastEnds

\* One row more, kept if it has items, keeps the groups those among the rows.
LEMMA AmongOneMore ==
  ASSUME NEW gs \in Seq(Item), NEW t \in Table, NEW m \in Nat, m < Len(t),
         NEW item \in Item, item.key = t[m + 1].key, item.size = t[m + 1].size,
         GroupsAmong(gs, t, m)
  PROVE  GroupsAmong(IF t[m + 1].size > 0 THEN Append(gs, item) ELSE gs, t, m + 1)
<1>0. Len(t) \in Nat /\ t[m + 1].size \in Nat
  BY TableFacts
<1>1. 1..m + 1 = 1..m \cup {m + 1}
  OBVIOUS
<1>2. CASE t[m + 1].size > 0
  <2> DEFINE all == Append(gs, item)
  <2>1. 1..Len(all) = 1..Len(gs) \cup {Len(gs) + 1}
    BY ItemAppended
  <2>2. ASSUME NEW n \in 1..Len(all)
        PROVE  \E j \in 1..m + 1 : t[j].key = all[n].key /\ t[j].size = all[n].size /\ t[j].size > 0
    <3>1. CASE n \in 1..Len(gs)
      <4>1. all[n] = gs[n]
        BY <3>1, ItemAppended
      <4>2. \E j \in 1..m : t[j].key = gs[n].key /\ t[j].size = gs[n].size /\ t[j].size > 0
        BY <3>1 DEF GroupsAmong
      <4> QED BY <1>1, <4>1, <4>2
    <3>2. CASE n = Len(gs) + 1
      BY <1>1, <1>2, <3>2, ItemAppended
    <3> QED BY <2>1, <3>1, <3>2
  <2>3. ASSUME NEW j \in 1..m + 1, t[j].size > 0
        PROVE  \E n \in 1..Len(all) : all[n].key = t[j].key /\ all[n].size = t[j].size
    <3>1. CASE j \in 1..m
      <4>1. PICK n \in 1..Len(gs) : gs[n].key = t[j].key /\ gs[n].size = t[j].size
        BY <2>3, <3>1 DEF GroupsAmong
      <4> QED BY <2>1, <4>1, ItemAppended
    <3>2. CASE j = m + 1
      BY <2>1, <3>2, ItemAppended
    <3> QED BY <1>1, <3>1, <3>2
  <2> QED BY <1>2, <2>2, <2>3 DEF GroupsAmong
<1>3. CASE ~(t[m + 1].size > 0)
  BY <1>1, <1>3 DEF GroupsAmong
<1> QED BY <1>2, <1>3

\* No step breaks the invariant of the load and of the groups it fills.
LEMMA LoadInductive ==
  ASSUME GroupTypeOK, LoadInv, HintsAddUp, GroupsOfOneQuery, [GroupNext]_groupVars
  PROVE  LoadInv' /\ HintsAddUp' /\ GroupsOfOneQuery'
<1> USE DEF LoadInv, HintsAddUp, GroupsOfOneQuery
<1>1. ASSUME UNCHANGED <<rows, full, groupIndex, firstItemIndex, groups, origin>>
      PROVE  LoadInv' /\ HintsAddUp' /\ GroupsOfOneQuery'
  BY <1>1 DEF StartsWhereLastEnds, GroupsAmong, NextFirst
<1>2. ASSUME StartLoad PROVE LoadInv' /\ HintsAddUp' /\ GroupsOfOneQuery'
  <2>1. Len(table) \in Nat
    BY TableFacts DEF GroupTypeOK
  <2>2. /\ rows' = table /\ full' = << >> /\ groupIndex' = 0 /\ firstItemIndex' = 0
        /\ groups' = groups /\ origin' = origin
    BY <1>2 DEF StartLoad, StartWith
  <2>3. LoadInv'
    BY <2>1, <2>2 DEF StartsWhereLastEnds, GroupsAmong, NextFirst
  <2> QED BY <2>2, <2>3 DEF StartsWhereLastEnds, GroupsAmong
<1>3. ASSUME LoadRow PROVE LoadInv' /\ HintsAddUp' /\ GroupsOfOneQuery'
  <2> DEFINE row == rows[groupIndex + 1]
             item == [key |-> row.key, size |-> row.size, first |-> firstItemIndex]
  <2>1. /\ groupIndex < Len(rows)
        /\ full' = IF row.size > 0 THEN Append(full, item) ELSE full
        /\ firstItemIndex' = firstItemIndex + row.size
        /\ groupIndex' = groupIndex + 1
        /\ rows' = rows /\ groups' = groups /\ origin' = origin
    BY <1>3 DEF LoadRow, MapRow
  <2>2. /\ rows \in Table /\ groupIndex \in Nat /\ full \in Seq(Item) /\ Len(rows) \in Nat
        /\ row.key \in Key /\ row.size \in Nat /\ firstItemIndex \in Nat
    BY <2>1, RowFacts, TableFacts DEF GroupTypeOK
  <2>3. item \in Item
    BY <2>2 DEF Item
  <2>4. GroupsAmong(full', rows', groupIndex')
    BY <2>1, <2>2, <2>3, AmongOneMore
  <2>5. StartsWhereLastEnds(full') /\ firstItemIndex' = NextFirst(full')
    <3>1. CASE row.size > 0
      BY <2>1, <2>2, <2>3, <3>1, AppendedStarts
    <3>2. CASE row.size = 0
      BY <2>1, <2>2, <3>2
    <3> QED BY <2>2, <3>1, <3>2
  <2>6. groupIndex' <= Len(rows')
    BY <2>1, <2>2
  <2>7. LoadInv'
    BY <2>4, <2>5, <2>6 DEF StartsWhereLastEnds, GroupsAmong, NextFirst
  <2>8. groups' = groups /\ origin' = origin
    BY <2>1
  <2>9. HintsAddUp' /\ GroupsOfOneQuery'
    BY <2>8 DEF StartsWhereLastEnds, GroupsAmong
  <2> QED BY <2>7, <2>9
<1>4. ASSUME FinishLoad PROVE LoadInv' /\ HintsAddUp' /\ GroupsOfOneQuery'
  <2>1. /\ groupIndex = Len(rows) /\ groups' = full /\ origin' = rows
        /\ UNCHANGED <<rows, full, groupIndex, firstItemIndex>>
    BY <1>4 DEF FinishLoad, FillFrom
  <2> QED BY <2>1 DEF StartsWhereLastEnds, GroupsAmong, NextFirst
<1>5. ASSUME NEW r \in Request, AskLoaded(r) \/ AskUnloaded(r)
      PROVE LoadInv' /\ HintsAddUp' /\ GroupsOfOneQuery'
  BY <1>1, <1>5, Zenon DEF AskLoaded, AskUnloaded, loadVars
<1>6. ASSUME FailLoad \/ ChangeTable PROVE LoadInv' /\ HintsAddUp' /\ GroupsOfOneQuery'
  BY <1>1, <1>6, Zenon DEF FailLoad, ChangeTable, loadVars
<1>7. ASSUME UNCHANGED groupVars PROVE LoadInv' /\ HintsAddUp' /\ GroupsOfOneQuery'
  BY <1>1, <1>7, Zenon DEF groupVars
<1> QED BY <1>2, <1>3, <1>4, <1>5, <1>6, <1>7 DEF GroupNext

\* A load that has not begun, and groups that are not there.
LEMMA LoadInitially == GroupInit => LoadInv /\ HintsAddUp /\ GroupsOfOneQuery
<1> SUFFICES ASSUME GroupInit PROVE LoadInv /\ HintsAddUp /\ GroupsOfOneQuery
  OBVIOUS
<1>1. Len(rows) \in Nat
  BY TableFacts DEF GroupInit
<1> QED BY <1>1 DEF GroupInit, LoadInv, HintsAddUp, GroupsOfOneQuery,
                     StartsWhereLastEnds, GroupsAmong, NextFirst

\* The hints of the groups add up, however many loads have run.
THEOREM GroupHintsAddUp == GroupSpec => []HintsAddUp
  BY GroupType, LoadInitially, LoadInductive, PTL DEF GroupSpec

\* The groups are those with items of one result of the query.
THEOREM GroupGroupsOfOneQuery == GroupSpec => []GroupsOfOneQuery
  BY GroupType, LoadInitially, LoadInductive, PTL DEF GroupSpec

-----------------------------------------------------------------------------
\* No group of t is empty.
AllFull(t) == \A n \in 1..Len(t) : t[n].size > 0

\* gs has the keys of the first m rows of t, in their order.
SameKeys(gs, t, m) == Len(gs) = m /\ \A n \in 1..m : gs[n].key = t[n].key

\* The map has the positions of the first m rows of t.
Mapped(t, m) == \A n \in 1..m : keyIndexMap[t[n].key] = n - 1

\* What makes a key lead to its group: the map agrees with the rows of the load,
\* a load that runs while the table does not change reads that table, and then
\* the groups and the whole map are of the table too.
KeyInv ==
  /\ Mapped(rows, groupIndex)
  /\ AllFull(rows) => SameKeys(full, rows, groupIndex)
  /\ groups # Absent => /\ AllFull(origin) => SameKeys(groups, origin, Len(origin))
                        /\ \E r \in Request : state[r] # "idle"
                        /\ steady => origin = table /\ Mapped(table, Len(table))
  /\ steady => \A r \in Request : state[r] = "loading" => rows = table

\* An answer from groups and a map that agree with the table leads to the group.
LEMMA AnswerLeads ==
  ASSUME GroupTypeOK, NEW r \in Request, NEW from \in Seq(Item), Answer(r, from),
         NEW t \in Table, SameKeys(from, t, Len(t)), Mapped(t, Len(t)),
         Sought[r] # Absent, \E n \in 1..Len(t) : t[n].key = Sought[r]
  PROVE  LeadsToGroup(r)'
<1>1. PICK n \in 1..Len(t) : t[n].key = Sought[r]
  OBVIOUS
<1>2. Len(t) \in Nat
  BY TableFacts
<1>3. answer'[r] = [offset |-> n - 1, items |-> from]
  BY <1>1 DEF Answer, Mapped, GroupTypeOK
<1>4. n - 1 # Absent /\ n - 1 + 1 = n
  BY <1>1, <1>2, GroupAssumption
<1>5. Len(from) = Len(t) /\ from[n].key = Sought[r]
  BY <1>1 DEF SameKeys
<1> QED BY <1>1, <1>3, <1>4, <1>5 DEF LeadsToGroup

\* A row that is mapped is entered into the map and leaves the others there.
LEMMA MappedOneMore ==
  ASSUME GroupTypeOK, NEW t \in Table, NEW k \in 1..Len(t),
         keyIndexMap' = [keyIndexMap EXCEPT ![t[k].key] = k - 1]
  PROVE  /\ Mapped(t, k - 1) => Mapped(t, k)'
         /\ Mapped(t, Len(t)) => Mapped(t, Len(t))'
<1>1. /\ Len(t) \in Nat
      /\ \A n \in 1..Len(t) : t[n].key \in Key
      /\ \A m, n \in 1..Len(t) : t[m].key = t[n].key => m = n
  BY TableFacts
<1>2. \A n \in 1..Len(t) : keyIndexMap'[t[n].key] = IF n = k THEN k - 1 ELSE keyIndexMap[t[n].key]
  BY <1>1 DEF GroupTypeOK
<1> QED BY <1>1, <1>2 DEF Mapped

\* Requests that were answered before keep their answers.
LEMMA OldAnswers ==
  ASSUME KeyLeadsToGroup, table' = table, steady' = steady, NEW r \in Request,
         \A q \in Request \ {r} : state'[q] = "answered" => state[q] = "answered" /\ answer'[q] = answer[q],
         r \in Findable' /\ AllFull(table) => LeadsToGroup(r)'
  PROVE  KeyLeadsToGroup'
<1> SUFFICES ASSUME AllFull(table), NEW q \in Findable' PROVE LeadsToGroup(q)'
  BY DEF KeyLeadsToGroup, AllFull
<1>1. CASE q = r
  BY <1>1
<1>2. CASE q # r
  <2>1. q \in Findable /\ answer'[q] = answer[q]
    BY <1>2 DEF Findable
  <2>2. LeadsToGroup(q)
    BY <2>1 DEF KeyLeadsToGroup, AllFull
  <2> QED BY <2>1, <2>2 DEF LeadsToGroup
<1> QED BY <1>1, <1>2

\* No step breaks the invariant of the keys.
LEMMA KeyInductive ==
  ASSUME GroupTypeOK, LoadInv, KeyInv, KeyLeadsToGroup, [GroupNext]_groupVars
  PROVE  KeyInv' /\ KeyLeadsToGroup'
<1>1. ASSUME UNCHANGED <<table, rows, full, groupIndex, groups, keyIndexMap, origin, steady>>,
             NEW r \in Request, \A q \in Request \ {r} : state'[q] = state[q] /\ answer'[q] = answer[q],
             state'[r] \notin {"idle", "loading"},
             state'[r] = "answered" => Answer(r, groups) /\ groups # Absent
      PROVE  KeyInv' /\ KeyLeadsToGroup'
  <2>1. KeyInv'
    <3>1. groups # Absent => \E q \in Request : state'[q] # "idle"
      BY <1>1
    <3>2. steady => \A q \in Request : state'[q] = "loading" => rows = table
      BY <1>1 DEF KeyInv
    <3> QED BY <1>1, <3>1, <3>2 DEF KeyInv, Mapped, SameKeys, AllFull
  <2>2. ASSUME r \in Findable', AllFull(table) PROVE LeadsToGroup(r)'
    <3>1. /\ groups # Absent /\ Answer(r, groups) /\ Sought[r] # Absent /\ steady
          /\ \E n \in 1..Len(table) : table[n].key = Sought[r]
      BY <1>1, <2>2 DEF Findable
    <3>2. /\ groups \in Seq(Item) /\ table \in Table /\ SameKeys(groups, table, Len(table))
          /\ Mapped(table, Len(table))
      BY <2>2, <3>1 DEF KeyInv, GroupTypeOK
    <3> QED BY <3>1, <3>2, AnswerLeads
  <2> QED BY <1>1, <2>1, <2>2, OldAnswers
<1>2. ASSUME NEW r \in Request, AskLoaded(r) PROVE KeyInv' /\ KeyLeadsToGroup'
  <2>1. /\ groups # Absent /\ Answer(r, groups)
        /\ UNCHANGED <<table, rows, full, groupIndex, groups, keyIndexMap, origin, steady>>
    BY <1>2 DEF AskLoaded, loadVars
  <2>2. /\ state'[r] = "answered"
        /\ \A q \in Request \ {r} : state'[q] = state[q] /\ answer'[q] = answer[q]
    BY <2>1 DEF Answer, GroupTypeOK
  <2> QED BY <1>1, <2>1, <2>2
<1>3. ASSUME NEW r \in Request, AskUnloaded(r) PROVE KeyInv' /\ KeyLeadsToGroup'
  <2>1. /\ state' = [state EXCEPT ![r] = "queued"] /\ answer' = answer
        /\ UNCHANGED <<table, rows, full, groupIndex, groups, keyIndexMap, origin, steady>>
    BY <1>3 DEF AskUnloaded
  <2>2. state'[r] = "queued" /\ \A q \in Request \ {r} : state'[q] = state[q] /\ answer'[q] = answer[q]
    BY <2>1 DEF GroupTypeOK
  <2> QED BY <1>1, <2>1, <2>2
<1>4. ASSUME FailLoad PROVE KeyInv' /\ KeyLeadsToGroup'
  <2> DEFINE r == Head(loads)
  <2>1. /\ r \in Request /\ state' = [state EXCEPT ![r] = "failed"] /\ answer' = answer
        /\ UNCHANGED <<table, rows, full, groupIndex, groups, keyIndexMap, origin, steady>>
    BY <1>4 DEF FailLoad, Running, GroupTypeOK
  <2>2. state'[r] = "failed" /\ \A q \in Request \ {r} : state'[q] = state[q] /\ answer'[q] = answer[q]
    BY <2>1 DEF GroupTypeOK
  <2> HIDE DEF r
  <2> QED BY <1>1, <2>1, <2>2
<1>5. ASSUME StartLoad PROVE KeyInv' /\ KeyLeadsToGroup'
  <2> DEFINE r == Head(loads)
  <2>1. /\ r \in Request /\ state' = [state EXCEPT ![r] = "loading"]
        /\ rows' = table /\ full' = << >> /\ groupIndex' = 0
        /\ UNCHANGED <<table, groups, keyIndexMap, answer, origin, steady>>
    BY <1>5 DEF StartLoad, StartWith, GroupTypeOK
  <2>2. state'[r] = "loading" /\ \A q \in Request \ {r} : state'[q] = state[q]
    BY <2>1 DEF GroupTypeOK
  <2> HIDE DEF r
  <2>3. Mapped(rows, groupIndex)' /\ SameKeys(full, rows, groupIndex)'
    BY <2>1 DEF Mapped, SameKeys
  <2>4. groups # Absent => \E q \in Request : state'[q] # "idle"
    BY <2>1, <2>2
  <2>5. KeyInv'
    BY <2>1, <2>3, <2>4 DEF KeyInv, Mapped, SameKeys, AllFull
  <2>6. \A q \in Request : state'[q] = "answered" => state[q] = "answered" /\ answer'[q] = answer[q]
    BY <2>1, <2>2
  <2>7. r \notin Findable'
    BY <2>2 DEF Findable
  <2> QED BY <2>1, <2>5, <2>6, <2>7, OldAnswers
<1>6. ASSUME ChangeTable PROVE KeyInv' /\ KeyLeadsToGroup'
  <2>1. UNCHANGED <<state, rows, full, groupIndex, groups, keyIndexMap, answer, origin>>
    BY <1>6 DEF ChangeTable, loadVars
  <2>2. steady' => \A r \in Request : state'[r] = "idle"
    BY <1>6, <2>1, Zenon DEF ChangeTable
  <2>3. KeyInv'
    BY <2>1, <2>2 DEF KeyInv, Mapped, SameKeys, AllFull
  <2>4. Findable' = {}
    BY <2>2 DEF Findable
  <2> QED BY <2>3, <2>4 DEF KeyLeadsToGroup
<1>7. ASSUME UNCHANGED groupVars PROVE KeyInv' /\ KeyLeadsToGroup'
  BY <1>7 DEF groupVars, KeyInv, Mapped, SameKeys, AllFull, KeyLeadsToGroup, Findable, LeadsToGroup
<1>8. ASSUME LoadRow PROVE KeyInv' /\ KeyLeadsToGroup'
  <2> DEFINE k == groupIndex + 1
             row == rows[k]
             item == [key |-> row.key, size |-> row.size, first |-> firstItemIndex]
  <2>1. /\ groupIndex < Len(rows) /\ groupIndex' = k
        /\ full' = IF row.size > 0 THEN Append(full, item) ELSE full
        /\ keyIndexMap' = [keyIndexMap EXCEPT ![row.key] = groupIndex]
        /\ UNCHANGED <<table, state, rows, groups, answer, origin, steady>>
    BY <1>8 DEF LoadRow, MapRow
  <2>2. /\ rows \in Table /\ groupIndex \in Nat /\ k - 1 = groupIndex /\ k \in 1..Len(rows)
        /\ full \in Seq(Item) /\ item \in Item /\ row.size \in Nat
    BY <2>1, RowFacts DEF GroupTypeOK, Item
  <2>3. Mapped(rows, groupIndex)' /\ (Mapped(rows, Len(rows)) => Mapped(rows, Len(rows))')
    <3>1. keyIndexMap' = [keyIndexMap EXCEPT ![rows[k].key] = k - 1]
      BY <2>1, <2>2
    <3>2. PICK t \in Table : t = rows
      BY <2>2
    <3>3. k \in 1..Len(t) /\ keyIndexMap' = [keyIndexMap EXCEPT ![t[k].key] = k - 1]
      BY <2>2, <3>1, <3>2
    <3>4. PICK m \in 1..Len(t) : m = k
      BY <3>3
    <3>5. /\ Mapped(t, m - 1) => Mapped(t, m)'
          /\ Mapped(t, Len(t)) => Mapped(t, Len(t))'
      BY <3>3, <3>4, MappedOneMore
    <3> QED BY <2>1, <2>2, <3>2, <3>4, <3>5 DEF KeyInv, Mapped
  <2>4. AllFull(rows) => SameKeys(full', rows, k)
    <3> SUFFICES ASSUME AllFull(rows) PROVE SameKeys(full', rows, k)
      OBVIOUS
    <3>1. full' = Append(full, item) /\ SameKeys(full, rows, groupIndex)
      BY <2>1, <2>2 DEF AllFull, KeyInv
    <3> QED BY <2>2, <3>1, ItemAppended DEF SameKeys
  <2>5. steady => rows = table
    BY <1>8 DEF LoadRow, MapRow, Running, KeyInv, GroupTypeOK
  <2>6. groups # Absent /\ steady => Mapped(table, Len(table))'
    BY <2>1, <2>3, <2>5 DEF KeyInv, Mapped
  <2>7. KeyInv'
    BY <2>1, <2>3, <2>4, <2>6 DEF KeyInv, SameKeys, AllFull, Mapped
  <2>8. KeyLeadsToGroup'
    BY <2>1 DEF KeyLeadsToGroup, Findable, LeadsToGroup
  <2> QED BY <2>7, <2>8
<1>9. ASSUME FinishLoad PROVE KeyInv' /\ KeyLeadsToGroup'
  <2>0. PICK r \in Request : r = Head(loads)
    BY <1>9 DEF FinishLoad, FillFrom, Running, GroupTypeOK
  <2>1. /\ state[r] = "loading" /\ groupIndex = Len(rows)
        /\ groups' = full /\ origin' = rows /\ Answer(r, full)
        /\ UNCHANGED <<table, rows, full, groupIndex, keyIndexMap, steady>>
    BY <1>9, <2>0 DEF FinishLoad, FillFrom, Running
  <2>2. /\ state'[r] = "answered"
        /\ \A q \in Request \ {r} : state'[q] = state[q] /\ answer'[q] = answer[q]
    BY <2>1 DEF Answer, GroupTypeOK
  <2>3. steady => rows = table
    BY <2>1 DEF KeyInv
  <2>4. Mapped(rows, Len(rows)) /\ (AllFull(rows) => SameKeys(full, rows, Len(rows)))
    BY <2>1 DEF KeyInv
  <2>5. KeyInv'
    <3>1. \E q \in Request : state'[q] # "idle"
      BY <2>1, <2>2
    <3>2. steady => \A q \in Request : state'[q] = "loading" => rows = table
      BY <2>3
    <3> QED BY <2>1, <2>3, <2>4, <3>1, <3>2 DEF KeyInv, Mapped, SameKeys, AllFull
  <2>6. ASSUME r \in Findable', AllFull(table) PROVE LeadsToGroup(r)'
    <3>1. /\ Sought[r] # Absent /\ steady /\ \E n \in 1..Len(table) : table[n].key = Sought[r]
      BY <2>1, <2>6 DEF Findable
    <3>2. /\ full \in Seq(Item) /\ table \in Table
          /\ SameKeys(full, table, Len(table)) /\ Mapped(table, Len(table))
      BY <2>3, <2>4, <2>6, <3>1 DEF GroupTypeOK
    <3> QED BY <2>1, <3>1, <3>2, AnswerLeads
  <2> QED BY <2>1, <2>2, <2>5, <2>6, OldAnswers
<1> QED BY <1>2, <1>3, <1>4, <1>5, <1>6, <1>7, <1>8, <1>9 DEF GroupNext

\* While the table does not change and no group is empty, a key leads to its
\* group, whichever of several loads filled the map.
THEOREM GroupKeyLeadsToGroup == GroupSpec => []KeyLeadsToGroup
<1>1. GroupInit => KeyInv /\ KeyLeadsToGroup
  BY DEF GroupInit, KeyInv, Mapped, SameKeys, KeyLeadsToGroup, Findable
<1> QED BY <1>1, GroupType, LoadInitially, LoadInductive, KeyInductive, PTL DEF GroupSpec
=============================================================================
