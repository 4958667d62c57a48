----------------------------- MODULE GroupSource -----------------------------
(***************************************************************************)
(* The GroupDataSource of SQLite3JS, lines 326 to 390 of SQLite3.js.  Its  *)
(* groups are loaded by one query and kept; every request that comes       *)
(* before the first load is complete starts a load of its own.  The loads  *)
(* stand in the promise queue one behind the other, and the rows of each   *)
(* reach the UI thread one at a time, with other requests in between.      *)
(*                                                                         *)
(* The database is external: a query reads the table as it is when the     *)
(* query begins, and another call may change it between two loads.         *)
(***************************************************************************)
EXTENDS Naturals, Sequences

CONSTANTS
  Request,  \* the requests the list view may make, one ensureGroups each
  Sought,   \* [Request -> Key \cup {Absent}]: the key of an itemsFromKey
  Key,      \* keyColumnName of a row
  Table,    \* what the query may yield: sequences of [key, size], keys distinct
  Absent    \* undefined: no groups yet, no index, no key sought, no answer

ASSUME GroupAssumption ==
  /\ Absent \notin Key \cup Nat
  /\ Absent \notin Seq([key : Key, size : Nat, first : Nat])
  /\ Absent \notin [offset : Nat \cup {Absent}, items : Seq([key : Key, size : Nat, first : Nat])]
  /\ Sought \in [Request -> Key \cup {Absent}]
  /\ \A t \in Table :
       /\ t \in Seq([key : Key, size : Nat])
       /\ \A m, n \in 1..Len(t) : t[m].key = t[n].key => m = n

VARIABLES
  table,        \* what the query would yield now
  state,        \* where each request is
  loads,        \* the requests whose load is queued or running, in order
  rows,         \* the table as the running load reads it
  full,         \* the items with a groupSize that mapAsync has collected for it
  groupIndex,   \* its local counter: rows mapped
  firstItemIndex, \* its local counter: items in the groups mapped
  groups,       \* dataAdapter._groups
  keyIndexMap,  \* dataAdapter._keyIndexMap
  answer,       \* the offset and the items of each answer
  origin,       \* history: the table whose load filled groups
  steady        \* history: the table has not changed since the first request

loadVars == <<loads, rows, full, groupIndex, firstItemIndex>>
groupVars == <<table, state, loads, rows, full, groupIndex, firstItemIndex,
               groups, keyIndexMap, answer, origin, steady>>

Item == [key : Key, size : Nat, first : Nat]

GroupTypeOK ==
  /\ table \in Table
  /\ state \in [Request -> {"idle", "queued", "loading", "answered", "failed"}]
  /\ loads \in Seq(Request)
  /\ rows \in Table
  /\ full \in Seq(Item)
  /\ groupIndex \in Nat
  /\ firstItemIndex \in Nat
  /\ groups \in Seq(Item) \cup {Absent}
  /\ keyIndexMap \in [Key -> Nat \cup {Absent}]
  /\ answer \in [Request -> [offset : Nat \cup {Absent}, items : Seq(Item)] \cup {Absent}]
  /\ origin \in Table
  /\ steady \in BOOLEAN

GroupInit ==
  /\ table \in Table
  /\ state = [r \in Request |-> "idle"]
  /\ loads = << >>
  /\ rows = table
  /\ full = << >>
  /\ groupIndex = 0
  /\ firstItemIndex = 0
  /\ groups = Absent
  /\ keyIndexMap = [k \in Key |-> Absent]
  /\ answer = [r \in Request |-> Absent]
  /\ origin = table
  /\ steady = TRUE

Running == loads # << >> /\ state[Head(loads)] = "loading"

-----------------------------------------------------------------------------
\* What getCount, itemsFromIndex and itemsFromKey do with the groups: all of
\* them are the answer, and the key is looked up in the map.
Answer(r, from) ==
  /\ state' = [state EXCEPT ![r] = "answered"]
  /\ answer' = [answer EXCEPT ![r] =
       [offset |-> IF Sought[r] = Absent THEN Absent ELSE keyIndexMap[Sought[r]],
        items |-> from]]

\* A request that finds the groups is answered in the same turn.
AskLoaded(r) ==
  /\ state[r] = "idle"
  /\ groups # Absent
  /\ Answer(r, groups)
  /\ UNCHANGED <<table, loadVars, groups, keyIndexMap, origin, steady>>

\* Any other calls mapAsync, whether or not a load is on its way.
AskUnloaded(r) ==
  /\ state[r] = "idle"
  /\ groups = Absent
  /\ state' = [state EXCEPT ![r] = "queued"]
  /\ loads' = Append(loads, r)
  /\ UNCHANGED <<table, rows, full, groupIndex, firstItemIndex, groups,
                 keyIndexMap, answer, origin, steady>>

StartWith(first) ==
  /\ loads # << >> /\ ~Running
  /\ state' = [state EXCEPT ![Head(loads)] = "loading"]
  /\ rows' = table
  /\ full' = << >>
  /\ groupIndex' = 0
  /\ firstItemIndex' = first
  /\ UNCHANGED <<table, loads, groups, keyIndexMap, answer, origin, steady>>

\* Deviation: firstItemIndex belongs to the adapter, not to the load.
StartLoadShared == StartWith(firstItemIndex)

\* The query of the next load begins.  Its counters are its own.
StartLoad == StartWith(0)

MapRow(index) ==
  /\ Running
  /\ groupIndex < Len(rows)
  /\ LET row == rows[groupIndex + 1]
         item == [key |-> row.key, size |-> row.size, first |-> firstItemIndex]
     IN  /\ full' = IF row.size > 0 THEN Append(full, item) ELSE full
         /\ keyIndexMap' = [keyIndexMap EXCEPT ![row.key] = index]
         /\ firstItemIndex' = firstItemIndex + row.size
  /\ groupIndex' = groupIndex + 1
  /\ UNCHANGED <<table, state, loads, rows, groups, answer, origin, steady>>

\* Deviation: groupIndex is stored after it has been raised.
LoadRowRaised == MapRow(groupIndex + 1)

\* The row callback of mapAsync.  The filter that the complete list goes
\* through keeps its order, so each item meets it here.
LoadRow == MapRow(groupIndex)

FillFrom(filled) ==
  /\ Running
  /\ loads' = Tail(loads)
  /\ groups' = full
  /\ origin' = rows
  /\ Answer(Head(loads), filled)
  /\ UNCHANGED <<table, rows, full, groupIndex, firstItemIndex, keyIndexMap, steady>>

\* Deviation: the load is taken for complete before its last row.
FinishLoadEarly == FillFrom(full)

\* Deviation: the request is answered before the groups are there.
FinishLoadUnset == groupIndex = Len(rows) /\ FillFrom(groups)

\* mapAsync is complete: the groups with items replace those of an earlier
\* load, and the request that waited is answered from them.
FinishLoad == groupIndex = Len(rows) /\ FillFrom(full)

\* Deviation: a failed load leaves the next one waiting behind it.
FailLoadSilently ==
  /\ Running
  /\ state' = [state EXCEPT ![Head(loads)] = "failed"]
  /\ UNCHANGED <<table, loadVars, groups, keyIndexMap, answer, origin, steady>>

\* The query fails, or a row has no key: the request fails, and what the map
\* holds by then stays in it.
FailLoad ==
  /\ Running
  /\ state' = [state EXCEPT ![Head(loads)] = "failed"]
  /\ loads' = Tail(loads)
  /\ UNCHANGED <<table, rows, full, groupIndex, firstItemIndex, groups,
                 keyIndexMap, answer, origin, steady>>

\* Another call changes the table, before, between or after the loads.
ChangeTable ==
  /\ ~Running
  /\ \E t \in Table \ {table} : table' = t
  /\ steady' = (\A r \in Request : state[r] = "idle")
  /\ UNCHANGED <<state, loadVars, groups, keyIndexMap, answer, origin>>

GroupNext ==
  \/ \E r \in Request : AskLoaded(r) \/ AskUnloaded(r)
  \/ StartLoad
  \/ LoadRow
  \/ FinishLoad
  \/ FailLoad
  \/ ChangeTable

\* The queue and the threads of the pool serve every load.
GroupFairness == WF_groupVars(StartLoad \/ LoadRow \/ FinishLoad)

GroupSpec == GroupInit /\ [][GroupNext]_groupVars

GroupFairSpec == GroupSpec /\ GroupFairness

-----------------------------------------------------------------------------
\* The first group begins with item 0 and every other one where the group
\* before it ends, the empty groups that were filtered out taking no place,
\* also when several loads have run one after another.
StartsWhereLastEnds(gs) ==
  \A n \in 1..Len(gs) :
    gs[n].first = IF n = 1 THEN 0 ELSE gs[n - 1].first + gs[n - 1].size

HintsAddUp == groups # Absent => StartsWhereLastEnds(groups)

\* gs are the groups with items among the first rows of t, and no others.
GroupsAmong(gs, t, m) ==
  /\ \A n \in 1..Len(gs) : \E j \in 1..m :
       t[j].key = gs[n].key /\ t[j].size = gs[n].size /\ t[j].size > 0
  /\ \A j \in 1..m : t[j].size > 0 =>
       \E n \in 1..Len(gs) : gs[n].key = t[j].key /\ gs[n].size = t[j].size

\* The groups are all the groups with items of one result of the query, never
\* a mixture of two loads or a part of one.
GroupsOfOneQuery == groups # Absent => GroupsAmong(groups, origin, Len(origin))

\* The group at the offset of r's answer is the one that was sought.
LeadsToGroup(r) ==
  LET a == answer[r]
  IN  /\ a.offset # Absent
      /\ a.offset + 1 \in 1..Len(a.items)
      /\ a.items[a.offset + 1].key = Sought[r]

\* The requests by a key that the table has a group with items for, answered
\* while nobody else changed the table.
Findable ==
  {r \in Request : /\ state[r] = "answered" /\ Sought[r] # Absent /\ steady
                   /\ \E n \in 1..Len(table) : table[n].key = Sought[r] /\ table[n].size > 0}

\* While the table does not change, itemsFromKey leads to the group that was
\* sought, whichever of several loads filled the map - if no group is empty.
KeyLeadsToGroup ==
  (\A n \in 1..Len(table) : table[n].size > 0) => \A r \in Findable : LeadsToGroup(r)

\* What SQLite3Spec.js:592 expects of itemFromKey: the item with that key.
KeyAlwaysLeadsToGroup == \A r \in Findable : LeadsToGroup(r)

\* Every request is answered or fails.
RequestsEnd ==
  \A r \in Request : state[r] = "queued" ~> state[r] \in {"answered", "failed"}
=============================================================================
