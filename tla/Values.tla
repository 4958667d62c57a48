------------------------------- MODULE Values -------------------------------
(***************************************************************************)
(* What becomes of a value on its way through SQLite3Component: bound as a *)
(* parameter (Statement::BindParameter), kept by SQLite, written as JSON   *)
(* (Statement::GetRow, All and writeEscaped) and read by JSON.parse; and   *)
(* of a failure, from its SQLite code through an HRESULT (throwSQLiteError)*)
(* to the SQLiteError of wrapException.                                    *)
(*                                                                         *)
(* A text is a sequence of characters, of which only those the code tells  *)
(* apart are named: "a" stands for the printable ones, "odd" for those that*)
(* need four hexadecimal digits, "quote" for the quotation mark.  A number *)
(* is known by its decimal digits.                                         *)
(* The 64 bits of a date are Width values here, and HRESULTs are halves.   *)
(***************************************************************************)
EXTENDS Integers, Sequences, SequencesExt

CONSTANTS
  Char,       \* the characters of a text
  Given,      \* the values a client may bind
  Names,      \* the lists of column names a table may have
  MaxRows,    \* bound: rows of the table
  Width,      \* 2^64
  Tick,       \* 10000, the units of a DateTime in a millisecond
  Epoch,      \* 11644473600000, the milliseconds from 1601 to 1970
  Decimal(_), \* what SQLite writes of an integer
  Digits(_),  \* and of another number: fifteen digits
  Nothing     \* no error yet

Infinite == {"Infinity", "minusInfinity"}

\* What JSON has besides numbers, and what SQLite writes of infinite ones.
Marks ==
  {"beginArray", "endArray", "beginObject", "endObject", "comma", "colon", "quote", "backslash",
   "null", "Inf", "minusInf"}

\* The numbers of 64 bits with a sign.
Integer == -(Width \div 2)..(Width \div 2 - 1)

\* Base64 has only printable characters, a date is one of JavaScript, whole
\* milliseconds that 64 bits can hold, and numbers are not written as marks.
ASSUME ValueAssumption ==
  /\ \A g \in Given :
       /\ g.is \in {"null", "object", "boolean", "number", "text", "date", "buffer"}
       /\ g.is = "boolean" => g.yes \in BOOLEAN
       /\ g.is = "number" =>
            IF g.number \in Infinite THEN Digits(g.number) \in {"Inf", "minusInf"}
                                     ELSE Digits(g.number) \notin Marks
       /\ g.is = "text" => g.text \in Seq(Char)
       /\ g.is = "date" =>
            /\ g.ticks \in Int /\ g.ticks % Tick = 0
            /\ g.ticks \div Tick - Epoch \in Integer
       /\ g.is = "buffer" => g.bytes \in Seq({"a"})
  /\ \A list \in Names : list \in Seq(Seq(Char)) /\ list # << >>
  /\ MaxRows \in Nat
  /\ Width \in Nat /\ Width > 2 /\ Width % 2 = 0
  /\ Tick \in Nat \ {0} /\ Epoch \in Nat
  /\ \A n \in Integer : Decimal(n) \notin Marks

VARIABLES
  names,   \* the column names
  given,   \* history: the values bound, row by row, and those of the next row
  table,   \* the rows SQLite has stored
  row,     \* the values bound to the statement now
  out,     \* the text of allAsync
  failure, \* the SQLite code of the call that failed
  error    \* number and resultCode of the SQLiteError

valueVars == <<names, given, table, row, out, failure, error>>

-----------------------------------------------------------------------------
Unsigned(n) == n % Width
Signed(n) == IF n < Width \div 2 THEN n ELSE n - Width

\* What reading a wchar_t* up to its terminator leaves of a text.
UpToNul(text) ==
  LET nul == {n \in 1..Len(text) : text[n] = "nul"}
  IN  IF nul = {} THEN text
      ELSE SubSeq(text, 1, (CHOOSE n \in nul : \A m \in nul : n <= m) - 1)

\* Deviation: the ticks are taken for unsigned before they are divided.
UnixTimeUnsigned(ticks) == Signed(Unsigned(Unsigned(ticks) \div Tick - Epoch))

\* FoundationTimeToUnixCompatible, whose unsigned result is bound as a signed
\* number.  A signed division, of whole milliseconds.
UnixTime(ticks) ==
  LET ms == IF ticks < 0 THEN -((-ticks) \div Tick) ELSE ticks \div Tick
  IN  Signed(Unsigned(ms - Epoch))

\* BindParameter for the types a JavaScript client can pass.  SQLite takes what
\* is not a number for NULL.
Bound(g) ==
  CASE g.is = "null" -> [is |-> "null"]
    [] g.is = "number" /\ g.number = "NaN" -> [is |-> "null"]
    [] g.is = "number" /\ g.number # "NaN" -> [is |-> "float", number |-> g.number]
    [] g.is = "text" -> [is |-> "text", text |-> UpToNul(g.text)]
    [] g.is = "boolean" -> [is |-> "integer", n |-> IF g.yes THEN 1 ELSE 0]
    [] g.is = "date" -> [is |-> "integer", n |-> UnixTime(g.ticks)]
    [] g.is = "buffer" -> [is |-> "blob", bytes |-> g.bytes]

Quote == <<"quote">>

Escaped(c) ==
  CASE c = "a" -> <<c>>
    [] c \in {"quote", "backslash"} -> <<"backslash", c>>
    [] c = "tab" -> <<"backslash", "t">>
    [] c = "return" -> <<"backslash", "r">>
    [] c = "newline" -> <<"backslash", "n">>
    [] OTHER -> <<"backslash", "u", c>>

writeEscaped(text) == Quote \o FlattenSeq([n \in DOMAIN text |-> Escaped(text[n])]) \o Quote

ColumnText(v) ==
  CASE v.is = "text" -> writeEscaped(v.text)
    [] v.is = "float" -> <<Digits(v.number)>>
    [] v.is = "integer" -> <<Decimal(v.n)>>
    [] v.is = "blob" -> Quote \o v.bytes \o Quote
    [] v.is = "null" -> <<"null">>

\* Seeking back by one character and writing another in its place.
OverLast(text, c) == Append(Front(text), c)

\* The names are written as they are.
Column(name, v) == Quote \o name \o Quote \o <<"colon">> \o ColumnText(v) \o <<"comma">>

GetRow(r) ==
  OverLast(<<"beginObject">> \o FlattenSeq([i \in DOMAIN r |-> Column(names[i], r[i])]),
           "endObject")

All(rows) ==
  IF rows = << >> THEN <<"beginArray", "endArray">>
  ELSE OverLast(<<"beginArray">> \o
                  FlattenSeq([n \in DOMAIN rows |-> GetRow(rows[n]) \o <<"comma">>]),
                "endArray")

-----------------------------------------------------------------------------
Hresult(high, low) == [high |-> high - 65536, low |-> low]
Win32(code) == Hresult(32775, code)

\* throwSQLiteError.
ThrowSQLiteError(code) ==
  CASE code = 1 -> Hresult(32768, 16389)   [] code = 4 -> Hresult(32768, 16388)
    [] code = 5 -> Win32(170)              [] code = 6 -> Win32(33)
    [] code = 7 -> Win32(14)               [] code = 8 -> Win32(6009)
    [] code = 9 -> Win32(995)              [] code = 10 -> Win32(1117)
    [] code = 11 -> Win32(4313)            [] code = 12 -> Win32(1)
    [] code = 13 -> Win32(4314)            [] code = 14 -> Win32(2)
    [] code = 15 -> Hresult(33654, 1)      [] code = 16 -> Win32(4306)
    [] code = 17 -> Hresult(32768, 12)     [] code = 20 -> Win32(1629)
    [] code = 22 -> Win32(50)              [] code = 23 -> Win32(1244)
    [] code = 24 -> Win32(1392)            [] code = 25 -> Hresult(32768, 11)
    [] code = 26 -> Win32(1065)
    [] OTHER -> Hresult(32772 + 8192, code)

\* The unsigned number, and the SQLite code where the bit 0x2000 of its upper
\* half says that the lower half is one.
WrapIf(hresult, bit) ==
  LET high == hresult.high + 65536
  IN  [high |-> high, low |-> hresult.low,
       resultCode |-> IF (high \div bit) % 2 = 1 THEN hresult.low ELSE 0]

\* Deviation: it is the severity bit that is looked at.
WrapExceptionSeverity(hresult) == WrapIf(hresult, 32768)

WrapException(hresult) == WrapIf(hresult, 8192)

-----------------------------------------------------------------------------
ValueInit ==
  /\ names \in Names
  /\ given = << << >> >> /\ table = << >> /\ row = << >>
  /\ out = << >>
  /\ failure = 0 /\ error = Nothing

Ready == out = << >> /\ failure = 0

Fail(code) ==
  /\ failure' = code
  /\ error' = WrapException(ThrowSQLiteError(code))

\* The loop of Bind: the next parameter is bound, or its type is refused.  One
\* too many is SQLITE_RANGE; if it is null, the message about it is made from
\* nothing, which is undefined: E_POINTER, or the end of the process.
BindNext ==
  /\ Ready
  /\ \E g \in Given :
       \/ /\ g.is # "object" /\ Len(row) < Len(names) /\ Len(table) < MaxRows
          /\ row' = Append(row, Bound(g))
          /\ given' = [given EXCEPT ![Len(given)] = Append(@, g)]
          /\ UNCHANGED <<failure, error>>
       \/ /\ g.is = "object" /\ Fail(20)
          /\ UNCHANGED <<row, given>>
       \/ /\ g.is \notin {"object", "null"} /\ Len(row) = Len(names) /\ Fail(25)
          /\ UNCHANGED <<row, given>>
       \/ /\ g.is = "null" /\ Len(row) = Len(names)
          /\ failure' = 25
          /\ error' \in {WrapException(Hresult(32768, 16387)), Nothing}
          /\ UNCHANGED <<row, given>>
  /\ UNCHANGED <<names, table, out>>

\* External: SQLite stores the row.
Insert ==
  /\ Ready
  /\ Len(row) = Len(names)
  /\ table' = Append(table, row)
  /\ row' = << >>
  /\ given' = Append(given, << >>)
  /\ UNCHANGED <<names, out, failure, error>>

\* Statement::All of all the rows.
Select ==
  /\ Ready /\ row = << >>
  /\ out' = All(table)
  /\ UNCHANGED <<names, given, table, row, failure, error>>

\* Any call of SQLite fails, with the code that the call returns.  That of a step
\* is 1, 5 or 21 only, because the statement is of sqlite3_prepare16.
CallFails ==
  /\ Ready
  /\ \E code \in 1..26 : Fail(code)
  /\ UNCHANGED <<names, given, table, row, out>>

ValueNext == BindNext \/ Insert \/ Select \/ CallFails

ValueSpec == ValueInit /\ [][ValueNext]_valueVars

-----------------------------------------------------------------------------
\* JSON.parse of an array of flat objects, one token at a time.  A member that
\* comes again takes the place of the first.
Start == [at |-> "begin", rows |-> << >>, members |-> << >>,
          name |-> << >>, text |-> << >>, key |-> FALSE]

Letter == [t |-> "tab", r |-> "return", n |-> "newline"]

With(members, name, v) ==
  [n \in DOMAIN members \cup {name} |-> IF n = name THEN v ELSE members[n]]

Member(p, v) == [p EXCEPT !.members = With(@, p.name, v), !.at = "after"]

Parse(p, t) ==
  LET go(at) == [p EXCEPT !.at = at]
      string(key) == [p EXCEPT !.at = "string", !.text = << >>, !.key = key]
      char(c) == [p EXCEPT !.at = "string", !.text = Append(@, c)]
  IN CASE p.at = "begin" /\ t = "beginArray" -> go("first")
       [] p.at = "first" /\ t = "endArray" -> go("end")
       [] p.at \in {"first", "row"} /\ t = "beginObject" ->
            [p EXCEPT !.at = "pair", !.members = << >>]
       [] p.at = "pair" /\ t = "quote" -> string(TRUE)
       [] p.at = "colon" /\ t = "colon" -> go("value")
       [] p.at = "value" /\ t = "quote" -> string(FALSE)
       [] p.at = "value" /\ t = "null" -> Member(p, [is |-> "null"])
       [] p.at = "value" /\ t \notin Marks -> Member(p, [is |-> "number", number |-> t])
       [] p.at = "string" /\ t \in {"a", "odd"} -> char(t)
       [] p.at = "string" /\ t = "backslash" -> go("escape")
       [] p.at = "escape" /\ t \in {"quote", "backslash"} -> char(t)
       [] p.at = "escape" /\ t \in DOMAIN Letter -> char(Letter[t])
       [] p.at = "escape" /\ t = "u" -> go("hex")
       [] p.at = "hex" -> char(t)
       [] p.at = "string" /\ t = "quote" ->
            IF p.key THEN [p EXCEPT !.at = "colon", !.name = p.text]
            ELSE Member(p, [is |-> "text", text |-> p.text])
       [] p.at = "after" /\ t = "comma" -> go("pair")
       [] p.at = "after" /\ t = "endObject" ->
            [p EXCEPT !.at = "next", !.rows = Append(@, p.members)]
       [] p.at = "next" /\ t = "comma" -> go("row")
       [] p.at = "next" /\ t = "endArray" -> go("end")
       [] OTHER -> go("error")

\* The state of the parser after a text.
Read(p, text) ==
  LET state[n \in 0..Len(text)] == IF n = 0 THEN p ELSE Parse(state[n - 1], text[n])
  IN  state[Len(text)]

Columns == Len(names)

\* No number bound was infinite.
Finite == \A n \in 1..Len(given) : \A i \in 1..Len(given[n]) :
  given[n][i].is = "number" => given[n][i].number \notin Infinite

\* No column name needs an escape.
Clean == \A i \in 1..Columns : \A n \in 1..Len(names[i]) : names[i][n] = "a"

\* The client has v for g: booleans as 0 or 1, dates as milliseconds since 1970,
\* a buffer as its text in base64, numbers to fifteen digits, NaN as null, and
\* a text with its characters, but of a text with a NUL maybe only a beginning.
ComesBack(g, v) ==
  CASE g.is = "null" -> v = [is |-> "null"]
    [] g.is = "text" ->
         /\ v.is = "text" /\ IsPrefix(v.text, g.text)
         /\ v.text = g.text \/ \E n \in 1..Len(g.text) : g.text[n] = "nul"
    [] g.is = "number" /\ g.number = "NaN" -> v = [is |-> "null"]
    [] g.is = "number" /\ g.number # "NaN" -> v = [is |-> "number", number |-> Digits(g.number)]
    [] g.is = "boolean" -> v = [is |-> "number", number |-> Decimal(IF g.yes THEN 1 ELSE 0)]
    [] g.is = "date" -> v = [is |-> "number", number |-> Decimal(g.ticks \div Tick - Epoch)]
    [] g.is = "buffer" -> v = [is |-> "text", text |-> g.bytes]

\* What was bound comes back from allAsync, row by row and column by column (of
\* columns with the same name the last one), with every character of a text that
\* needs an escape and on whichever side of 1970 a date lies.  Not covered is what
\* the code loses: the rest of a text after a NUL (Statement.cpp:75, 225), all of
\* the rows when one number is infinite (231-232), and names that need an escape
\* (222).
RowsComeBack ==
  out # << >> /\ (table = << >> \/ Clean) /\ Finite =>
    LET p == Read(Start, out)
    IN  /\ p.at = "end" /\ Len(p.rows) = Len(table)
        /\ \A n \in 1..Len(table) :
             /\ DOMAIN p.rows[n] = {names[i] : i \in 1..Columns}
             /\ \A i \in 1..Columns :
                  (\A j \in i + 1..Columns : names[j] # names[i]) =>
                    ComesBack(given[n][i], p.rows[n][names[i]])

\* The SQLiteError tells which of the SQLite codes it was: no other code gives
\* the same error, resultCode is the code or 0, and it is the code where the
\* HRESULT is none of the system's.
ErrorTellsCode ==
  error # Nothing =>
    /\ \A code \in 1..26 \ {failure} : WrapException(ThrowSQLiteError(code)) # error
    /\ error.resultCode \in {0, failure}
    /\ failure \in {2, 3, 18, 19, 21} => error.resultCode = failure
=============================================================================
