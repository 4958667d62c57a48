------------------------------ MODULE MCValues ------------------------------
(***************************************************************************)
(* An instance of Values for TLC: every kind of value, texts with every    *)
(* kind of character, dates before 1601 and before 1970, one column or two *)
(* of the same name or of different names, or one with a quote in its name.*)
(***************************************************************************)
EXTENDS Values, TLC

Text(chars) == [is |-> "text", text |-> chars]
Number(digits) == [is |-> "number", number |-> digits]
DecimalText(n) == ToString(n)
DigitsText(number) ==
  CASE number = "0.30000000000000004" -> "0.3"
    [] number = "Infinity" -> "Inf"
    [] OTHER -> number
Date(ticks) == [is |-> "date", ticks |-> ticks]

GivenValues ==
  {[is |-> "null"], [is |-> "object"], [is |-> "boolean", yes |-> TRUE],
   [is |-> "buffer", bytes |-> <<"a", "a">>],
   Text(<<"quote", "tab", "backslash", "newline", "return", "odd">>), Text(<<"a", "nul", "a">>),
   Number("0.30000000000000004"), Number("Infinity"), Number("NaN"), Date(-6), Date(4)}

Characters == {"a", "odd", "quote", "backslash", "tab", "return", "newline", "nul"}

NameLists ==
  {<<<<"a">>>>, <<<<"a">>, <<"a", "a">>>>, <<<<"a">>, <<"a">>>>, <<<<"a", "quote", "a">>>>}
=============================================================================
