------------------------------- MODULE Frames -------------------------------
(***************************************************************************)
(* Texts that clients send and frames that answer them.  A text is         *)
(* <<"num", n>> when it reads as the integer n and <<"word", w>> otherwise; *)
(* of a reply the kind and the content are kept, its wording is left out.  *)
(***************************************************************************)
EXTENDS Integers

CONSTANTS MinInt, MaxInt   \* the integers that fit an i64

ASSUME IntAssumption == MinInt \in Int /\ MaxInt \in Int /\ MinInt <= 0 /\ 0 <= MaxInt

AnyText == ({"num"} \X Int) \cup ({"word"} \X STRING)

\* parse::<i64>, and parse::<u64> and parse_u32 for times and counts: the
\* number, if it is one.  ParseNat has no upper limit: no time or count that
\* clients of the model pass comes near those of u64 and u32.
ParseInt(t) == IF t[1] = "num" THEN {t[2]} \cap MinInt .. MaxInt ELSE {}
ParseNat(t) == IF t[1] = "num" THEN {t[2]} \cap Nat ELSE {}

Integer(n) == <<"Integer", n>>
Bulk(x)    == <<"Bulk", x>>
Array(x)   == <<"Array", x>>
Simple(w)  == <<"Simple", w>>
Failed(w)  == <<"Error", w>>
Null       == <<"Null">>
Ok         == Simple("OK")
WrongType  == Failed("WRONGTYPE")
NotInt     == Failed("not an integer")
=============================================================================
