----------------------------- MODULE SavedLists -----------------------------
(***************************************************************************)
(* Dictionaries, lists and orders as the loops of the converters use them: *)
(* operators on values, without a state of their own.                      *)
(***************************************************************************)
EXTENDS Integers, Sequences, FiniteSets

(* A dictionary with a key set, and with a key deleted.                         *)
Putting(f, x, v) == [y \in DOMAIN f \cup {x} |-> IF y = x THEN v ELSE f[y]]
Dropping(f, x)   == [y \in DOMAIN f \ {x} |-> f[y]]

(* A field that holds a list, of whatever is in it.                            *)
IsList(s) == Len(s) \in Nat /\ s = [i \in 1..Len(s) |-> s[i]]

(* How many places some pieces of given sizes have together.                   *)
TotalOf(sizes) == Cardinality(UNION {{n} \X (1..sizes[n]) : n \in DOMAIN sizes})

(* A finite set of positions in ascending order.                               *)
Ascending(S) == CHOOSE s \in [1..Cardinality(S) -> S] : \A i, j \in DOMAIN s : i < j => s[i] < s[j]

(* Rows put in an order: Before(i, j) relates their positions and is total.     *)
Sorted(rows, Before(_, _)) ==
    LET rank(i) == Cardinality({j \in DOMAIN rows : Before(j, i)}) + 1
    IN [k \in DOMAIN rows |-> rows[CHOOSE i \in DOMAIN rows : rank(i) = k]]

(* By a time, ties in the order they were produced.                            *)
ByTime(rows) ==
    Sorted(rows, LAMBDA i, j : \/ rows[i].time < rows[j].time
                               \/ rows[i].time = rows[j].time /\ i < j)
=============================================================================
