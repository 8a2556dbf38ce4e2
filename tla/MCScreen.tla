------------------------------ MODULE MCScreen ------------------------------
(* A window of 3 x 2 characters; a long of 8 bits and an int of 4.         *)
EXTENDS Screen, TLC

\* Backspace, enter, A, a key beyond the table, both shift keys and their
\* releases.
Codes == {14, 28, 30, 100} \cup {c + r : c \in {42, 54}, r \in {0, 128}}

Lit(ch) == [k |-> "lit", ch |-> ch]
C == [k |-> "c"]
S == [k |-> "s"]
P == [k |-> "p"]
D(cls) == [k |-> "d", cls |-> cls]
U(cls) == [k |-> "u", cls |-> cls]
X(cls) == [k |-> "x", cls |-> cls]
O(cls) == [k |-> "o", cls |-> cls]

FormatList == <<
  <<S, Lit(10)>>, <<D("long")>>, <<D("int"), U("int")>>, <<P, S>>,
  <<U("long"), C>>, <<C, S>>, <<[k |-> "bad", ch |-> 113], S>>,
  <<X("int"), O("int")>>, <<S>> >>

Num(v) == [num |-> v, str |-> <<WILD>>]
Strings == {[num |-> 200, str |-> s] : s \in {<<>>, <<98>>, <<98, 99, 100, 101>>}}
Longs == {Num(v) : v \in {-128, -1, 0, 10, 127}}
Ints == {Num(v) : v \in {-8, 7}}

ArgList == <<
  {<<s>> : s \in Strings}, {<<v>> : v \in Longs},
  {<<v, u>> : v \in Ints, u \in Ints}, {<<v, s>> : v \in {Num(0), Num(90)}, s \in Strings},
  {<<v, Num(c)>> : v \in {Num(-1), Num(10)}, c \in {0, 66}}, {<<Num(66), s>> : s \in Strings},
  {<<s>> : s \in Strings}, {<<v, u>> : v \in {Num(7), Num(9), Num(10)}, u \in Ints},
  {<<[num |-> 200, str |-> <<>>]>>} >>   \* an empty message

DiscardText == <<45, 68, 45>>
=============================================================================
