---------------------------- MODULE MCAdmission ----------------------------
(* A small instance of Admission for TLC: see README.md for the bounds.     *)
EXTENDS Admission, TLC

CONSTANTS r1, r2
Symmetric == Permutations(Requests)

\* In the order of Python's str.
Texts == <<"01", "1", "10", "1a", "2">>
InstanceNumerals == {"01", "1", "10", "2"}
InstanceValue == [x \in InstanceNumerals |->
  CASE x = "10" -> 10 [] x = "2" -> 2 [] OTHER -> 1]
InstanceOrder ==
  {<<Texts[p[1]], Texts[p[2]]>> : p \in {q \in (1..5) \X (1..5) : q[1] > q[2]}}
InstanceIdentifiers == {Texts[i] : i \in 1..5}
InstanceVersions ==
  {[core |-> <<1, 0, 0>>, pre |-> p] :
     p \in {<< >>, <<"01">>, <<"1">>, <<"10">>, <<"2">>, <<"1a">>, <<"1", "2">>}}
  \cup {[core |-> <<0, 9, 1>>, pre |-> << >>]}
=============================================================================
