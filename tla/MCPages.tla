------------------------------ MODULE MCPages ------------------------------
(***************************************************************************)
(* An instance of Pages for TLC: two divisions of a region and the view    *)
(* that combines them, and one of another region that has not started; one *)
(* player moved from the second to the first.                              *)
(***************************************************************************)
EXTENDS Pages

Switcher == <<{1}, {2}, {1, 2}, {3}>>
RegionOf == <<1, 1, 1, 2>>
Entered == <<{11, 12}, {21}, {41}>>
Fixtures == <<{111}, {211}, {}>>
Careers == [n \in {31, 32} |-> IF n = 31 THEN <<2, 1>> ELSE <<>>]
=============================================================================
