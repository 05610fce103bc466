------------------------------ MODULE MCPaging ------------------------------
(* Paging on small instances. *)
EXTENDS Paging, TLC

CONSTANTS u1, u2

Whole(n) == [full |-> n, rest |-> 0]
Begun == {[full |-> 0, rest |-> 1]}
OneOrTwo == {Whole(1), Whole(2)}
Mixed == {[full |-> 1, rest |-> 1], Whole(3)}
Symmetry == Permutations(Users)

(* Once contents are lost they stay so, and then no guard, and no property but
   their types, reads data or mem: states that differ in them alone are the
   same. *)
Relevant ==
  <<state, currpid, loadVars, tableVars, ftab, stab, older, heap, swap, lost, wild,
    created, blocks, IF lost THEN {} ELSE {<<data, mem>>}>>
=============================================================================
