------------------------------ MODULE MCJitOp -------------------------------
(* Instances of JitOp: a tree, a ring with a chord, and a chain that shares  *)
(* two nodes with them.                                                      *)
EXTENDS JitOp

Row(id, adjacencies) == [id |-> id, adjacencies |-> adjacencies]

MCGraphs ==
    {<<Row("a", <<"b", "c">>), Row("b", <<"d">>)>>,
     <<Row("a", <<"b", "c">>), Row("b", <<"c", "d">>), Row("c", <<"d">>)>>,
     <<Row("b", <<"d">>), Row("d", <<"e">>)>>}
=============================================================================
