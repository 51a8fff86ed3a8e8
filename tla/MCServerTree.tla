---------------------------- MODULE MCServerTree ----------------------------
(***************************************************************************)
(* Small networks for ServerTree.                                          *)
(***************************************************************************)
EXTENDS ServerTree, TLC

CONSTANTS a, b, c, d

\* A triangle in which a and b both have a connect block for the other, and a
\* fourth server beyond one of them.
Triangle == {<<a, b>>, <<b, a>>, <<b, c>>, <<c, a>>}
TriangleAndMore == Triangle \cup {<<c, d>>}

\* In the triangle all are hubs, or a is not.  With the fourth server, a and d
\* may introduce nobody, and only the operator takes links down.
AllHubs == [blocks |-> Triangle, hubs |-> {a, b, c}, leaves |-> {},
            opers |-> {a}, lossy |-> TRUE]
NotA == [AllHubs EXCEPT !.hubs = {b, c}]
Beyond == [blocks |-> TriangleAndMore \ {<<b, a>>}, hubs |-> {a, b, c},
           leaves |-> {a, d}, opers |-> {a}, lossy |-> FALSE]
ThreeConfigs == {AllHubs, NotA, Beyond}
=============================================================================
