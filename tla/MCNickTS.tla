------------------------------ MODULE MCNickTS ------------------------------
(***************************************************************************)
(* Small networks for NickTS: two linked servers, and a line a - b - c.    *)
(***************************************************************************)
EXTENDS NickTS, TLC

CONSTANTS a, b, c, u1, u2

PairServers == {a, b}
PairRoute == (a :> (a :> a @@ b :> b)) @@ (b :> (a :> a @@ b :> b))

LineServers == {a, b, c}
LineRoute ==
    (a :> (a :> a @@ b :> b @@ c :> b)) @@
    (b :> (a :> a @@ b :> b @@ c :> c)) @@
    (c :> (a :> b @@ b :> b @@ c :> c))

\* One user on each end of the network.
TwoUsers == {u1, u2}
HomeAB == u1 :> a @@ u2 :> b
HomeAC == u1 :> a @@ u2 :> c

\* Different people, and one person connected twice.
Strangers == u1 :> "x" @@ u2 :> "y"
SameUser == u1 :> "x" @@ u2 :> "x"
=============================================================================
