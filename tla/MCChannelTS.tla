----------------------------- MODULE MCChannelTS -----------------------------
(***************************************************************************)
(* Small networks for ChannelTS: two linked servers, and a line a - b - c. *)
(***************************************************************************)
EXTENDS ChannelTS, TLC

CONSTANTS a, b, c, u1, u2, u3, nt, mod

PairServers == {a, b}
PairRoute == (a :> (a :> a @@ b :> b)) @@ (b :> (a :> a @@ b :> b))

LineServers == {a, b, c}
LineRoute ==
    (a :> (a :> a @@ b :> b @@ c :> b)) @@
    (b :> (a :> a @@ b :> b @@ c :> c)) @@
    (c :> (a :> b @@ b :> b @@ c :> c))

TwoUsers == {u1, u2}
ThreeUsers == {u1, u2, u3}
HomeAB == u1 :> a @@ u2 :> b
HomeAC == u1 :> a @@ u2 :> c
HomeAAB == u1 :> a @@ u2 :> a @@ u3 :> b
HomeABC == u1 :> a @@ u2 :> b @@ u3 :> c
=============================================================================
