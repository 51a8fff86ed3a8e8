---------------------------- MODULE MCConfBlocks ----------------------------
(***************************************************************************)
(* Small instances of ConfBlocks.                                          *)
(***************************************************************************)
EXTENDS ConfBlocks, TLC

CONSTANTS users

\* One class with its limits, its block size, or the class itself changed.
Uses(class, hub) ==
    [auth |-> class, oper |-> class, server |-> class, hub |-> hub]
File(limits, class, hub) ==
    [classes |-> [n \in Classes |-> limits], blocks |-> Uses(class, hub)]

Two == [max |-> 2, perip |-> 0, percidr |-> 2, wide |-> FALSE]
Wide == [max |-> 2, perip |-> 0, percidr |-> 2, wide |-> TRUE]
PerIp == [max |-> 0, perip |-> 2, percidr |-> 0, wide |-> FALSE]

SomeFiles == {File(Two, users, None), File(Wide, users, users),
              File(PerIp, users, None), File(None, users, None)}
OneFile == {File([Two EXCEPT !.max = 1, !.percidr = 0], users, None),
            File(None, users, None)}
Perms == Permutations(Clients) \cup Permutations(Addresses)
=============================================================================
