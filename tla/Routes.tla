------------------------------- MODULE Routes -------------------------------
(***************************************************************************)
(* The tree of servers, as each of them uses it to send a line on: a link  *)
(* is a pair of neighbours, and every other server is behind one link of   *)
(* a server (from of struct Client).                                       *)
(***************************************************************************)
CONSTANTS
    Servers,
    Behind          \* Behind[<<s, t>>]: the servers s reaches by its link to t

Links == DOMAIN Behind

\* Behind describes a tree.  ServerTree has how it comes to be.
TreeAssumption ==
    /\ Links \subseteq Servers \X Servers
    /\ Behind \in [Links -> SUBSET Servers]
    \* A link leads to the other end and over that end's other links.
    /\ \A l \in Links :
          Behind[l] = {l[2]} \cup
                      UNION {Behind[m] : m \in {n \in Links : n[1] = l[2] /\ n[2] # l[1]}}
    \* It does not lead back, and a server is behind one link only.
    /\ \A l \in Links : l[1] \notin Behind[l]
    /\ \A l, m \in Links : l[1] = m[1] /\ l # m => Behind[l] \cap Behind[m] = {}
    \* Everybody is connected.
    /\ \A s \in Servers, t \in Servers : s # t =>
          \E l \in Links : l[1] = s /\ t \in Behind[l]
    \* Two neighbours are on the same side of any third server.
    /\ \A l, m \in Links : m[1] \notin {l[1], l[2]} =>
          (l[1] \in Behind[m] <=> l[2] \in Behind[m])

=============================================================================
