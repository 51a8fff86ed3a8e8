------------------------------- MODULE Glines -------------------------------
(***************************************************************************)
(* G-lines: an operator's GLINE goes to all servers, each of which counts  *)
(* the votes for itself (modules/m_gline.c, src/s_gline.c).  One mask is   *)
(* enough: those for others do not meet.                                   *)
(*                                                                         *)
(* A gdeny block of a server may keep it from passing requests on, from    *)
(* placing the G-line, or both; so may glines { enable = no; } from        *)
(* placing it.  All links understand GLN.                                  *)
(***************************************************************************)
EXTENDS Naturals, Sequences, FiniteSets, SequencesExt, Routes

CONSTANTS
    Opers,
    Home,           \* Home[o]: the server of the operator o
    Denies,         \* the gdeny blocks there may be, for each server
    Opened,         \* where operators remove G-lines, or they or votes expire
    MaxRequests     \* bound on the GLINE commands

Actions == {"block", "reject", "disabled"}

VARIABLES
    deny,           \* deny[s]: what s does with the requests of others
    glines,         \* glines[s]: the entries of temporary_glines of s
    pending,        \* pending[s]: who has voted, <<>> without an entry
    wire,           \* wire[l]: the requests sent on the link and not read
    requests,       \* the requests, in order
    lapsed          \* the servers where a G-line was removed, or it or votes
                    \* have expired

gvars == <<deny, glines, pending, wire, requests, lapsed>>

TypeOK ==
    /\ deny \in Denies
    /\ glines \in [Servers -> 0 .. 2 * MaxRequests]
    /\ pending \in [Servers -> SeqOf(Opers, 2)]
    /\ wire \in [Links -> SeqOf(Opers, MaxRequests)]
    /\ requests \in SeqOf(Opers, MaxRequests)
    /\ lapsed \subseteq Servers

-----------------------------------------------------------------------------

\* Operators of the same server; those of different ones differ in user and
\* host too.
SameVoter(o, p) == Home[o] = Home[p]

\* check_majority_gline answers GLINE_ALREADY_VOTED.
AlreadyVoted(s, o) ==
    glines[s] = 0 /\ \E i \in DOMAIN pending[s] : SameVoter(o, pending[s][i])

\* (mutant of Votes: the entry of a G-line just placed stays)
VotesKept(s, o) ==
    IF glines[s] > 0 THEN [placed |-> 0, pending |-> pending[s]]
    ELSE IF Len(pending[s]) = 2
    THEN [placed |-> 1, pending |-> Append(pending[s], o)]
    ELSE [placed |-> 0, pending |-> Append(pending[s], o)]

\* check_majority_gline: what it places, and the votes it leaves.  The third
\* vote places the G-line, and cleanup_glines frees the entry.
Votes(s, o) ==
    IF glines[s] > 0 THEN [placed |-> 0, pending |-> pending[s]]
    ELSE IF Len(pending[s]) = 2 THEN [placed |-> 1, pending |-> <<>>]
    ELSE [placed |-> 0, pending |-> Append(pending[s], o)]

\* check_majority_gline and set_local_gline, which follows whatever the answer
\* is, unless it was GLINE_ALREADY_VOTED.
Voted(s, o) ==
    IF AlreadyVoted(s, o) THEN UNCHANGED <<glines, pending>>
    ELSE /\ glines' = [glines EXCEPT ![s] = @ + Votes(s, o).placed + 1]
         /\ pending' = [pending EXCEPT ![s] = Votes(s, o).pending]

\* sendto_server, but not to the link it came from.
Sent(w, s, from, o) ==
    [l \in Links |-> IF l[1] = s /\ l[2] # from THEN Append(w[l], o) ELSE w[l]]

\* mo_gline
Gline(o) ==
    LET s == Home[o] IN
    /\ Len(requests) < MaxRequests
    /\ "disabled" \notin deny[s]
    /\ ~AlreadyVoted(s, o)
    /\ Voted(s, o)
    /\ wire' = Sent(wire, s, s, o)
    /\ requests' = Append(requests, o)
    /\ UNCHANGED <<deny, lapsed>>

\* (mutant of Receive: a server that rejects a request does not pass it on)
ReceiveRejects(l) ==
    LET s == l[2]
        o == Head(wire[l])
        w == [wire EXCEPT ![l] = Tail(@)]
    IN
    /\ wire[l] # <<>>
    /\ wire' = IF deny[s] \cap {"block", "reject"} # {} THEN w ELSE Sent(w, s, l[1], o)
    /\ IF deny[s] \cap {"reject", "disabled"} # {} THEN UNCHANGED <<glines, pending>>
       ELSE Voted(s, o)
    /\ UNCHANGED <<deny, requests, lapsed>>

\* do_sgline: passed on unless that is denied, then voted for unless that is.
Receive(l) ==
    LET s == l[2]
        o == Head(wire[l])
        w == [wire EXCEPT ![l] = Tail(@)]
    IN
    /\ wire[l] # <<>>
    /\ wire' = IF "block" \in deny[s] THEN w ELSE Sent(w, s, l[1], o)
    /\ IF deny[s] \cap {"reject", "disabled"} # {} THEN UNCHANGED <<glines, pending>>
       ELSE Voted(s, o)
    /\ UNCHANGED <<deny, requests, lapsed>>

\* mo_ungline and remove_gline_match, which take out the first entry; or the
\* first one expires (expire_tklines).
Ungline(s) ==
    /\ glines[s] > 0
    /\ glines' = [glines EXCEPT ![s] = @ - 1]
    /\ lapsed' = lapsed \cup {s}
    /\ UNCHANGED <<deny, pending, wire, requests>>

\* cleanup_glines, from the event: an entry that is too old, or is placed.
\* Time is not kept: an entry may be too old at any moment.
Cleanup(s) ==
    /\ pending[s] # <<>>
    /\ pending' = [pending EXCEPT ![s] = <<>>]
    /\ lapsed' = lapsed \cup {s}
    /\ UNCHANGED <<deny, glines, wire, requests>>

Init ==
    /\ deny \in Denies
    /\ glines = [s \in Servers |-> 0]
    /\ pending = [s \in Servers |-> <<>>]
    /\ wire = [l \in Links |-> <<>>]
    /\ requests = <<>>
    /\ lapsed = {}

Next ==
    \/ \E o \in Opers : Gline(o)
    \/ \E l \in Links : Receive(l)
    \/ \E s \in Opened : Ungline(s) \/ Cleanup(s)

Spec == Init /\ [][Next]_gvars

-----------------------------------------------------------------------------
(* Properties *)

\* The servers strictly between s and t.
Between(s, t) ==
    {x \in Servers \ {s, t} : \E l, m \in Links :
        l # m /\ l[1] = x /\ m[1] = x /\ s \in Behind[l] /\ t \in Behind[m]}

\* s is asked to place what the operator o requests.
Asked(s, o) ==
    \/ s = Home[o]
    \/ /\ deny[s] \cap {"reject", "disabled"} = {}
       /\ \A x \in Between(s, Home[o]) : "block" \notin deny[x]

\* A G-line is only placed where the gdeny blocks on the way allow a request
\* for it to be obeyed (do_sgline).
OnlyWhereAsked ==
    \A s \in Servers : glines[s] > 0 => \E i \in DOMAIN requests : Asked(s, requests[i])

\* The servers with an operator whose request s is asked to place.
VotedFor(s) == {Home[o] : o \in {p \in ToSet(requests) : Asked(s, p)}}

\* Once all has been read it is placed wherever the gdeny blocks let the votes
\* of three servers through and neither it nor votes have lapsed, on both sides
\* of servers that reject it.
EverywhereAsked ==
    (\A l \in Links : wire[l] = <<>>) =>
        \A s \in Servers \ lapsed : Cardinality(VotedFor(s)) >= 3 => glines[s] > 0

\* A G-line is where the gdeny blocks on the way let the votes for it through,
\* and nowhere else (do_sgline).
PlacedWhereAsked == OnlyWhereAsked /\ EverywhereAsked

\* Contradicted: a G-line is placed "if 3 opers agree" (m_gline.c:119), and
\* "There must be at least 3 different opers agreeing" (:493), of three servers.
\* mo_gline and do_sgline place it whatever check_majority_gline answers, unless
\* that is GLINE_ALREADY_VOTED.
ThreeAgree ==
    \A s \in Servers : glines[s] > 0 =>
        Cardinality({Home[o] : o \in ToSet(requests)}) >= 3

=============================================================================
