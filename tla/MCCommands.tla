------------------------------ MODULE MCCommands ------------------------------
(***************************************************************************)
(* What users and operators ask for, on a line of three servers, on a star *)
(* of five or in one: bans placed on other servers (SharedLines), votes    *)
(* for G-lines (Glines), messages (Delivery), user modes (UserModes), the  *)
(* queues of a connection (ClientQueues), a compressed link (Servlink) and *)
(* LIST (Listing).  The seven share no state; part says which of them a    *)
(* behaviour is about, and the others stay at their initial states.        *)
(***************************************************************************)
EXTENDS Naturals, Sequences, TLC

CONSTANTS
    a, b, c, d, e, u1, u2, u3, oa, oc, od, mask, n1, n2, n3, r1, r2,
    Hello, Letter, More, Space, Eol, None, Absent

VARIABLES
    part,
    lines, swire, shared, commands,
    deny, glines, pending, gwire, requests, lapsed,
    members, ops, moderated, dwire, got, sent, changes,
    servers, modes, count, linked, uwire, ever, uchanges, splits,
    status, exempt, recvq, sendq, allow, spent, done, blocked, came, parsed,
    said, wrote,
    fd, spoken, unsent, heard, stuck, slinkq, ctrl, toLink, fromLink, link, wires,
    chain, secret, task, listing, asked, shown, steady, phase

svars == <<lines, swire, shared, commands>>
gvars == <<deny, glines, pending, gwire, requests, lapsed>>
dvars == <<members, ops, moderated, dwire, got, sent, changes>>
uvars == <<servers, modes, count, linked, uwire, ever, uchanges, splits>>
qvars == <<status, exempt, recvq, sendq, allow, spent, done, blocked, came,
           parsed, said, wrote>>
lvars == <<fd, spoken, unsent, heard, stuck, slinkq, ctrl, toLink, fromLink,
           link, wires>>
tvars == <<chain, secret, task, listing, asked, shown, steady, phase>>

\* The line a - b - c.
Line == <<a, b>> :> {b, c} @@ <<b, a>> :> {a} @@ <<b, c>> :> {c} @@ <<c, b>> :> {a, b}

\* Either all let others place bans, or the one in the middle does not.
S == INSTANCE SharedLines WITH
         Servers <- {a, b, c}, Behind <- Line, Origins <- {a, b},
         Targets <- {{c}, {a, b}}, Clustered <- {b, c},
         Sharing <- {{a, b, c}, {a, c}}, Types <- {"kline", "resv"},
         Masks <- {mask}, MaxCommands <- 3, wire <- swire

\* A star around b.  Operators are on three of the leaves, and e only hears of
\* what they ask through b.
Leaves == {a, c, d, e}
Star == [l \in {b} \X Leaves |-> {l[2]}] @@
        [l \in Leaves \X {b} |-> (Leaves \cup {b}) \ {l[1]}]

\* Nobody denies anything; the server in the middle rejects what it passes on;
\* it passes nothing on, and one of the others takes no G-lines.
SomeDenies ==
    LET Nobody == [s \in Leaves \cup {b} |-> {}]
    IN  {Nobody, [Nobody EXCEPT ![b] = {"reject"}],
         [Nobody EXCEPT ![b] = {"block"}, ![c] = {"disabled"}]}

G == INSTANCE Glines WITH
         Servers <- Leaves \cup {b}, Behind <- Star, Opers <- {oa, oc, od},
         Home <- oa :> a @@ oc :> c @@ od :> d, Denies <- SomeDenies,
         Opened <- {e}, MaxRequests <- 3, wire <- gwire

D == INSTANCE Delivery WITH
         Servers <- {a, b, c}, Behind <- Line, Users <- {u1, u2, u3},
         Home <- u1 :> a @@ u2 :> c @@ u3 :> c, Founder <- u1, Deaf <- {u3},
         Accepts <- {<<u2, u1>>}, Masked <- {{u1, u3}}, NoExternal <- TRUE,
         MaxMessages <- 1, MaxChanges <- 4, wire <- dwire

U == INSTANCE UserModes WITH
         First <- a, Middle <- b, Far <- c, Users <- {u1, u2},
         Home <- u1 :> a @@ u2 :> c, WithIDs <- TRUE,
         InvisibleOnConnect <- TRUE, OperModes <- {"w"}, OperOnly <- {"w"},
         MaxChanges <- 2, MaxSplits <- 1, wire <- uwire, changes <- uchanges

\* The socket gives up to three bytes at a time.
Q == INSTANCE ClientQueues WITH
         Peer <- Letter, Block <- 2, LineMax <- 2, MaxFlood <- 1, Burst <- 2, ClientFlood <- 3,
         SendQ <- 5, Thresholds <- [server |-> 2, user |-> 3],
         Read <- UNION {[1 .. n -> {Hello, Letter, Space, Eol}] : n \in 1 .. 3},
         Said <- {<<Hello, More>>, <<More, Hello, Hello>>}, MaxBytes <- 6,
         sent <- spent, got <- came

\* The inflater gives one line at a time.
L == INSTANCE Servlink WITH
         Near <- a, Far <- c, BufLen <- 1, MaxSaid <- 3,
         said <- spoken, sendq <- unsent, parsed <- heard, blocked <- stuck,
         wire <- wires

\* Two of the channels share a bucket; one is only for this server.  LIST may
\* name one channel, twice too, or two.
T == INSTANCE Listing WITH
         Names <- {n1, n2, n3}, Hash <- n1 :> 1 @@ n2 :> 1 @@ n3 :> 2,
         Buckets <- 2, Ours <- {n3}, Readers <- {r1, r2}, Remote <- {r2},
         Masks <- {{}, {{n1, n3}}},
         Named <- {<<n1>>, <<n3>>, <<n1, n1>>, <<n1, n2>>}

\* The theorems of SharedLinesProofs and GlinesProofs are about these trees too.
ASSUME LineIsATree == S!TreeAssumption
ASSUME StarIsATree == G!TreeAssumption

PartInit ==
    /\ part \in {"lines", "glines", "messages", "modes", "queues", "link", "list"}
    /\ S!Init /\ G!Init /\ D!Init /\ U!Init /\ Q!Init /\ L!Init /\ T!Init
    /\ part = "lines" \/ shared = {a, c}
    /\ part = "glines" \/ \A s \in DOMAIN deny : deny[s] = {}
    /\ part = "queues" \/ exempt = [lines |-> "no", oper |-> FALSE]

PartNext ==
    \/ part = "lines" /\ S!Next
       /\ UNCHANGED <<part, gvars, dvars, uvars, qvars, lvars, tvars>>
    \/ part = "glines" /\ G!Next
       /\ UNCHANGED <<part, svars, dvars, uvars, qvars, lvars, tvars>>
    \/ part = "messages" /\ D!Next
       /\ UNCHANGED <<part, svars, gvars, uvars, qvars, lvars, tvars>>
    \/ part = "modes" /\ U!Next
       /\ UNCHANGED <<part, svars, gvars, dvars, qvars, lvars, tvars>>
    \/ part = "queues" /\ Q!Next
       /\ UNCHANGED <<part, svars, gvars, dvars, uvars, lvars, tvars>>
    \/ part = "link" /\ L!Next
       /\ UNCHANGED <<part, svars, gvars, dvars, uvars, qvars, tvars>>
    \/ part = "list" /\ T!Next
       /\ UNCHANGED <<part, svars, gvars, dvars, uvars, qvars, lvars>>

PartSpec ==
    PartInit /\ [][PartNext]_<<part, svars, gvars, dvars, uvars, qvars, lvars, tvars>>

\* Every part keeps its type.
PartTypeOK ==
    CASE part = "lines" -> S!TypeOK
      [] part = "glines" -> G!TypeOK
      [] part = "messages" -> D!TypeOK
      [] part = "modes" -> U!TypeOK
      [] part = "queues" -> Q!TypeOK
      [] part = "link" -> L!TypeOK
      [] part = "list" -> T!TypeOK

\* A K-line or reservation for other servers comes to be where it was meant to,
\* for as long, and nowhere else (cluster_a_line, ms_kline, ms_resv, ms_encap).
LinesShared == part = "lines" => S!LinesShared

\* A G-line is where the gdeny blocks let the votes for it through, and nowhere
\* else (do_sgline).
PlacedWhereAsked == part = "glines" => G!PlacedWhereAsked

\* A message reaches everybody it is for, once (msg_channel, msg_client).
DeliveredOnce == part = "messages" => D!DeliveredOnce

\* Every server counts the users it knows and sees their modes as they are
\* (set_user_mode, register_remote_user, update_client_exit_stats).
UsersRight == part = "modes" => U!UsersRight

\* Nothing is lost or doubled in the queues of a connection (extract_one_line,
\* send_queued_write, dbuf_delete), nor where servlink takes a link over from
\* ircd and in what it passes on (start_io, read_net, read_data).
BytesFaithful ==
    /\ part = "queues" => Q!QueuesFaithful
    /\ part = "link" => L!LinkFaithful

\* LIST shows all that stays to be seen, once, or as often as it was named
\* (safe_list_channels).
ListsAllOnce == part = "list" => T!ListsAllOnce

=============================================================================
