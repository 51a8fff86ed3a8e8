----------------------------- MODULE ClientQueues -----------------------------
(***************************************************************************)
(* What stands between a connection and its socket: the queue of what has  *)
(* been read and not parsed (packet.c) and the queue of what has been said *)
(* and not written (send.c), both of them queues of blocks (dbuf.c).       *)
(*                                                                         *)
(* A byte is a letter, a space or the end of a line.  A line that begins   *)
(* with Hello alone stands for NICK and USER while it is unknown, and      *)
(* for a command that ends the grace period (flood_endgrace) after that;   *)
(* one that begins with Peer makes it a server; the others say nothing to  *)
(* this module.  said, got, parsed and wrote are kept for the properties.  *)
(***************************************************************************)
EXTENDS Naturals, Sequences, FiniteSets, SequencesExt

CONSTANTS
    Space, Eol,
    Hello, Peer,    \* the letters a registering and a linking line begin with
    Block,          \* DBUF_BLOCK_SIZE
    LineMax,        \* IRCD_BUFSIZE - 2
    MaxFlood,       \* MAX_FLOOD
    Burst,          \* MAX_FLOOD_BURST
    ClientFlood,    \* ConfigFileEntry.client_flood
    SendQ,          \* what get_sendq gives
    Thresholds,     \* what a user's and a server's queue may reach before
                    \* send_message writes
    Read, Said,     \* the pieces recv may give and the messages there are
    MaxBytes        \* bound on the bytes read and said

VARIABLES
    status,     \* "unknown", "client", "server", "dead" or "exited"
    exempt,     \* what flood limits spare this client once it is registered:
                \* .lines, what no_oper_flood gives it, and .oper
    recvq, sendq,
    allow, sent, done,  \* allow_read, sent_parsed, FLAGS_FLOODDONE
    blocked,            \* FLAGS_BLOCKED
    got, parsed, said, wrote

vars == <<status, exempt, recvq, sendq, allow, sent, done, blocked,
          got, parsed, said, wrote>>

\* no_oper_flood is for operators and those with can_flood; the limit of the
\* queue it lifts for operators only.
Exemptions ==
    {x \in [lines : {"no", "four", "all"}, oper : BOOLEAN] : x.lines = "no" => ~x.oper}

Defunct == status \in {"dead", "exited"}

----------------------------------------------------------------------------
(* dbuf.c: a sequence of blocks of at most Block bytes. *)

Bytes(q) == FlattenSeq(q)
Size(q) == Len(Bytes(q))

\* dbuf_put: the last block is filled up, the rest goes to new ones.
Put(q, data) ==
    LET tail == IF q = <<>> THEN <<>> ELSE Last(q)
        front == IF q = <<>> THEN <<>> ELSE Front(q)
        all == tail \o data
        n == (Len(all) + Block - 1) \div Block
        part(i) == SubSeq(all, (i - 1) * Block + 1,
                          IF i * Block < Len(all) THEN i * Block ELSE Len(all))
    IN  IF data = <<>> THEN q ELSE front \o [i \in 1..n |-> part(i)]

\* Bytes that stand before the i-th block.
Before(q, i) == Size(SubSeq(q, 1, i - 1))

\* Mutant: a block is freed with the bytes that were not written.
DeleteBlocks(q, count) ==
    IF count = 0 THEN q
    ELSE SubSeq(q, 1 + Cardinality({i \in 1..Len(q) : Before(q, i) < count}), Len(q))

\* dbuf_delete: whole blocks first, then the beginning of the next.
Delete(q, count) ==
    LET whole == Cardinality({i \in 1..Len(q) : Before(q, i + 1) <= count})
        rest == SubSeq(q, whole + 1, Len(q))
        cut == count - Before(q, whole + 1)
    IN  IF rest = <<>> \/ cut = 0 THEN rest
        ELSE [rest EXCEPT ![1] = SubSeq(@, cut + 1, Len(@))]

----------------------------------------------------------------------------
(* extract_one_line *)

Empty(c) == c \in {Space, Eol}
FirstFrom(data, i, P(_)) ==
    LET at == {j \in i..Len(data) : P(data[j])}
    IN  IF at = {} THEN Len(data) + 1 ELSE CHOOSE j \in at : \A k \in at : j <= k

\* The line, and how many bytes leave the queue with it: the empty ones
\* before and after it, or only the ones before if the line is not whole.
Extract(q) ==
    LET data == Bytes(q)
        from == FirstFrom(data, 1, LAMBDA c : ~Empty(c))
        end == FirstFrom(data, from, LAMBDA c : c = Eol)
        next == FirstFrom(data, end, LAMBDA c : ~Empty(c))
        most == IF end - from < LineMax THEN end - 1 ELSE from + LineMax - 1
    IN  IF end > Len(data)
        THEN [line |-> <<>>, queue |-> Delete(q, from - 1)]
        ELSE [line |-> SubSeq(data, from, most), queue |-> Delete(q, next - 1)]

----------------------------------------------------------------------------
(* parse_client_queued.  c is the connection as far as parsing changes it; *)
(* turns is the number of lines parsed while it was unknown.               *)

Conn == [status |-> status, recvq |-> recvq, allow |-> allow, sent |-> sent,
         done |-> done, parsed |-> parsed, turns |-> 0]

\* client_dopacket, and what the handlers of the line do to the flood limits
\* (register_local_user, flood_endgrace).
Parsed(c, line) ==
    LET with == [c EXCEPT !.parsed = Append(@, line)] IN
    CASE c.status = "unknown" /\ line = <<Hello>> ->
            [with EXCEPT !.status = "client", !.allow = Burst]
      [] c.status = "unknown" /\ line[1] = Peer -> [with EXCEPT !.status = "server"]
      [] c.status = "client" /\ line = <<Hello>> /\ ~c.done ->
            [with EXCEPT !.done = TRUE, !.allow = MaxFlood, !.sent = 0]
      [] OTHER -> with

\* May the next line be parsed in this call?
MayParse(c) ==
    \/ c.status = "unknown" /\ c.turns < MaxFlood
    \/ c.status = "server"
    \/ /\ c.status = "client"
       /\ \/ exempt.lines = "all"
          \/ exempt.lines = "four" /\ c.sent < 4 * c.allow
          \/ exempt.lines = "no" /\ c.sent < c.allow

OneLine(c) ==
    LET x == Extract(c.recvq)
        p == Parsed([c EXCEPT !.recvq = x.queue], x.line)
    IN  IF ~MayParse(c) THEN c
        ELSE IF x.line = <<>> THEN [c EXCEPT !.recvq = x.queue]
        ELSE IF c.status = "unknown" THEN [p EXCEPT !.turns = @ + 1]
        ELSE IF c.status = "client" THEN [p EXCEPT !.sent = @ + 1]
        ELSE p

\* No queue holds more lines than bytes.
ParseQueued(c) ==
    FoldLeft(LAMBDA d, i : OneLine(d), c, [i \in 1..(Size(c.recvq) + 1) |-> i])

Become(c) ==
    /\ status' = c.status /\ recvq' = c.recvq
    /\ allow' = c.allow /\ sent' = c.sent /\ done' = c.done
    /\ parsed' = c.parsed

Init ==
    /\ status = "unknown"
    /\ exempt \in Exemptions
    /\ recvq = <<>> /\ sendq = <<>>
    /\ allow = MaxFlood /\ sent = 0 /\ done = FALSE
    /\ blocked = FALSE
    /\ got = <<>> /\ parsed = <<>> /\ said = <<>> /\ wrote = <<>>

\* exit_client and close_connection: both queues are cleared.
Exited == status' = "exited" /\ recvq' = <<>> /\ sendq' = <<>>

\* read_packet: what has come is queued and parsed, and a queue that is
\* still over the limit ends the connection, unless it is a server's or an
\* operator's.
ReadPacket ==
    \E data \in Read :
        LET now == ParseQueued([Conn EXCEPT !.recvq = Put(@, data)]) IN
        /\ ~Defunct
        /\ Len(got) + Len(said) + Len(data) <= MaxBytes
        /\ got' = got \o data
        /\ IF /\ now.status # "server"
              /\ Size(now.recvq) > ClientFlood
              /\ ~(now.status = "client" /\ exempt.oper)
           THEN /\ Exited
                /\ allow' = now.allow /\ sent' = now.sent /\ done' = now.done
                /\ parsed' = now.parsed
           ELSE Become(now) /\ UNCHANGED sendq
        /\ UNCHANGED <<exempt, blocked, said, wrote>>

\* flood_recalc, a flush handler that sets itself again.
FloodRecalc ==
    /\ ~Defunct
    /\ LET left == IF done /\ sent > 2 THEN sent - 2 ELSE 0
       IN  Become(ParseQueued([Conn EXCEPT !.sent = left]))
    /\ UNCHANGED <<exempt, sendq, blocked, got, said, wrote>>

\* send_queued_write: the socket takes n bytes, block after block, and the
\* rest waits for it; an error other than that kills the link.
Write(q, n, failed) ==
    /\ wrote' = wrote \o SubSeq(Bytes(q), 1, n)
    /\ IF failed
       THEN /\ status' = "dead" /\ recvq' = <<>> /\ sendq' = <<>>
            /\ UNCHANGED blocked
       ELSE /\ sendq' = Delete(q, n)
            /\ blocked' = (n < Size(q))
            /\ UNCHANGED <<status, recvq>>

Threshold == IF status = "server" THEN Thresholds.server ELSE Thresholds.user

\* send_message: over the limit the link is dead, and over the threshold
\* some of the queue is written at once.
SendMessage ==
    \E data \in Said :
        LET q == Put(sendq, data) IN
        /\ ~Defunct
        /\ Len(got) + Len(said) + Len(data) <= MaxBytes
        /\ IF Size(sendq) + Len(data) > SendQ
           THEN /\ status' = "dead" /\ recvq' = <<>> /\ sendq' = <<>>
                /\ UNCHANGED <<said, wrote, blocked>>
           ELSE /\ said' = said \o data
                /\ IF Size(q) > Threshold /\ ~blocked
                   THEN \E n \in 0..Size(q), failed \in BOOLEAN :
                            (failed => n < Size(q)) /\ Write(q, n, failed)
                   ELSE sendq' = q /\ UNCHANGED <<status, recvq, wrote, blocked>>
        /\ UNCHANGED <<exempt, allow, sent, done, got, parsed>>

\* send_queued_all
SendQueuedAll ==
    /\ ~Defunct /\ ~blocked /\ sendq # <<>>
    /\ \E n \in 0..Size(sendq), failed \in BOOLEAN :
           (failed => n < Size(sendq)) /\ Write(sendq, n, failed)
    /\ UNCHANGED <<exempt, allow, sent, done, got, parsed, said>>

\* sendq_unblocked
SendqUnblocked ==
    /\ ~Defunct /\ blocked
    /\ blocked' = FALSE
    /\ UNCHANGED <<status, exempt, recvq, sendq, allow, sent, done,
                   got, parsed, said, wrote>>

\* exit_client on whatever grounds: what the socket takes is written before
\* it is closed, whether it was blocked or not.
Exit ==
    /\ status # "exited"
    /\ Exited
    /\ \E n \in 0..Size(sendq) : wrote' = wrote \o SubSeq(Bytes(sendq), 1, n)
    /\ blocked' = FALSE
    /\ UNCHANGED <<exempt, allow, sent, done, got, parsed, said>>

Next ==
    \/ ReadPacket \/ FloodRecalc
    \/ SendMessage \/ SendQueuedAll \/ SendqUnblocked
    \/ Exit

Spec == Init /\ [][Next]_vars

----------------------------------------------------------------------------
TypeOK ==
    /\ status \in {"unknown", "client", "server", "dead", "exited"}
    /\ exempt \in Exemptions
    /\ \A q \in {recvq, sendq} : \A i \in 1..Len(q) : Len(q[i]) \in 1..Block
    /\ allow \in {MaxFlood, Burst}
    /\ sent \in Nat
    /\ done \in BOOLEAN /\ blocked \in BOOLEAN

\* The lines of a sequence of bytes, whatever pieces it came in.
Ends(data) == {i \in 1..Len(data) : data[i] = Eol}
LineAt(data, e) ==
    LET before == {i \in Ends(data) : i < e}
        after == IF before = {} THEN 0 ELSE CHOOSE i \in before : \A j \in before : j <= i
        from == FirstFrom(data, after + 1, LAMBDA c : c # Space)
    IN  SubSeq(data, from, IF e - from < LineMax THEN e - 1 ELSE from + LineMax - 1)
Lines(data) ==
    SelectSeq([k \in 1..Cardinality(Ends(data)) |->
                  LineAt(data, SetToSortSeq(Ends(data), <)[k])],
              LAMBDA line : line # <<>>)

\* However the bytes were cut when they were read, and however the flood
\* limit made them wait, the lines parsed and the ones still in the queue are
\* those of the bytes that came, in order (extract_one_line, dbuf_delete).
LinesAsSent ==
    /\ IsPrefix(parsed, Lines(got))
    /\ ~Defunct => parsed \o Lines(Bytes(recvq)) = Lines(got)

\* The socket is given the bytes of the messages in order, each once; what
\* has not been written is still in the queue as long as the link lives
\* (dbuf_put, dbuf_delete, send_queued_write).
BytesAsSaid ==
    /\ IsPrefix(wrote, said)
    /\ ~Defunct => wrote \o Bytes(sendq) = said

QueuesFaithful == LinesAsSent /\ BytesAsSaid

=============================================================================
