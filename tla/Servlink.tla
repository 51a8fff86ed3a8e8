------------------------------- MODULE Servlink -------------------------------
(***************************************************************************)
(* A compressed link of two servers.  After the SERVER line each ircd      *)
(* gives its socket to a process of its own, servlink, which deflates what *)
(* ircd says and inflates what the network gives (server_estab, start_io,  *)
(* servlink/io.c).  What was read or queued too early goes through it too. *)
(*                                                                         *)
(* The lines of an end are numbered, SERVER is 1.  On the wire a line is   *)
(* plain, or is in some byte of the deflated stream; the k-th such byte is *)
(* understood by an inflater that has been given the k - 1 before it.      *)
(* Commands of the control socket are read whole: all that start_io writes *)
(* is less than the socket takes at once.                                  *)
(***************************************************************************)
EXTENDS Naturals, Sequences, SequencesExt

CONSTANTS
    Near, Far,  \* the end that connects and the one that accepts
    BufLen,     \* BUFLEN, the lines an inflater gives at a time
    MaxSaid     \* bound on the lines of each end

VARIABLES
    fd,         \* what ircd's socket leads to: "net", "link" or "closed"
    said,       \* the number of lines it has said
    sendq, parsed,
    blocked,    \* FLAGS_BLOCKED, and whether an event is still to clear it:
                \* "no", "waits" or "forgotten"
    slinkq,     \* commands for servlink that are not written
    ctrl,       \* the control socket
    toLink, fromLink,   \* the data socket
    link,       \* the state of servlink
    wire        \* from this end to the other

vars == <<fd, said, sendq, parsed, blocked, slinkq, ctrl, toLink, fromLink,
          link, wire>>

Ends == {Near, Far}
Other(e) == IF e = Near THEN Far ELSE Near

Plain(lines) == [i \in 1..Len(lines) |-> [at |-> 0, lines |-> <<lines[i]>>]]
LinesOf(bytes) == FlattenSeq([i \in 1..Len(bytes) |-> bytes[i].lines])
Take(seq, n) == SubSeq(seq, 1, n)
Drop(seq, n) == SubSeq(seq, n + 1, Len(seq))

\* in_state and out_state: what has not been written (inBuf, outBuf), how far
\* the two streams have come, and what the inflater has not given yet.
NoLink == [runs |-> FALSE, active |-> FALSE, failed |-> FALSE,
           zipIn |-> FALSE, zipOut |-> FALSE, inflated |-> 0, deflated |-> 0,
           held |-> <<>>, inBuf |-> <<>>, outBuf |-> <<>>]

\* The end that connects has queued its SERVER line (serv_connect_callback).
Init ==
    /\ fd = [e \in Ends |-> "net"]
    /\ said = [e \in Ends |-> IF e = Near THEN 1 ELSE 0]
    /\ sendq = [e \in Ends |-> IF e = Near THEN <<1>> ELSE <<>>]
    /\ parsed = [e \in Ends |-> <<>>]
    /\ blocked = [e \in Ends |-> "no"]
    /\ slinkq = [e \in Ends |-> <<>>]
    /\ ctrl = [e \in Ends |-> <<>>]
    /\ toLink = [e \in Ends |-> <<>>]
    /\ fromLink = [e \in Ends |-> <<>>]
    /\ link = [e \in Ends |-> NoLink]
    /\ wire = [e \in Ends |-> <<>>]

----------------------------------------------------------------------------
(* ircd *)

\* sendto_one
SendMessage(e) ==
    /\ fd[e] = "link" /\ said[e] < MaxSaid
    /\ said' = [said EXCEPT ![e] = @ + 1]
    /\ sendq' = [sendq EXCEPT ![e] = Append(@, said[e] + 1)]
    /\ UNCHANGED <<fd, parsed, blocked, slinkq, ctrl, toLink, fromLink, link, wire>>

\* The socket takes n lines of the queue.
Written(e, n) ==
    IF fd[e] = "net"
    THEN /\ wire' = [wire EXCEPT ![e] = @ \o Plain(Take(sendq[e], n))]
         /\ UNCHANGED toLink
    ELSE /\ toLink' = [toLink EXCEPT ![e] = @ \o Take(sendq[e], n)]
         /\ UNCHANGED wire

\* send_queued_write
SendQueuedWrite(e) ==
    /\ fd[e] # "closed" /\ blocked[e] = "no" /\ sendq[e] # <<>>
    /\ \E n \in 0..Len(sendq[e]) :
        /\ Written(e, n)
        /\ sendq' = [sendq EXCEPT ![e] = Drop(@, n)]
        /\ blocked' = [blocked EXCEPT ![e] = IF n < Len(sendq[e]) THEN "waits" ELSE "no"]
    /\ UNCHANGED <<fd, said, parsed, slinkq, ctrl, fromLink, link>>

\* sendq_unblocked
SendqUnblocked(e) ==
    /\ fd[e] # "closed" /\ blocked[e] = "waits"
    /\ blocked' = [blocked EXCEPT ![e] = "no"]
    /\ UNCHANGED <<fd, said, sendq, parsed, slinkq, ctrl, toLink, fromLink, link, wire>>

\* What start_io has for servlink: the two queues between the commands that
\* start the streams and the one that starts the work.
Command(what, bytes) == [does |-> what, with |-> bytes]
Queued(what, bytes) == IF bytes = <<>> THEN <<>> ELSE <<Command(what, bytes)>>

\* Mutant: servlink begins before it has been given the queues.
StartIOBegun(received, unsent) ==
    << Command("zipIn", <<>>), Command("zipOut", <<>>), Command("active", <<>>) >>
    \o Queued("recvq", received) \o Queued("sendq", unsent)

StartIO(received, unsent) ==
    << Command("zipIn", <<>>), Command("zipOut", <<>>) >>
    \o Queued("recvq", received) \o Queued("sendq", unsent)
    \o << Command("active", <<>>) >>

\* send_queued_slink_write, of what is queued and of the commands of start_io.
SlinkWritten(e, commands) ==
    \E n \in 0..Len(commands) :
        /\ ctrl' = [ctrl EXCEPT ![e] = @ \o Take(commands, n)]
        /\ slinkq' = [slinkq EXCEPT ![e] = Drop(commands, n)]

SlinkqUnblocked(e) ==
    /\ fd[e] = "link" /\ slinkq[e] # <<>>
    /\ SlinkWritten(e, slinkq[e])
    /\ UNCHANGED <<fd, said, sendq, parsed, blocked, toLink, fromLink, link, wire>>

\* fork_server: an event on the old socket is forgotten with it (fd_close),
\* FLAGS_BLOCKED is not.  A fork that fails is an Exit.
ForkServer(e, blocks) ==
    /\ fd' = [fd EXCEPT ![e] = "link"]
    /\ link' = [link EXCEPT ![e].runs = TRUE]
    /\ blocked' = [blocked EXCEPT ![e] = IF blocks \/ @ # "no" THEN "forgotten" ELSE "no"]

\* read_packet gives the SERVER line to server_estab, and what recv gave with
\* it stays in the queue until start_io.  The end that accepts says its own
\* SERVER and writes it if the socket takes it; then servlink has the socket,
\* and SVINFO is the first line it is to pass on.
ServerEstab(e) ==
    LET own == IF e = Far THEN <<1>> ELSE <<>>
        last == said[e] + Len(own) + 1
        from == Other(e)
    IN  /\ fd[e] = "net"
        /\ \E n \in 1..Len(wire[from]), sent \in 0..Len(own) :
            /\ parsed' = [parsed EXCEPT ![e] = wire[from][1].lines]
            /\ wire' = [wire EXCEPT ![e] = @ \o Plain(Take(own, sent)),
                                    ![from] = Drop(@, n)]
            /\ ForkServer(e, sent < Len(own))
            /\ SlinkWritten(e, StartIO(SubSeq(wire[from], 2, n),
                                       Plain(sendq[e] \o Drop(own, sent))))
        /\ said' = [said EXCEPT ![e] = last]
        /\ sendq' = [sendq EXCEPT ![e] = <<last>>]
        /\ UNCHANGED <<toLink, fromLink>>

\* read_packet after that
ReadPacket(e) ==
    /\ fd[e] = "link"
    /\ \E n \in 1..Len(fromLink[e]) :
        /\ parsed' = [parsed EXCEPT ![e] = @ \o Take(fromLink[e], n)]
        /\ fromLink' = [fromLink EXCEPT ![e] = Drop(@, n)]
    /\ UNCHANGED <<fd, said, sendq, blocked, slinkq, ctrl, toLink, link, wire>>

\* exit_client for any reason: servlink's error or end, a socket that is gone,
\* a command.  close_connection writes what the socket takes, blocked or not.
Exit(e) ==
    /\ fd[e] # "closed"
    /\ \E n \in 0..Len(sendq[e]) : Written(e, n)
    /\ fd' = [fd EXCEPT ![e] = "closed"]
    /\ sendq' = [sendq EXCEPT ![e] = <<>>]
    /\ slinkq' = [slinkq EXCEPT ![e] = <<>>]
    /\ fromLink' = [fromLink EXCEPT ![e] = <<>>]
    /\ blocked' = [blocked EXCEPT ![e] = "no"]
    /\ UNCHANGED <<said, parsed, ctrl, link>>

----------------------------------------------------------------------------
(* servlink *)

\* inflate takes the next bytes of the stream and nothing else.
Follows(l, bytes) == \A i \in 1..Len(bytes) : bytes[i].at = l.inflated + i

\* What inflate gives for bytes, and what it keeps because the buffer was full
\* when it had taken the last of them.
Inflated(l, bytes, kept) ==
    LET all == l.held \o LinesOf(bytes) IN
    [given |-> Take(all, Len(all) - kept), kept |-> Drop(all, Len(all) - kept)]

MayKeep(l, bytes) ==
    {k \in 0..Len(l.held \o LinesOf(bytes)) :
        k > 0 => \E full \in 1..Len(l.held \o LinesOf(bytes)) :
                     full * BufLen = Len(l.held \o LinesOf(bytes)) - k}

\* send_error: a message for ircd, and the end.
Failed(e) == link' = [link EXCEPT ![e].failed = TRUE, ![e].runs = FALSE]

Runs(e) == link[e].runs

\* cmd_start_zip_in, cmd_start_zip_out and cmd_init, each heeded once.
Started(e, what) ==
    IF link[e][what] THEN Failed(e) ELSE link' = [link EXCEPT ![e][what] = TRUE]

\* process_recvq: all of it is given to ircd before servlink goes on.
ProcessRecvq(e, bytes) ==
    IF ~link[e].zipIn
    THEN fromLink' = [fromLink EXCEPT ![e] = @ \o LinesOf(bytes)] /\ UNCHANGED link
    ELSE IF Follows(link[e], bytes)
    THEN \E k \in MayKeep(link[e], bytes) :
            LET out == Inflated(link[e], bytes, k) IN
            /\ fromLink' = [fromLink EXCEPT ![e] = @ \o out.given]
            /\ link' = [link EXCEPT ![e].inflated = @ + Len(bytes), ![e].held = out.kept]
    ELSE Failed(e) /\ UNCHANGED fromLink

\* read_ctrl
ReadCtrl(e) ==
    /\ Runs(e) /\ ctrl[e] # <<>>
    /\ ctrl' = [ctrl EXCEPT ![e] = Tail(@)]
    /\ LET command == Head(ctrl[e]) IN
        \/ /\ command.does \in {"zipIn", "zipOut", "active"}
           /\ Started(e, command.does)
           /\ UNCHANGED <<fromLink, wire>>
        \/ command.does = "recvq" /\ ProcessRecvq(e, command.with) /\ UNCHANGED wire
        \/ /\ command.does = "sendq"
           /\ wire' = [wire EXCEPT ![e] = @ \o command.with]
           /\ UNCHANGED <<fromLink, link>>
    /\ UNCHANGED <<fd, said, sendq, parsed, blocked, slinkq, toLink>>

\* The next two bytes of the stream, the lines in one or in both of them.
Deflated(l, lines) ==
    {<<[at |-> l.deflated + 1, lines |-> Take(lines, i)],
       [at |-> l.deflated + 2, lines |-> Drop(lines, i)]>> : i \in 0..Len(lines)}

\* read_data: what the network does not take is kept, and ircd is not read
\* until it does.
ReadData(e) ==
    /\ Runs(e) /\ link[e].active /\ link[e].outBuf = <<>>
    /\ \E n \in 1..Len(toLink[e]) :
        /\ toLink' = [toLink EXCEPT ![e] = Drop(@, n)]
        /\ \E bytes \in IF link[e].zipOut THEN Deflated(link[e], Take(toLink[e], n))
                        ELSE {Plain(Take(toLink[e], n))} :
           \E sent \in 0..Len(bytes) :
               /\ wire' = [wire EXCEPT ![e] = @ \o Take(bytes, sent)]
               /\ link' = [link EXCEPT ![e].deflated = @ + IF link[e].zipOut THEN 2 ELSE 0,
                                       ![e].outBuf = Drop(bytes, sent)]
    /\ UNCHANGED <<fd, said, sendq, parsed, blocked, slinkq, ctrl, fromLink>>

\* write_net
WriteNet(e) ==
    /\ Runs(e)
    /\ \E n \in 1..Len(link[e].outBuf) :
        /\ wire' = [wire EXCEPT ![e] = @ \o Take(link[e].outBuf, n)]
        /\ link' = [link EXCEPT ![e].outBuf = Drop(@, n)]
    /\ UNCHANGED <<fd, said, sendq, parsed, blocked, slinkq, ctrl, toLink, fromLink>>

\* read_net: what ircd does not take is kept, and the network is not read
\* until it does.
ReadNet(e) ==
    /\ Runs(e) /\ link[e].active /\ link[e].inBuf = <<>>
    /\ \E n \in 1..Len(wire[Other(e)]) :
        LET bytes == Take(wire[Other(e)], n) IN
        /\ wire' = [wire EXCEPT ![Other(e)] = Drop(@, n)]
        /\ IF link[e].zipIn /\ ~Follows(link[e], bytes)
           THEN Failed(e) /\ UNCHANGED fromLink
           ELSE \E k \in IF link[e].zipIn THEN MayKeep(link[e], bytes) ELSE {0} :
                LET out == Inflated(link[e], bytes, k) IN
                \E sent \in 0..Len(out.given) :
                    /\ fromLink' = [fromLink EXCEPT ![e] = @ \o Take(out.given, sent)]
                    /\ link' = [link EXCEPT
                                   ![e].inflated = @ + IF link[e].zipIn THEN n ELSE 0,
                                   ![e].held = out.kept,
                                   ![e].inBuf = Drop(out.given, sent)]
    /\ UNCHANGED <<fd, said, sendq, parsed, blocked, slinkq, ctrl, toLink>>

\* write_data
WriteData(e) ==
    /\ Runs(e)
    /\ \E n \in 1..Len(link[e].inBuf) :
        /\ fromLink' = [fromLink EXCEPT ![e] = @ \o Take(link[e].inBuf, n)]
        /\ link' = [link EXCEPT ![e].inBuf = Drop(@, n)]
    /\ UNCHANGED <<fd, said, sendq, parsed, blocked, slinkq, ctrl, toLink, wire>>

\* check_error: ircd or the other end has gone.
Gone(e) == fd[e] = "closed" /\ ~link[e].runs
LinkEnds(e) ==
    /\ Runs(e)
    /\ \/ fd[e] = "closed"
       \/ link[e].active /\ Gone(Other(e)) /\ wire[Other(e)] = <<>>
    /\ link' = [link EXCEPT ![e].runs = FALSE]
    /\ UNCHANGED <<fd, said, sendq, parsed, blocked, slinkq, ctrl, toLink,
                   fromLink, wire>>

Next ==
    \E e \in Ends :
        \/ SendMessage(e) \/ SendQueuedWrite(e) \/ SendqUnblocked(e)
        \/ SlinkqUnblocked(e) \/ ServerEstab(e) \/ ReadPacket(e) \/ Exit(e)
        \/ ReadCtrl(e) \/ ReadData(e) \/ WriteNet(e) \/ ReadNet(e) \/ WriteData(e)
        \/ LinkEnds(e)

Spec == Init /\ [][Next]_vars

----------------------------------------------------------------------------
TypeOK ==
    /\ fd \in [Ends -> {"net", "link", "closed"}]
    /\ blocked \in [Ends -> {"no", "waits", "forgotten"}]
    /\ \A e \in Ends :
        /\ said[e] \in 0..MaxSaid
        /\ \A i \in 1..Len(slinkq[e]) : slinkq[e][i].does \in
               {"zipIn", "zipOut", "active", "recvq", "sendq"}
        /\ link[e].runs \in BOOLEAN /\ link[e].active \in BOOLEAN
        /\ link[e].inflated \in Nat /\ link[e].deflated \in Nat

\* The lines on their way to e, the first to come first.
With(e, what) ==
    LET of == SelectSeq(ctrl[e] \o slinkq[e], LAMBDA c : c.does = what)
    IN  FlattenSeq([i \in 1..Len(of) |-> of[i].with])
Coming(e) ==
    LET from == Other(e) IN
    fromLink[e] \o link[e].inBuf \o link[e].held
    \o LinesOf(With(e, "recvq") \o wire[from] \o link[from].outBuf \o With(from, "sendq"))
    \o toLink[from] \o sendq[from]

\* A blocked socket is written again when it takes more.  It fails: the flag
\* outlives the event when SERVER blocks (fork_server), and nothing clears it.
BlockedIsCleared == \A e \in Ends : blocked[e] # "forgotten"

\* An inflater gives all it has.  It fails: when its buffer is full with the
\* last byte taken, read_net does not call inflate again until more comes.
NothingHeld == \A e \in Ends : link[e].held = <<>>

\* What one end has said the other reads in order, each line once, and as long
\* as nobody closes the link the rest of it is on its way; an inflater is
\* never given what its stream does not go on with (start_io, read_net,
\* read_data, and the note on SERVER in server_estab).
LinkFaithful ==
    \A e \in Ends :
        LET all == [i \in 1..said[Other(e)] |-> i] IN
        /\ IsPrefix(parsed[e], all)
        /\ ~link[e].failed
        /\ "closed" \notin {fd[Near], fd[Far]} => parsed[e] \o Coming(e) = all

=============================================================================
