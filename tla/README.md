# ircd-hybrid 7: a specification

This directory specifies the parts of ircd-hybrid that are hard to test: what
several servers make of one another's lines when links split and join, what one
server's event loop makes of connections that fail at any moment, what REHASH
leaves of a configuration in use, and what becomes of the commands, messages and
bytes that pass through. TLC checks the modules on small instances; TLAPS proves
the central invariants for every network and every number of connections.
`PROJECT.json` maps every definition to the lines it models and lists runs,
mutants, findings, hazards and theorems.

Paths are relative to the repository. "Line" means a line of the IRC protocol.

## 1. Inventory

ircd is one process with one thread. `io_loop` (`src/ircd.c`) runs the timers
that are due, then calls one handler per ready descriptor, then exits the
connections whose writes failed, frees the exited ones and flushes send queues.
Everything below runs inside it. Several ircds form a tree; each line is flooded
along the tree, over TCP links that keep order and can be lost.

| Component | State | Operations | Hard behaviours | What makes it correct |
|---|---|---|---|---|
| Nicknames across servers (`m_nick`, `m_kill`, `m_quit`, `hash`, `whowas`) | client hash, ID hash, tsinfo, whowas entries | NICK, UID, KILL, QUIT, burst | claims that cross; a KILL that crosses a rename; ghosts; loss and rejoin | one holder per nickname; only losers killed; survivors known everywhere; kills die out |
| Local connections (`client`, `s_auth`, `packet`, `s_bsd`, `ircd`) | status, flags, membership of unknown_list, serv_list, local_client_list, global_client_list, abort_list, dead_list; AuthRequest | accept, connect, DNS, ident, read, timeouts, failed writes, exit, free | an exit, a timeout and a late answer in one round; a write failing inside any handler | nothing freed while a pointer is left; exit runs once; checks end |
| Resolver (`irc_res`) | request list | query, reply, retry, cancel | a reply after the owner is gone | a callback exactly while its owner lives |
| Parsing and prefixes (`parse`) | none | find the source, remove_unknown, cancel_clients | prefixes that crossed a KILL or SQUIT | a line is never applied to the wrong user |
| Sending and queues (`send`, `dbuf`, `packet`) | send and receive queues, FLAGS_BLOCKED | sendto_*, send_queued_write, read_packet | a failure in the middle of a handler; lines cut anywhere; limits reached | nothing lost or doubled in either queue |
| Server tree (`s_serv`, `m_server`, `m_squit`, `m_eob`) | serv_list, global_serv_list, dependents | SERVER, SID, SQUIT, EOB, bursts | loops, two links at once, SQUITs that cross introductions | one tree on all servers; counters match it; links settle |
| Channels across servers (`channel`, `channel_mode`, `m_sjoin`, `m_join`, `m_mode`, `m_kick`, `m_part`, `m_tb`) | members with ranks, modes, bans, channelts, topic | JOIN, PART, KICK, MODE/TMODE, SJOIN, BMASK, TB | SJOINs of two sides crossing modes and kicks | older side's modes win everywhere; membership agrees |
| Registration and user modes (`s_user`, `m_user`, `m_oper`) | umodes, counters of LUSERS | NICK/USER, MODE, OPER, UID | introductions that cross a split | counters match the users known; servers agree on modes |
| G-lines (`s_gline`, `m_gline`) | pending votes, temporary G-lines | GLINE, UNGLINE, expiry | votes through different links, past servers that deny them | placed where allowed, and only there |
| Shared and clustered bans (`m_kline`, `m_xline`, `m_resv`, `m_encap`) | - | KLINE/XLINE/RESV ON, UN forms, ENCAP | removal that crosses placing; servers that do not share | in force where meant, and only there |
| Lazy links (`m_ll*`, `m_cburst`, `m_nburst`) | bitmaps of leaves | LLJOIN, LLNICK, CBURST | joins waiting for a hub | a leaf knows what it needs |
| Configuration, classes, bans (`s_conf`, `hostmask`, `resv`, `csvlib`, `listener`) | conf blocks, classes, reference counts, IP and CIDR counts, temporary lines, listeners | attach, detach, REHASH, bans and their expiry | REHASH in the middle of what it changes | counts match; a block or listener goes when unused; no place lost; lines in force as the files and the clock say |
| Timers (`event`, `fdlist`) | event table, table of descriptors | add, delete, run, walk | a handler that changes the table being walked | every descriptor is seen once |
| Memory, lists (`balloc`, `list`, `tools`) | blocks, free lists | alloc, free, unlink | a node unlinked twice | lists keep their other nodes |
| Modules, hooks (`modules`, `dynlink`, `hook`, `parse`) | modules loaded, chains of callbacks, tree of commands | load, unload, reload, hook | any order of loading | nothing leads to a module that is gone |
| Channel listing (`m_list`, `hash`) | position in the hash, listing_client_list | LIST over several rounds | channels made, looked up and freed between rounds | each lasting channel listed once |
| Flood control, messages (`m_message`, `packet`) | allow_read, sent_parsed | PRIVMSG, NOTICE | a message that crosses JOIN, PART, +o, +m | everybody it is for gets it once |
| Server-link process (`servlink`) | both streams, what is not written yet | control commands, both directions | a link taken over with lines under way; full sockets | what one end says the other reads, in order |
| Event back ends (`s_bsd_*`) | kernel sets | comm_select | handlers closing descriptors | taken as given |
| Queries and operator commands (`m_who`, `m_stats`, ...) | none of their own | replies | - | - |
| Strings (`match`, `irc_string`, ...) | none | match, collapse, formatting | - | match agrees with its definition |
| Generated and vendored code, tools, contrib | - | - | - | not modelled |

Interaction: `parse` calls a command's handler with the client it found; the
handlers change the tables and call `send`; `send` marks failed connections for
the loop; `exit_client` calls back into resolver and ident to cancel what they
hold; the resolver calls back into `s_auth` and `s_bsd`; `s_serv` bursts from
the tables `m_nick` and `channel` keep.

## 2. Modules

| Module | Models | Uses |
|---|---|---|
| `NickTS` | nicknames across a tree of servers | - |
| `MCNickTS` | two servers, and a line of three | `NickTS` |
| `NickTSProofs` | theorems about `NickTS` | `NickTS` |
| `ChannelTS` | one channel across a tree of servers | - |
| `MCChannelTS` | a line of three servers | `ChannelTS` |
| `ChannelTSProofs` | theorems about `ChannelTS` | `ChannelTS` |
| `ServerTree` | links set up, introduced, looped and lost | `Lists` |
| `ServerTreeProofs` | theorems about `ServerTree` | `ServerTree`, `ListLemmas` |
| `MCServerTree` | a triangle of servers, and one with a fourth beyond it | `ServerTree` |
| `ConnectionLife` | what ircd promises about one connection (abstract) | - |
| `Connections` | local connections under the event loop | `ConnectionLife` |
| `ConnectionsProofs` | theorems about `Connections`, and that it implements `ConnectionLife` | `Connections` |
| `ConfBlocks` | classes, blocks and counts through REHASH | `Lists` |
| `TempLines` | temporary and permanent bans through REHASH | `Lists` |
| `Descriptors` | the table of descriptors, its walk, listeners | `Lists` |
| `Modules` | loadable modules, callbacks, the command tree | - |
| `MCConfBlocks`, `MCRehash` | the four above, small; one behaviour is about one of them | all four |
| `RehashProofs` | theorems about three of them | `MCRehash`, `ListLemmas` |
| `Routes` | the tree as each server uses it to send a line on | - |
| `Lists` | the linked lists of the server, and going through one | - |
| `ListLemmas` | lemmas about lists, queues and induction | `Lists` |
| `SharedLines` | bans placed on other servers | `Routes` |
| `SharedLinesProofs` | theorems about `SharedLines` | `SharedLines`, `ListLemmas` |
| `Glines` | G-line requests and votes | `Routes` |
| `GlinesProofs` | theorem about `Glines` | `Glines`, `ListLemmas` |
| `Delivery` | messages across servers | `Routes` |
| `UserModes` | user modes and the counts of LUSERS | - |
| `ClientQueues` | both byte queues of a connection, flood limits | - |
| `Servlink` | a compressed link, from SERVER on | - |
| `Listing` | LIST over the hash of channels | - |
| `MCCommands` | the seven above, small; one behaviour is about one of them | all seven |

A definition commented "(mutant of X: ...)" is X with a plausible mistake. No
run uses it; it shows which mistake each property catches.

### 2.1 NickTS

State, with the C it stands for:

- `srv[s].nick`, `srv[s].ts`: the client hash of server s and `tsinfo`; a user s
  does not have is under `NoNick`. `srv[s].hist[n]`: the client the newest whowas
  entry of nickname n still points to (`get_history`), or `NoUser`.
- `unreg`: local clients that have sent NICK but are not registered; they hold
  their nickname in the hash, and a remote user takes it from them ("Overridden").
- `up[s]`: serv_list. `chan[<<s, t>>]`: lines s has sent that t has not parsed.
- `clock[s]`: the last CurrentTime s used; clocks of servers are independent.
- `fate`, `claims`: history, for `OnlyLosersKilled`. `splits`: a bound.

Each action is one handler run. `SetInitialNick`, `Register`, `ChangeNick` and
`Disconnect` are commands of local clients. The handlers of lines are split by
what they decide: a UID line is one of `IntroduceUser`, `IntroductionKillsBoth`,
`IntroductionLoses`, `IntroductionWins` (`nick_from_server`, `client_from_server`,
`perform_nick_collides`), a NICK line one of `RemoteRename`, `RenameKillsBoth`,
`RenameLoses`, `RenameWins` (`perform_nickchange_collides`). `UnknownPrefix` is
`remove_unknown`, `WrongDirection` is `cancel_clients`. `LoseLink` is one end
closing; the other end may still read what was sent before and closes later.
`Link` is `server_estab` at both ends, with the bursts in any order of the users.

`TS6` chooses between links that name users by UID and links that name them by
nickname; whole networks of one kind are modelled.

Abstractions: routes are fixed (a tree, given by `Route`), so links come back
where they were; `Link` is one step for both ends (before server_estab nothing
of this protocol is exchanged). CurrentTime does not go back (a backward
`set_time` breaks `TSNeverGoesBack` trivially). The 90 seconds after which
get_history forgets are taken as not over. Left out: nickname changes in case
only, the nickname flood limit, RESV, lazy links, fake names, an operator's KILL
and SQUIT of servers that are not neighbours (a later module), users without QS.

### 2.2 ChannelTS

One channel, as every server of the tree has it:

- `srv[s]`: struct Channel on server s - members (`on`), operators (`op`),
  members marked CHFL_DEOPPED (`deopped`), channelts (`ts`, 0 when s has no such
  channel), simple modes and bans. `up` and `chan` are as in `NickTS`.
- `clock[s]`: the last CurrentTime s stamped a channel with.
- `grants`, `banned`: history, who was opped and which ban was set on the channel
  of which timestamp. `commands`, `splits`: bounds.

Commands of local users are `Create` and `Join` (m_join on a channel without and
with members), `JoinZero` (`JOIN #x,0`), `Part`, `Kick`, `ModeOp`, `ModeSimple`,
`ModeBan`. Lines of other servers are `RemoteSjoin` (ms_sjoin), `RemoteJoin`
(ms_join), `RemotePart`, `RemoteKick`, `RemoteOp`, `RemoteMode`, `RemoteBan`
(ms_tmode or m_mode, then chm_op, chm_simple, chm_ban), `RemoteBmask` (ms_bmask),
`RemoteSquit`, and `Ignored` for the lines a handler returns from without a
change. `Merged` has the timestamp rules that ms_sjoin and ms_join share. `Link`
bursts SJOIN and BMASK (burst_all, send_channel_modes). With `TS6` FALSE a JOIN
is sent as SJOIN, and MODE has no timestamp.

Abstractions: users exist throughout (NickTS is about them), so every line has a
known source; the line that introduces a user goes ahead of those about it. One
line carries one change. A ban is on a user or on nobody. Left out: halfops and
voices, keys, limits and invitations, +e and +I, timestamp 0, topics, chm_op by a
server, mixed TS5 and TS6 links.

The protocol does not promise that servers agree when opposing mode changes or
departures cross on a link, and the code does not deliver it: agreement
(`ChannelsAgree`, `ModesAgree`, `Settles`) is checked where users only join, and
what is left when everything crosses is `OpsGranted` (no operator who owes it to
a younger channel), `MembersKnownEverywhere` and `TSNeverGrows`.

### 2.3 Connections and ConnectionLife

`conn[c]` is struct Client, LocalUser and AuthRequest of one connection: its
status, IsDead/IsClosing, whether its socket is open, the lists it is on, how
often it is on global_client_list (`links`) and dead_list (`deads`), whether its
AuthRequest is allocated, what that waits for (`doing`), and its request of the
resolver. "handshake" is a connection we made that waits for the other server's
PASS and SERVER. `phase` is the part of `io_loop` that runs: timers ("events"),
handlers ("select"), `exit_aborted_clients` ("abort"), `free_exited_clients`
("free"), `send_queued_all` and a pending rehash ("flush").

An action is one run of a handler or timer; what a handler may do is computed by
operators on one connection: `Exit` is exit_client with close_connection and
exit_one_client, `DeleteAuth` is delete_auth, `FdClose` is fd_close,
`ReadPacket` is read_packet with whatever the lines do to their sender,
`DnsCallback` and `IdentOver` end a query and, when it is the last one, call
`Release` (release_auth_client). `exit_aborted_clients` is one step per client,
since each exit sends lines and a send that fails appends to the list it walks.

Time is abstract: a timer that is set may fire in any round. That is an
over-approximation for safety and makes timeouts race with late answers.
`WriteFails` is an action of its own, in any phase but "free", because every
handler sends to anybody; a connection still connecting is never sent anything.
`Ended` stands for every exit that somebody else causes (pings, bans, KILL,
SQUIT, nickname taken over, rehash). Left out: throttling and IP counts, conf and
class references, the ctrl socket of a server link, IPv6 nibble/bit-string
retries of the resolver, replies that change nothing (SERVFAIL, undecodable).
A pass of a timer over a list is one step per connection, so what one callback
does to the list position of another is not visible (see the hazards).

`ConnectionLife` is the contract: absent, checking, talking, ending, gone, in
that order only, ended ones reaped once, and nobody stuck in checking or ending.
The refinement mapping `Life` reads it off `conn[c]`: a connection that is dead
or closing is "ending", one not on global_client_list "checking".

### 2.4 ServerTree

`tree[s]` is what server s knows of the others: global_serv_list in order, each
one's servptr and from, and dep_servers of its links. A connection has two ends,
each a Client with its status; `wire[e]` is what the end e has still to parse.
`Connect` is serv_connect up to the SERVER line; `Establish`, `LeafRejects` and
`ServerRejected` are what mr_server and check_server decide; `Introduce`,
`ServerExists`, `NoHubMask`, `UnknownSource` and `WrongDirection` are what
becomes of a SID; `RemoteSquit`, `SquitMisses` and `OperSquit` of a SQUIT; `Lose`
is an end that closes. Both servers of a pair may connect to each other at once
(InProgress is what check_server overrides), and the connect blocks may form a
ring, so that introductions meet the SQUITs of a loop that is being broken.
A configuration says which connect blocks there are, who is a hub, who may
introduce nobody, who has an operator to give SQUIT, and whether links are lost
by themselves.
Users are NickTS's; passwords, names that clash and capabilities are left out.

### 2.5 What REHASH changes

`ConfBlocks`: every file read makes new ClassItems and AccessItems (`<<name, n>>`
for the n-th file), and memory is explicit: a freed item is `Freed`, a pointer to
it stays where the code leaves it, and following it sets `fault`, where the model
stops. `Register`, `Oper`, `Deoper`, `Connect`, `Server`, `Exit` attach and
detach (attach_conf, attach_iline, detach_conf); `Rehash` is clear_out_old_conf,
the parser's class, auth, oper and connect sections, rebuild_cidr_class and
check_class. The counts of users of a class, of an address block (cidr_limit_reached,
remove_from_cidr_check) and of an address are kept by the same calls.

`TempLines`: a line is a number; it is in the table its type is looked up in, in
the list of temporary lines, in the file, or freed. `Add`, `Unline`, `Unresv`,
`Expire` and `Rehash` are the commands with the reading again that a removal from
a file brings. K-, X-lines and RESV of nicknames and channels; D-lines are kept
like K-lines.

`Descriptors`: one bucket of the table of fdes with the walk of
comm_checktimeouts, whose handlers close and open any connection, and the
listeners through REHASH, which are kept for their clients. `ClearsFde` is
INVARIANTS, which configure defines unless it builds for EFnet.

`Modules`: mod_list, the chains of callbacks, each module's pointer to its
callback, and msg_tree with the counts of its nodes. A word is a sequence of runs
of letters, so that WHO is above WHOIS. Calling or following a NULL sets a fault.

### 2.6 What users and operators ask for

`Routes` has the tree of servers as it stands while a command travels: `Behind`
is what each link leads to (`from` of struct Client), and `TreeAssumption` says
that it is a tree. `ServerTree` has how the tree comes to be.

`SharedLines`: a command travels towards the servers a mask matches and is obeyed
where a shared{} block allows it (sendto_match_servs, cluster_a_line, ms_kline,
parse_resv, relay_xline, ENCAP). A shared{} block is for all types here: what is
modelled is whether the handler looks for one. The types tkline, txline and tresv
of shared{} and cluster{} are parsed (`ircd_parser.y:2146`, `:2228`) and read by
nobody: ms_kline takes a K-line with a time where a block says kline
(`m_kline.c:249`), and me_resv looks for no block (section 4).
`Glines`: each server counts the requests it reads; gdeny blocks keep it from
passing on or from placing. `lapsed` is kept for the property: where a G-line was
removed, or it or votes have expired.
`Delivery`: PRIVMSG to a channel, its operators, a client or a mask, with the
channel's changes crossing it on the wires; `meant` is kept for the property:
whom the message is for, less those whom a later change releases it from.
`UserModes`: umodes of every user on every server, struct Counter, and a split of
the last server of a line that the first one may bring about. `ClientQueues`: the
blocks of both queues, extract_one_line, the flood limits, send_message and
send_queued_write with whatever the socket takes. `Servlink`: two ircds, a
servlink each, and the sockets between them; zlib is external, a stream of
numbered bytes of which some carry lines, which an inflater understands only in
order. Whoever reads takes any part of what has come, so that the loops in
read_net and read_data are further steps of them. `Listing`: the chains of
channelTable and LIST over them; a queue may be half full at any bucket. A LIST
of names looks each one up, the last first and as often as it was given, and shows
it if it matches all of them (`m_list.c:166-186`, `hash.c:879`, `:962`): two
different names show nothing, one name twice is shown twice. `asked` keeps the
names, so that ListsAllOnce can say how often.

## 3. Runs

At most one behaviour in a run of several parts (`rehash`, `commands`) is about
each part: `part` is chosen in Init, the others stay as they begin. They share no
state in the code either, so nothing is lost by not interleaving them.

| Run | Instance | Shows |
|---|---|---|
| nick_pair | 2 servers, 2 users, 2 nicknames, TS6, 4 claims, timestamps 1..3, 1 split | types, one holder per nickname, whowas pointers, timestamps never set back |
| nick_line | 3 servers in a line, one person twice, 3 claims, 1 split | collisions the middle server decides: only losers killed; no UID introduced twice, survivors known everywhere |
| nick_ts5 | a pair by nickname, 3 claims, 1 split, fair | links drain: kills answered with kills die out |
| nick_ghost | the pair, 3 claims | finding: the loser of a collision survives where the winner has renamed itself or quit first |
| chan_line | 3 servers in a line, a user on each, 3 commands (JOIN, JOIN 0, PART, KICK, MODE o), timestamps 1..2, 2 splits | types, members known everywhere, timestamps never grow |
| chan_bans | the line, 4 commands (JOIN, MODE o, b and two simple modes), no split | no ban outlives the younger channel, no operator is made there by a mode change of it |
| chan_merge | the line, users only join, timestamps 1..3, 1 split, fair | servers agree on members, operators, timestamp and modes when quiet, and come to agree |
| servers | a triangle, one pair connecting both ways, all hubs or one not, 4 connects, 1 link lost or SQUIT; or four servers, of which two may introduce nobody, and 1 SQUIT; fair | each server's tree is a tree with one link to each neighbour and true counts; all agree when quiet and nobody has SQUIT; links settle |
| connections | 2 connections, 3 tries, fair | no use after free, one exit, one release, list membership, AuthRequest lifetime; nobody unregistered for ever; implements ConnectionLife, liveness included |
| rehash | ConfBlocks: 2 clients, 2 addresses, 2 REHASHes among 4 files; TempLines: a mask, 4 lines; Descriptors: 3 connections, 3 listeners, 2 ports; Modules: 5 modules | blocks kept as long as used, no place lost, lines in force, the walk sees all, listeners kept, nothing leads to a module that is gone |
| module_reload | the same | finding: MODRELOAD of m_message puts NULL in a chain |
| commands | a line of 3 servers, for G-lines a star of 5; SharedLines: 2 or all share, KLINE or RESV for one mask, 3 commands; Glines: operators on 3 leaves, 3 requests, 3 choices of gdeny blocks, G-lines and votes lapse on the fourth; Delivery: a message and 4 changes; UserModes: 2 changes, 1 split; ClientQueues: 6 bytes in blocks of 2; Servlink: 3 lines from each end; Listing: 3 channels in 2 buckets, 2 readers, LIST with masks or with 1 or 2 names | bans shared as meant, G-lines only where a request for one may come through and in the end wherever those of three servers do, messages delivered once, counts true and modes agreed, queues and compressed links faithful, LIST complete |

**Bounds.** A collision needs two users and one nickname; a rename racing a
collision needs a second nickname. Three timestamps give older, equal and younger
plus a later rename; four claims let each user claim twice. One split suffices
for loss, rejoin and a stale line meeting the burst; the users' fates after it
repeat. The middle of a line of three is the smallest server that relays and
decides. Claims bound the users' commands only: the lines the servers answer
with are not bounded. For channels, two timestamps give older, equal and younger
on two servers and the third server relays; three are used where three channels
of three ages meet. The shortest way to op a younger channel's member wrongly is
four commands (both sides create, one joins, one gives op), which chan_bans has;
chan_line has three, and links lost twice. For servers, a ring
of three is the smallest loop, and a fourth connect lets a link be made again
while the SQUITs of the first round are under way; a server that is introduced by
one that has just gone needs a fourth server. For connections, three tries
reach "ask again", "last try" and "give up"; connections share only abort_list,
dead_list and the phases, and the theorems hold for any number of them. For
REHASH, the second one finds blocks of two older files in use. Four lines let a
temporary and a permanent line of one mask be placed, removed and placed again.
Three modules on one callback give a handler with two hooks, of which the inner
one goes first. For shared bans, a line of three has a server that both relays and
is a target, and three commands place a ban, take it back and place it from the
other end. For G-lines, three voters make a majority, the middle server is the one
that denies, and the fifth server hears of all three through it only.
PlacedWhereAsked holds, and its mutant breaks it, in the same instance if
set_local_gline is called for the third vote only, as ThreeAgree asks: it does not
rest on that finding. For queues, a line of two bytes is cut by a block, by a
read and by the limit. On a compressed link SERVER goes before the streams, SVINFO
begins them and one line more goes on with them.

**Deadlock** checking is off where commands are bounded: when they are used up a
quiet network has nothing left to do. It is on for Connections (the loop never
stops).

**Fairness.** NickTS and ChannelTS: `WF(Parse)` per link, since the loop reads
every readable link; `WF(LoseLink)` for an end whose peer has closed, since read
returns 0; `WF(Link)`, since `try_connections` keeps trying servers with
autoconn. ServerTree: some end that has a line to read or has been closed by its
peer is served in the end, which is weaker than what the loops do. Nothing makes
users type or links fail. Connections: weak fairness of the four loop steps;
strong fairness of `QueryTimeout`, `AuthTimeout` and `UnknownTimeout` per
connection, because such a timer, while set, is due after a fixed time, and the
events phase in which it is enabled comes round again and again. Replies, ident
answers, lines and write errors are never assumed to come. The parts of `rehash`
and `commands` have no liveness property and no fairness.

## 4. Findings

With a run of their own:

- **nick_ghost.** `kill_client_ll_serv_butone(source_p, ...)` in
  `perform_nick_collides` skips the server the winner came from, though
  `doc/technical/ts6.txt:90-94` asks for the KILL there. The loser's UID line may
  still be on its way to that server; if the winner changes its nickname or quits
  before it is read, nothing collides there, and the loser, killed at home, stays as
  a ghost under the nickname it was introduced with.
- **module_reload.** `register_callback(name, NULL)` for a callback that exists
  with an empty chain puts the NULL in the chain (`hook.c:63-67`), where
  `hook.c:46-47` says that NULL makes an empty chain. `m_message.c:114-115` does
  so each time it is loaded; after MODRELOAD m_message.so or MODRESTART the next
  PRIVMSG calls NULL.

Without one, seen when TLC is given other constants or another definition as its
invariant:

| Definition | Where | What the code does |
|---|---|---|
| `ChannelTS!NoEmptyChannels` | Commands `{"zero"}`, 2 servers | `JOIN #new,0` makes `#new` while the targets are listed (`m_join.c:558`) and passes it over (`m_join.c:121`): a channel nobody is on, whose timestamp wins (`channel.c:220` says the members are never empty) |
| `ChannelTS!ModesAgree` | Commands `{"part"}`, 2 servers | m_join and ms_join send `+` for the modes (`m_join.c:180`, `:389`) where `ts6.txt:224-225` has the channel's; a JOIN that crosses the PART of the last member makes the channel without them |
| `ChannelTS!BansGranted` | with PART, or a split on a line | ms_join takes an older timestamp and keeps the bans (`m_join.c:361`; ms_sjoin removes them, `m_sjoin.c:586`, as `ts6.txt:107-109`, `:227` ask) |
| `ChannelTS!OpsGranted` | TS6 FALSE | ms_sjoin marks as deopped only those the younger SJOIN lists as operators (`m_sjoin.c:392`); a member opped after it was sent can give op on the older channel with a MODE, which has no timestamp |
| `NickTS!OnlyLosersKilled` | TS6 FALSE | a remote user's QUIT is sent back to where it came from (`client.c:1056`); the unknown prefix is answered with a KILL by nickname, which hits whoever took it since |
| `NickTS!OnlineKnownEverywhere` | TS6 FALSE | a loser that is ignored, not killed, and renames itself before the winner's line reaches its home stays online there and is unknown elsewhere |
| `ServerTree!NoGhostServers` | with SQUIT | a SQUIT that crosses the introduction of its server is obeyed for the newer one and not sent back where it came from (`client.c:837`): one side keeps a server that is gone |
| `ConfBlocks!ClassesListed` | one class that goes | check_class takes a class in use out of class_items, and delete_conf_item unlinks it again (`s_conf.c:1331`), which empties the list (`tools.c:109` assumes otherwise) |
| `ConfBlocks!MaxNumberKept` | max_number 1, REHASH or MODE -o | a class read again loses its count (`ircd_parser.y:1478`), and blocks that never counted are subtracted (`s_conf.c:1329`): more than max_number get in (`example.conf:191`) |
| `ConfBlocks!fault` | any | the answer for a connect block's host frees a block in use (`s_conf.c:193`); oper and connect blocks keep the pointer to a class that goes with its last client |
| `SharedLines!TakenWhereShared` | any | other servers "need a shared{} for *THIS* server in order to accept" lines (`etc/example.conf:534-536`), and `tresv` is for reservations with a time (`:581`); those come in ENCAP, and me_resv places them without looking for a block (`m_resv.c:148-155`). LinesShared leaves them out of its shared{} part (`Asks`), and only out of that |
| `SharedLines!AppliedIfTarget` | Types with `"xline"` | ms_xline "applies it if we are a target" (`m_xline.c:178`); relay_xline returns if the mask does match (`m_xline.c:237`): an X-line is placed on all sharing servers it passes but those it is for |
| `Glines!ThreeAgree` | any | "Place a G line if 3 opers agree" (`m_gline.c:119`, also `:168`, `:224`, `:493`, `help/opers/gline:7`), and voting is on by default (`configure.ac:821-826`); mo_gline and do_sgline call set_local_gline whatever check_majority_gline answers, unless the voter has voted (`m_gline.c:189`, `:389`): one vote is enough |
| `Delivery!OpsOnce` | two operators behind one link | sendto_channel_remote sends a line for each operator, and each one is delivered to all of them |
| `UserModes!CountsTrue` | WithIDs FALSE | a user whose server is unknown is killed when he has been counted (`m_nick.c:714`, `s_user.c:530`) |
| `UserModes!CountsTrue` | InvisibleOnConnect FALSE, or `"i"` in OperModes | register_local_user counts everybody as invisible; oper_up sets oper_umodes without counting them |
| `Servlink!BlockedIsCleared` | any | fork_server closes the socket an event is set on (`s_serv.c:1422`) and leaves FLAGS_BLOCKED: if SERVER did not fit, the new link is never written again |
| `Servlink!NothingHeld` | any | read_net stops when inflate has taken all its input, though its buffer is full (`servlink/io.c:601`): the rest waits until the other end says more |
| `Listing!RemoteSafe` | any | a LIST from behind a lazy link ends at the first full bucket; `hash.c:933` calls it remote safe |
| `Descriptors!ListensAsConfigured` | ClearsFde FALSE | fd_close leaves flags.open of a listener's fde (`fdlist.c:197`), so that REHASH takes a closed listener for an open one |

## 5. Proofs

`NickTSProofs` (for every network, user set, bound; from `ConstantsAssumption` and
`TreeAssumption`): with or without UIDs `TypeCorrect`, `NicknamesUnique` and
`HistoryOnline`; with TS6 links also `TimestampsInOrder`, `LosersOnly` and
`WinnersAgreed`. Without TS6 a name may stand for another user's client, and
OnlyLosersKilled does not hold (section 4).

The invariant of the first three is TypeOK with every table `Sound`: one client per
nickname and no whowas entry to a client that has gone. The table lemmas
(`WithoutSound`, `GivenSound`, `ReplacedSound`) say that exiting keeps a table sound
and that giving a nickname does once its other holders have been exited; the step
lemmas show each handler does the one before the other. The type part needs that a
line names a user of the sender's table (`RefType`).

The other three rest on `TSInv`, which relates the tables to the lines that wait:

- `Routed`: a line about a user is only on links that lead away from the user's
  server, and whoever has a remote user is linked towards it.
- `Fates`: who has lost the connection is not in its server's table; who has not
  registered is known to no other server and no line is about it.
- `Justified`: every nickname in a table or a line was claimed; who a KILL or QUIT
  names is `Doomed`: has lost a collision or its connection. OnlyLosersKilled is a
  part.
- `Tracked`: for a user that is not doomed, the lines on an open link away from it
  tell the reader, one after another, how to get from what it shows of the user to
  what the sender shows (`Told`): a UID line finds nobody, a NICK line finds the
  user, a SQUIT leaves nobody. Justified is not inductive without this: a NICK line
  that finds nobody is answered with a KILL, which would hit a user that has lost
  nothing. Tracked says it never does.
- `Marked`: each user has marks, one timestamp per server, of which the table has no
  other, that never rises on the way out from the user's own server; every line
  about the user is between the marks of its link's ends, and the lines on one link
  are in order. A line that says less than the table would lower it.

`Effects` says what any step may do to tables and links in these terms;
`CommandEffects`, `LinkEffects` and `ParseForms` show that every handler does no more
(a parsed line is dropped, passed on, or loses the users behind a link), and
`EffectsRouted`, `EffectsFates`, `EffectsJustified` and `MarksKept` follow from that
alone; `PassedTold`, `DroppedTold`, `SquitTold`, `CommandTold` and `LinkTold` keep
Tracked. `WinnersAgreed` is the part of OnlineKnownEverywhere about users that have
lost no collision: on a quiet link Told says that both ends show the same
(`QuietLink`), and `QuietNetwork` goes along the ways of the tree from the user's
server to every other (`AllAlongTheWay`). A user that has lost a collision with an
earlier nickname and lives on is in KnownOnce only, which TLC checks.

`ChannelTSProofs` (for every network, user set, modes, bound; from
`ConstantsAssumption` and `TreeAssumption`): `TypeCorrect`, `OperatorsGranted` (with
TS6 links), `TimestampsNeverGrow` and `MembersReachEveryone`. OpsGranted is not inductive: an SJOIN or TMODE on a link
can give op later. `Inv` therefore says of every line in flight what OpsGranted
says of a server: an SJOIN's operators, and the target of a +o, were granted at
the line's timestamp or before. `GrantedYounger` and `GrantedMonotone` say that a
grant stays one as the timestamp grows and as history goes on; the lemmas on
`Merged` say that merging keeps operators granted at the lower timestamp; and
that a heeded mode change is not younger than the channel it changes is what lets
a server re-stamp and relay it. Without TS6 that guard is empty, which is why the
theorem assumes it. `TimestampsNeverGrow` rests on `StepNotYounger`: each step leaves
members only on a channel that is `NotYounger`. `MembersReachEveryone` states
MembersKnownEverywhere, with or without TS6. That property speaks of quiet networks
only; `OnInv` says what leads there:

- `Routed`: a JOIN or PART is only on links that lead away from its user, a SQUIT on
  links everybody it takes is behind.
- `Spread`: on an open link from r to s, for every user behind r who is on the
  channel on r, the last line about him on the link puts him on it, or no line there
  takes him and s has him (`Comes`); or a KICK of him is on its way from s to r
  (`Kicked`). Without the exception it is not inductive: s removes whom it kicks
  before r has heard of it. With it the KICK is not lost, since it takes the user off
  the channel on r whatever he did in between; that is also why the converse of
  MembersKnownEverywhere does not hold, for a user who has parted and joined again
  while the KICK was on its way.

Every command, line and lost link is a step of one server that is `HandledAt`: it
reads one line or none, changes its members, and tells all its other links of whom it
adds or removes (`Fits`), except that who leaves by a line from f need not be
reported to f. `CommandHandled`, `MembersHandled`, `SilentHandled` and `LoseHandled`
show that, one per group of handlers; `HandledRouted` and `HandledSpread` then keep
the two invariants whatever the handler was, and `LinkSpreads` has the burst. On a
quiet network nothing is left on any link, and `QuietMembers` goes along the tree.

`ConnectionsProofs` (for any number of connections and retries, from
`RetriesAssumption`): `TypeCorrect`, `NothingFreedIsUsed`,
`CallbacksFindTheirRequest`, `EndsOnce`, `EveryoneOnTheirList`, and
`ImplementsLife`: Spec => Abstract!Safety. None of the properties is
inductive: to know that a freed connection has no request left one must know
where each request can be found by the exit. `IInv` therefore says that every
connection is in one of four shapes - not there, `Working`, `Ending`, `Gone` -
where `Working` ties status, list, AuthRequest and request to one another (a
request belongs to an AuthRequest waiting for DNS or to a connect with its socket
open) and `Ending` and `Gone` say nothing is left; and `AbortSound` says that
abort_list has exactly the dead ones that are not exited yet, once each, perhaps
with some that are, and is empty when the dead are freed. The lemma everything
rests on is `ExitUnlinks`: exit_client of an `Exitable` connection leaves it
`Ending`, but for an AuthRequest its caller is about to free. `Evolves` says what
a handler may make of a connection; `BecomesStep`, `DeadLinkStep`,
`ExitAbortedStep` and `FreeExitedStep` turn that into a step that keeps `IInv`
and is a step of ConnectionLife; each handler then has a short lemma of its own.

`GlinesProofs` (for every tree, set of operators, bound, and whatever servers
deny; from `Network`: Behind is a tree and every operator is on one of its
servers): `GlinePlaced`. PlacedWhereAsked speaks of servers that have read all
there is; `Inv` says what holds before. A request is only on links that lead away
from its operator, and only past servers that do not block it (`Away`); and a
server that is to place the G-line has it or is behind a link that has a request
on it (`PlacedOrOnItsWay`). That a server may place it follows from
`ReaderIsBetween`: whoever passes a request on is between the operator and those
it passes it to. `CountedAndPlaced` is there since a vote already counted places
nothing. Inv speaks of one request where PlacedWhereAsked speaks of three: this
code places a G-line for one (section 4), and where three have come one has.

`SharedLinesProofs` (for every tree, all masks and targets, whoever shares; from
`Network`, which leaves out XLINE: it goes astray, see section 4): `TypeCorrect`
and `SharedAsMeant`. `Inv` says that every line on a link is `Backed` by a command
somebody gave, for no more servers than that; that for every ban in force one
command accounts for its place, its duration and, but for a RESV with a time, for
the server taking it (`LinesMeant`); and that a server where a standing ban is meant
and taken has it or has it on its way (`PlacedOrOnItsWay`). Both rest on the lemmas
about the tree: a line that is sent on all links but the one it came from reaches
everybody.

`ServerTreeProofs` (for every set of servers, all connect blocks, every
configuration and bound; from `ConstantsAssumption`): `TypeCorrect`,
`TreesRooted` and `GreetedOnce`. What is inductive is `TreeInv`: each table is a
tree rooted at its server whose neighbours are the ends that are links
(`TableRight`), which also says what TreeKept leaves open: in the list every
server stands behind the one that introduced it (`Introduced`). That order is
what makes remove_dependents reach everything behind a server, and nothing else:
`BehindProperties` is shown by induction along the list, and gives `WithoutRight`
(exit_one_client) as `WithRight` is for make_server. To know that a second link
to a neighbour is refused one needs that a SERVER line comes first and once and
only to an end that is no link yet, which is `Greets`.

`RehashProofs` (for all masks, types, clients, addresses, classes, files, descriptors,
ports and bounds):

- `BlocksStay` and `PlacesStay`. Both follow from `BlocksRight`, which says of the
  heap (`HeapRight`) that nobody is attached to a block that was never there or,
  connect blocks left out, is gone; that a block counts those attached to it; that a
  class and its address blocks count no more users than have an auth block of that
  class (`ClassRight`); and, what the two properties leave open, that a block which
  is not illegal finds a class that is not marked (`ClassThere`): a class is freed
  only when all its blocks are illegal, so that nobody can be attached through it any
  more. Each call has a lemma that it keeps the heap right
  (`AttachKeeps`, `DetachKeeps`, `DetachedAllKeeps`); in the middle of REHASH all
  blocks are illegal (`ClearedKeeps`), which is what lets the new file overwrite
  classes that are in use (`ClassesReadKeeps`, with rebuild_cidr_class in
  `RebuiltRight`), before `BlocksReadKeeps` puts new blocks into classes that are
  there. `HeapAssumption` says that NULL and freed memory are no items and that a
  file gives a class limits or nothing.
- `BansInForce`. LinesInForce speaks of tables that have been read to the end;
  `LinesRight` adds what temporary lists hold of lines that are freed
  (`TempListed`: reservations only) and that what is in the file is in the table
  for good and nothing else is (`OfTheFile`). REHASH empties the tables and reads
  the file line by line, so that `Rereadable` says what is left right while the
  file and the tables differ, and `ReadUpTo` how far the reading has come.
- `EveryDescriptorSeen` and `ListenersStay`. `WalkKept` says that what is yet to
  be seen is the rest of the table from the next place on, a new descriptor being
  put in front; `ListenersRight` that a listener is alive as long as it is counted
  or open, once for each port. `FdsAssumption` says that NULL is no descriptor and
  that memory for a listener is found for each port. Both theorems assume
  `ClearsFde`, the build whose fd_close clears the fde (`fdlist.c:192`); for the
  other one section 4 has what goes wrong.

`ListLemmas` has the induction these proofs need. The library's induction theorems take
the statement as an operator, which the provers cannot be given; `InductionUpTo`
states induction for a set of numbers, from the least one that is not in it,
`AllAlongTheWay` for the servers of a tree, from one of them outwards, and
`RecursionUpTo` that a function defined by its own earlier values exists.
A proof defines the set of the numbers its statement holds for. So what a fold
does is written in `Lists`, `TempLines`, `Descriptors` and `ConfBlocks` as a recursive function
over a list or over a set `InOrder`.

TLC checks `TreeAssumption` for the servers it is given (`LineIsATree` and
`StarIsATree` in `MCCommands`), and `FdsAssumption` and `HeapAssumption` for the
descriptors and the files of `MCRehash`.

Model-checked only: the liveness properties (`LinksDrain`, `UnknownsEnd`,
`Settles`, the fairness part of `Implements`), which need ENABLED; in NickTS and
ChannelTS `KnownOnce`, `BansGranted`, `ChannelsAgree` and `ModesAgree`, and
`TreesAgree` of ServerTree, whose inductive invariants relate the servers' tables
to all lines in flight and their order; and the properties of Modules, Delivery,
UserModes, ClientQueues, Servlink and Listing, which use the folds and searches of
the community modules: these take an operator as a parameter.

## 6. Not modelled

- Lazy links: off unless a connect block asks for them; a second version of
  NickTS and ChannelTS in which a leaf knows part of the network.
- In the modelled parts: halfops and voices, keys, limits, invitations, +e and
  +I, topics and TB; lines with several changes and their continuation; networks
  with both TS5 and TS6 links; an operator's KILL; UIDs that wrap around; EOB and
  capabilities; the block heap; the event table; the order of the resolver's
  list, on which a callback that ends another request bites (`irc_res.c:192`);
  the ban cache of can_send, which a nickname change does not clear
  (`channel.c:726`).
- match and collapse: sequential functions of strings.
- Queries (WHO, STATS, ...): replies formatted from state modelled here.
- System calls and event back ends, numerics, generated parsers, PCRE, ciphers,
  encrypted links and the statistics of compressed ones, tools and contrib.
- Commands for servlink that arrive in pieces, which those of start_io are too short
  for: read_ctrl would run a command whose length is cut without its data
  (`servlink/io.c:385`), and read_ctrl_packet would not be called again
  (`packet.c:354`).
