----------------------------- MODULE ConfBlocks -----------------------------
(***************************************************************************)
(* Classes and the auth, oper, connect and hub blocks of one server, the   *)
(* connections attached to them, and what REHASH leaves of both            *)
(* (src/s_conf.c, the class and auth sections of src/ircd_parser.y).       *)
(*                                                                         *)
(* REHASH makes every block anew.  A block somebody is attached to stays,  *)
(* marked illegal, until the last one is detached.  A class that is in the *)
(* new file is overwritten; one that is not is marked by a negative        *)
(* max_number and goes with its last client.  The counts kept for the      *)
(* limits (users of a class, of an address block, of an address) are taken *)
(* up and down by the same calls.                                          *)
(*                                                                         *)
(* Memory is explicit: what delete_conf_item has freed is Freed, and a     *)
(* pointer to it stays where the code leaves it.  When the code follows    *)
(* such a pointer the model stops (fault).  assert() is compiled out, as   *)
(* configure does by default.                                              *)
(***************************************************************************)
EXTENDS Integers, Sequences, FiniteSets, SequencesExt, Lists

CONSTANTS
    Clients,        \* the connections' slots
    Addresses,
    Classes,        \* the names of class{} blocks
    Default,        \* the name of the class of init_class
    Files,          \* the configuration files: for each class its limits or
                    \* None, and for each type of block its class or None
    None,
    Freed,          \* what freed memory holds
    MaxRehash       \* bound on the REHASH commands

ASSUME ConfBlocksAssumption == Default \notin Classes /\ MaxRehash \in Nat

Types == {"auth", "oper", "server", "hub"}

\* What one file makes: the file read as the g-th, the first being the 0-th.
Gens == 0 .. MaxRehash
ClassIds == {<<Default, 0>>} \cup (Classes \X Gens)
BlockIds == Types \X Gens

VARIABLES
    file,           \* the file that was read last
    gen,            \* how many there were before it
    classes,        \* the ClassItems
    class_items,    \* the list of them, head first
    blocks,         \* the AccessItems (MatchItems for hub)
    dns,            \* connect blocks whose host is being looked up
    confs,          \* confs[c]: the blocks attached to c
    status,         \* where c is in its life
    ip,             \* the address c comes from, if it has come to us
    iphash,         \* the clients with IsIpHash
    count,          \* the count of an address in ip_hash_table
    fault           \* freed memory has been used

conns == <<status, ip, iphash, count>>
vars == <<file, gen, classes, class_items, blocks, dns, confs, conns, fault>>

Alive(item) == item \notin {None, Freed}

\* The address block an address is in, of the size cidr_bitlen gives.
Block(wide, a) == IF wide THEN Addresses ELSE {a}

Limits == [max : Int, perip : Nat, percidr : Nat, wide : BOOLEAN]
CidrLists == UNION {[D -> 1 .. Cardinality(Clients)] : D \in SUBSET (SUBSET Addresses)}

\* A pointer that is NULL or leads to freed memory is told from an item.
ClassRecords ==
    [limits : Limits, curr_user_count : Nat,
     cidr : UNION {[D -> Int] : D \in SUBSET (SUBSET Addresses)}]
BlockRecords == [class : ClassIds \cup {None}, clients : Nat, illegal : BOOLEAN]

ASSUME HeapAssumption ==
    /\ None # Freed /\ {None, Freed} \cap (ClassRecords \cup BlockRecords) = {}
    /\ IsFiniteSet(Clients) /\ IsFiniteSet(Classes)
    /\ \A f \in Files : \A n \in Classes : f.classes[n] \in Limits \cup {None}

TypeOK ==
    /\ file \in Files
    /\ gen \in Gens
    /\ \A k \in ClassIds : Alive(classes[k]) =>
          /\ classes[k].limits \in Limits
          /\ classes[k].curr_user_count \in 0 .. Cardinality(Clients)
          /\ classes[k].cidr \in CidrLists
    /\ ToSet(class_items) \subseteq ClassIds
    /\ \A b \in BlockIds : Alive(blocks[b]) =>
          blocks[b] \in BlockRecords
    /\ dns \subseteq BlockIds
    /\ confs \in [Clients -> SUBSET BlockIds]
    /\ status \in [Clients -> {"none", "unknown", "captured", "client", "oper",
                               "connecting", "server"}]
    /\ ip \in [Clients -> Addresses \cup {None}]
    /\ iphash \subseteq Clients
    /\ count \in [Addresses -> Nat]
    /\ fault \in BOOLEAN

-----------------------------------------------------------------------------
(* The heap *)

NoCidr == [x \in {} |-> 0]
Class(limits) == [limits |-> limits, curr_user_count |-> 0, cidr |-> NoCidr]

\* The part of the state the helpers below work on.
Heap == [classes |-> classes, items |-> class_items, blocks |-> blocks,
         confs |-> confs, fault |-> fault]

SetHeap(H) ==
    /\ classes' = H.classes
    /\ class_items' = H.items
    /\ blocks' = H.blocks
    /\ confs' = H.confs
    /\ fault' = H.fault

\* dlinkDelete: one that is in the list is taken out; one that is not has no
\* neighbours, so the list is left with neither head nor tail.
Unlinked(items, k) ==
    IF Contains(items, k) THEN Remaining(items, {k}) ELSE <<>>

\* delete_conf_item of a class and of a block.
ClassFreed(H, k) ==
    [H EXCEPT !.classes = [@ EXCEPT ![k] = Freed], !.items = Unlinked(@, k)]
BlockFreed(H, b) == [H EXCEPT !.blocks = [@ EXCEPT ![b] = Freed]]

-----------------------------------------------------------------------------
(* Address blocks *)

\* cidr_limit_reached, when it lets the address in.
CidrIn(K, a) ==
    LET m == Block(K.limits.wide, a) IN
    IF K.limits.percidr = 0 THEN K
    ELSE [K EXCEPT !.cidr = [x \in DOMAIN @ \cup {m} |->
                                IF x # m THEN @[x]
                                ELSE IF x \in DOMAIN @ THEN @[x] + 1 ELSE 1]]

CidrFull(K, a) ==
    LET m == Block(K.limits.wide, a) IN
    K.limits.percidr > 0 /\ m \in DOMAIN K.cidr /\ K.cidr[m] >= K.limits.percidr

\* remove_from_cidr_check
CidrOut(K, a) ==
    LET m == Block(K.limits.wide, a) IN
    IF K.limits.percidr = 0 \/ m \notin DOMAIN K.cidr THEN K
    ELSE IF K.cidr[m] = 1
    THEN [K EXCEPT !.cidr = [x \in DOMAIN @ \ {m} |-> @[x]]]
    ELSE [K EXCEPT !.cidr = [K.cidr EXCEPT ![m] = @ - 1]]

\* (mutant of Rebuilt: the lists of the old block size are kept)
RebuiltAsIs(H, k, limits) ==
    IF H.classes[k].limits.percidr = 0 THEN NoCidr ELSE H.classes[k].cidr

\* rebuild_cidr_class: the lists for the limits a file gives the class k.
Rebuilt(H, k, limits) ==
    LET old == H.classes[k].limits
        counted == {c \in Clients : \E b \in H.confs[c] :
                       b[1] = "auth" /\ H.blocks[b].class = k}
        on(m) == Cardinality({c \in counted : Block(limits.wide, ip[c]) = m})
    IN
    IF old.percidr = 0 \/ limits.percidr = 0 THEN NoCidr
    ELSE IF old.wide = limits.wide THEN H.classes[k].cidr
    ELSE [m \in {Block(limits.wide, ip[c]) : c \in counted} |-> on(m)]

-----------------------------------------------------------------------------
(* Attaching and detaching *)

\* attach_conf.  The ref_count of a hub block only goes up: that it is not 0
\* is all that is kept of it.
Attached(H, c, b) ==
    LET B == H.blocks[b]
        n == IF b[1] = "hub" THEN 1 ELSE B.clients + 1
        K == CidrIn(H.classes[B.class], ip[c])
        a == [H EXCEPT !.blocks = [@ EXCEPT ![b] = [B EXCEPT !.clients = n]],
                       !.confs = [H.confs EXCEPT ![c] = @ \cup {b}]]
    IN IF b[1] # "auth" THEN a
       ELSE [a EXCEPT !.classes =
                [H.classes EXCEPT ![B.class] = [K EXCEPT !.curr_user_count = @ + 1]]]

\* attach_conf refuses.
Refuses(H, c, b) ==
    \/ b \in H.confs[c]
    \/ b[1] # "hub" /\ H.blocks[b].illegal
    \/ b[1] = "auth" /\ CidrFull(H.classes[H.blocks[b].class], ip[c])

\* (mutant of ClassLeft: the count is not guarded)
ClassLeftBelow(H, c, b) ==
    LET k == H.blocks[b].class IN
    [H EXCEPT !.classes[k].curr_user_count = @ - 1]

\* The class of b loses a client: its count is taken back for every type of
\* block, and a marked class goes with its last.
ClassLeft(H, c, b) ==
    LET k == H.blocks[b].class
        K == IF b[1] = "auth" THEN CidrOut(H.classes[k], ip[c]) ELSE H.classes[k]
        out == [K EXCEPT !.curr_user_count = IF @ > 0 THEN @ - 1 ELSE 0]
        counted == [H EXCEPT !.classes = [@ EXCEPT ![k] = out]]
    IN IF out.limits.max < 0 /\ out.curr_user_count = 0
       THEN ClassFreed(counted, k) ELSE counted

\* (mutant of BlockLeft: an illegal block is left)
BlockLeftKept(H, b) == [H EXCEPT !.blocks[b].clients = @ - 1]

\* b itself loses one: an illegal block goes with its last.
BlockLeft(H, b) ==
    LET B == H.blocks[b] IN
    IF B.illegal /\ B.clients = 1 THEN BlockFreed(H, b)
    ELSE [H EXCEPT !.blocks = [H.blocks EXCEPT ![b] = [B EXCEPT !.clients = @ - 1]]]

\* detach_conf, for one block of c.
Detached(H, c, b) ==
    LET B == H.blocks[b]
        d == [H EXCEPT !.confs = [H.confs EXCEPT ![c] = @ \ {b}]]
    IN
    IF B = Freed \/ (b[1] # "hub" /\ H.classes[B.class] = Freed)
    THEN [d EXCEPT !.fault = TRUE]
    ELSE IF b[1] = "hub"
    THEN IF B.clients = 0 /\ B.illegal THEN BlockFreed(d, b) ELSE d
    ELSE BlockLeft(ClassLeft(d, c, b), b)

\* detach_conf(CONF_TYPE), or of one type: the last one attached.
DetachedAll(H, c) ==
    LET order == InOrder(H.confs[c])
        left[n \in 0 .. Cardinality(H.confs[c])] ==
            IF n = 0 THEN H ELSE Detached(left[n - 1], c, order[n])
    IN left[Cardinality(H.confs[c])]
DetachedType(H, c, type) ==
    LET bs == {b \in H.confs[c] : b[1] = type} IN
    IF bs = {} THEN H
    ELSE Detached(H, c, CHOOSE b \in bs : \A x \in bs : x[2] <= b[2])

-----------------------------------------------------------------------------
(* Connections *)

Current(type) == <<type, gen>>
Usable(b) == Alive(blocks[b]) /\ ~blocks[b].illegal

\* accept_connection and add_connection.
Accept(c, a) ==
    /\ status[c] = "none"
    /\ status' = [status EXCEPT ![c] = "unknown"]
    /\ ip' = [ip EXCEPT ![c] = a]
    /\ UNCHANGED <<file, gen, classes, class_items, blocks, dns, confs, iphash,
                   count, fault>>

\* exit_client and close_connection: the end of c, in the heap H.
Exited(H, c) ==
    /\ SetHeap(DetachedAll(H, c))
    /\ status' = [status EXCEPT ![c] = "none"]
    /\ iphash' = iphash \ {c}
    /\ count' = IF c \in iphash THEN [count EXCEPT ![ip[c]] = @ - 1] ELSE count
    /\ ip' = [ip EXCEPT ![c] = None]

\* The limits attach_iline looks at; count[a] has been raised.
LimitReached(K, n) ==
    \/ K.limits.max # 0 /\ K.curr_user_count >= K.limits.max
    \/ K.limits.perip # 0 /\ n >= K.limits.perip

\* check_client, verify_access and attach_iline: c has sent NICK and USER.
\* No auth block: it is held for a while, or exited.
Register(c) ==
    LET b == Current("auth")
        n == count[ip[c]] + 1
        K == classes[blocks[b].class]
    IN
    /\ status[c] = "unknown"
    /\ \/ /\ ~Usable(b)
          /\ status' = [status EXCEPT ![c] = "captured"]
          /\ SetHeap(Heap)
          /\ UNCHANGED <<ip, iphash, count>>
       \/ /\ Usable(b)
          /\ IF LimitReached(K, n) \/ Refuses(Heap, c, b)
             THEN /\ status' = [status EXCEPT ![c] = "none"]
                  /\ ip' = [ip EXCEPT ![c] = None]
                  /\ SetHeap(Heap)
                  /\ UNCHANGED <<iphash, count>>
             ELSE /\ SetHeap(Attached(Heap, c, b))
                  /\ status' = [status EXCEPT ![c] = "client"]
                  /\ iphash' = iphash \cup {c}
                  /\ count' = [count EXCEPT ![ip[c]] = n]
                  /\ UNCHANGED ip
    /\ UNCHANGED <<file, gen, dns>>

\* m_oper and m_challenge: the oper block is attached as well.
Oper(c) ==
    LET b == Current("oper") IN
    /\ status[c] = "client"
    /\ Usable(b) /\ ~Refuses(Heap, c, b)
    /\ SetHeap(Attached(Heap, c, b))
    /\ status' = [status EXCEPT ![c] = "oper"]
    /\ UNCHANGED <<file, gen, dns, ip, iphash, count>>

\* user_mode: MODE -o.
Deoper(c) ==
    /\ status[c] = "oper"
    /\ SetHeap(DetachedType(Heap, c, "oper"))
    /\ status' = [status EXCEPT ![c] = "client"]
    /\ UNCHANGED <<file, gen, dns, ip, iphash, count>>

\* serv_connect: the connect block is attached before the connection is made.
Connect(c) ==
    LET b == Current("server") IN
    /\ status[c] = "none"
    /\ Usable(b) /\ b \notin dns
    /\ SetHeap(Attached(Heap, c, b))
    /\ status' = [status EXCEPT ![c] = "connecting"]
    /\ UNCHANGED <<file, gen, dns, ip, iphash, count>>

\* check_server: SERVER arrives on a connection of either side.  The block of
\* the present file is attached, a second one after a REHASH, and the hub
\* block with it; without one the connection is closed.
Server(c) ==
    LET b == Current("server")
        h == Current("hub")
        with(H, x) == IF Usable(x) /\ ~Refuses(H, c, x) THEN Attached(H, c, x) ELSE H
    IN
    /\ status[c] \in {"unknown", "connecting"}
    /\ IF Usable(b)
       THEN /\ SetHeap(with(with(Heap, b), h))
            /\ status' = [status EXCEPT ![c] = "server"]
            /\ UNCHANGED <<ip, iphash, count>>
       ELSE Exited(Heap, c)
    /\ UNCHANGED <<file, gen, dns>>

\* A connection ends, for whatever reason.
Exit(c) ==
    /\ status[c] # "none"
    /\ Exited(Heap, c)
    /\ UNCHANGED <<file, gen, dns>>

\* conf_dns_callback: an answer, or none, and then the block is deleted.  The
\* query of a block that has been deleted was cancelled with it.
DnsAnswer(b) ==
    /\ b \in dns /\ Alive(blocks[b])
    /\ dns' = dns \ {b}
    /\ \/ SetHeap(Heap)
       \/ SetHeap(BlockFreed(Heap, b))
    /\ UNCHANGED <<file, gen, conns>>

-----------------------------------------------------------------------------
(* REHASH *)

\* clear_out_old_conf and clear_out_address_conf: blocks in use become
\* illegal, the others are freed, and all classes but the tail are marked.
BlocksCleared(bl) ==
    [b \in BlockIds |->
        IF ~Alive(bl[b]) \/ bl[b].illegal THEN bl[b]
        ELSE IF bl[b].clients = 0 THEN Freed
        ELSE [bl[b] EXCEPT !.illegal = TRUE]]
ClassesMarked(cl, items) ==
    [k \in ClassIds |->
        IF Contains(items, k) /\ k # Last(items) THEN [cl[k] EXCEPT !.limits.max = -1]
        ELSE cl[k]]
Cleared(H) ==
    [H EXCEPT !.blocks = BlocksCleared(@), !.classes = ClassesMarked(@, H.items)]

\* The class of that name in the list.
Named(items, n) == {k \in ToSet(items) : k[1] = n}

\* class_entry: a class that exists is overwritten as a whole, its
\* curr_user_count with it; another is put at the head of the list.
ClassRead(H, n, limits, g) ==
    IF Named(H.items, n) = {}
    THEN [H EXCEPT !.classes = [@ EXCEPT ![<<n, g>>] = Class(limits)],
                   !.items = <<<<n, g>>>> \o @]
    ELSE LET k == CHOOSE x \in Named(H.items, n) : TRUE
         IN [H EXCEPT !.classes = [@ EXCEPT ![k] =
                [Class(limits) EXCEPT !.cidr = Rebuilt(H, k, limits)]]]

ClassesRead(H, f, g) ==
    LET names == {n \in Classes : f.classes[n] # None}
        order == InOrder(names)
        read[n \in 0 .. Cardinality(names)] ==
            IF n = 0 THEN H
            ELSE ClassRead(read[n - 1], order[n], f.classes[order[n]], g)
    IN read[Cardinality(names)]

\* auth_entry, oper_entry, connect_entry and the hub_mask of a connect block:
\* conf_add_class_to_conf gives the class of that name, or the default one.
ClassFor(H, n) ==
    LET ks == {k \in Named(H.items, n) : H.classes[k].limits.max >= 0} IN
    IF ks = {} THEN <<Default, 0>> ELSE CHOOSE k \in ks : TRUE

BlocksRead(H, f, g) ==
    [H EXCEPT !.blocks = [b \in BlockIds |->
        IF b[2] # g \/ f.blocks[b[1]] = None THEN @[b]
        ELSE [class |-> IF b[1] = "hub" THEN None ELSE ClassFor(H, f.blocks[b[1]]),
              clients |-> 0, illegal |-> FALSE]]]

\* check_class: a marked class leaves the list, or is deleted when it has no
\* users.
ClassChecked(H, k) ==
    LET K == H.classes[k] IN
    IF K.curr_user_count > 0
    THEN [H EXCEPT !.classes = [@ EXCEPT ![k] = [K EXCEPT !.cidr = NoCidr]],
                   !.items = Unlinked(@, k)]
    ELSE ClassFreed(H, k)

ClassesChecked(H) ==
    LET marked == {k \in ToSet(H.items) : H.classes[k].limits.max < 0}
        order == InOrder(marked)
        left[n \in 0 .. Cardinality(marked)] ==
            IF n = 0 THEN H ELSE ClassChecked(left[n - 1], order[n])
    IN left[Cardinality(marked)]

\* rehash, read_conf_files and read_conf.  The host of a connect block is
\* looked up again.
Rehash(f) ==
    LET H == ClassesChecked(BlocksRead(ClassesRead(Cleared(Heap), f, gen + 1),
                                       f, gen + 1))
        b == <<"server", gen + 1>>
    IN
    /\ gen < MaxRehash
    /\ file' = f
    /\ gen' = gen + 1
    /\ SetHeap(H)
    /\ dns' = dns \cup {x \in {b} : Alive(H.blocks[x])}
    /\ UNCHANGED conns

-----------------------------------------------------------------------------

\* init_class, and the first file.
Init ==
    /\ file \in Files
    /\ gen = 0
    /\ LET none == [classes |-> [k \in ClassIds |->
                        IF k[1] = Default
                        THEN Class([max |-> 0, perip |-> 0, percidr |-> 0,
                                    wide |-> FALSE])
                        ELSE None],
                    items |-> << <<Default, 0>> >>,
                    blocks |-> [b \in BlockIds |-> None],
                    confs |-> [c \in Clients |-> {}],
                    fault |-> FALSE]
           H == BlocksRead(ClassesRead(none, file, 0), file, 0)
       IN /\ classes = H.classes
          /\ class_items = H.items
          /\ blocks = H.blocks
          /\ dns = {b \in BlockIds : b[1] = "server" /\ Alive(H.blocks[b])}
    /\ confs = [c \in Clients |-> {}]
    /\ status = [c \in Clients |-> "none"]
    /\ ip = [c \in Clients |-> None]
    /\ iphash = {}
    /\ count = [a \in Addresses |-> 0]
    /\ fault = FALSE

Next ==
    /\ ~fault
    /\ \/ \E c \in Clients, a \in Addresses : Accept(c, a)
       \/ \E c \in Clients : Register(c)
       \/ \E c \in Clients : Oper(c)
       \/ \E c \in Clients : Deoper(c)
       \/ \E c \in Clients : Connect(c)
       \/ \E c \in Clients : Server(c)
       \/ \E c \in Clients : Exit(c)
       \/ \E b \in BlockIds : DnsAnswer(b)
       \/ \E f \in Files : Rehash(f)

Spec == Init /\ [][Next]_vars

-----------------------------------------------------------------------------
(* Properties *)

AttachedTo(b) == {c \in Clients : b \in confs[c]}
UsersOf(k) == {c \in Clients : \E b \in confs[c] :
                  b[1] = "auth" /\ Alive(blocks[b]) /\ blocks[b].class = k}

\* aconf->clients is the number of connections attached, so that a block
\* taken out by REHASH is freed with the last of them and not before, and
\* none that has no connection is left behind.
BlocksCounted ==
    ~fault => \A b \in BlockIds : Alive(blocks[b]) /\ b[1] # "hub" =>
        /\ blocks[b].clients = Cardinality(AttachedTo(b))
        /\ blocks[b].illegal => blocks[b].clients > 0

\* A block somebody is attached to is not freed, however often the
\* configuration is read again; only a connect block whose host turns out
\* not to exist may be.
AttachedAlive ==
    ~fault => \A c \in Clients : \A b \in confs[c] : b[1] # "server" => Alive(blocks[b])

\* A block of an earlier configuration stays as long as somebody is attached
\* to it, and no longer.
BlocksKept == BlocksCounted /\ AttachedAlive

\* A class never counts more users than are attached to its auth blocks, the
\* illegal ones included.
ClassPlaces ==
    \A k \in ClassIds : Alive(classes[k]) =>
        classes[k].curr_user_count <= Cardinality(UsersOf(k))

\* Nor does an address block, through changes of cidr_bitlen and
\* number_per_cidr.
CidrPlaces ==
    \A k \in ClassIds : Alive(classes[k]) =>
        \A m \in DOMAIN classes[k].cidr :
            classes[k].cidr[m] <= Cardinality({c \in UsersOf(k) : ip[c] \in m})

\* The count of an address is that of the registered users on it.
AddressPlaces ==
    \A a \in Addresses :
        count[a] = Cardinality({c \in Clients :
                        ip[c] = a /\ status[c] \in {"client", "oper"}})

\* No place of a class, of an address block or of an address is lost for good
\* by those who come and go while the configuration changes.
NoPlaceLost == ClassPlaces /\ CidrPlaces /\ AddressPlaces

\* The class the next auth block without one will get, and all classes of
\* the file, can be found: dlinkDelete relies on what it takes out of
\* class_items being in it.
ClassesListed ==
    \A n \in {n \in Classes : file.classes[n] # None} \cup {Default} :
        Named(class_items, n) # {}

\* max_number: at no time are more users attached to a class.
MaxNumberKept ==
    \A k \in ClassIds : Alive(classes[k]) /\ classes[k].limits.max > 0 =>
        Cardinality(UsersOf(k)) <= classes[k].limits.max

=============================================================================
