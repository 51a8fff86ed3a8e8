------------------------------- MODULE Listing -------------------------------
(***************************************************************************)
(* The hash table of channels (hash.c) and LIST (m_list.c), which walks it *)
(* over as many rounds of the loop as the reader's queue needs, while      *)
(* other clients make, destroy, hide and look up channels.                 *)
(*                                                                         *)
(* A chain of the table is a sequence, the head first; looking up a        *)
(* channel moves it to the head.  Whether a queue is half full             *)
(* (exceeding_sendq) is left open at every bucket.  The options of LIST    *)
(* other than its masks are left out.  asked, shown, steady and phase are  *)
(* kept for the properties: the names a LIST was given, what has been      *)
(* listed since RPL_LISTSTART, what has been there to see ever since, and  *)
(* how the LIST went.                                                      *)
(***************************************************************************)
EXTENDS Naturals, Sequences, FiniteSets, SequencesExt

CONSTANTS
    Names,      \* channel names
    Hash,       \* name -> bucket in 1..Buckets
    Buckets,
    Ours,       \* the names that begin with &, never seen from elsewhere
    Readers,    \* clients that use LIST
    Remote,     \* those of them behind a lazy link (CAP_LL)
    Masks,      \* what LIST may be given: sets of wildcards, each the set of the
                \* names it matches
    Named,      \* what it may be given without wildcards: sequences of names
    None

VARIABLES
    chain,      \* channelTable
    secret,     \* channels with MODE +s
    task,       \* reader -> localClient->list_task
    listing,    \* listing_client_list
    asked, shown, steady, phase

vars == <<chain, secret, task, listing, asked, shown, steady, phase>>

There == {n \in Names : \E b \in 1..Buckets : n \in ToSet(chain[b])}
Seen(r) == There \ (secret \union IF r \in Remote THEN Ours ELSE {})

\* What stays to be seen by the LISTs under way.
Steady(there, hidden) ==
    [r \in Readers |-> (steady[r] \intersect there) \ hidden]

Init ==
    /\ chain = [b \in 1..Buckets |-> <<>>]
    /\ secret = {}
    /\ task = [r \in Readers |-> None]
    /\ listing = <<>>
    /\ asked = [r \in Readers |-> <<>>]
    /\ shown = [r \in Readers |-> <<>>]
    /\ steady = [r \in Readers |-> {}]
    /\ phase = [r \in Readers |-> "idle"]

----------------------------------------------------------------------------
(* What others do to the table meanwhile. *)

\* hash_add_channel
Create(n) ==
    /\ n \notin There
    /\ chain' = [chain EXCEPT ![Hash[n]] = <<n>> \o @]
    /\ UNCHANGED <<secret, task, listing, asked, shown, steady, phase>>

\* hash_del_channel
Destroy(n) ==
    /\ n \in There
    /\ chain' = [chain EXCEPT ![Hash[n]] = RemoveFirst(@, n)]
    /\ secret' = secret \ {n}
    /\ steady' = Steady(There \ {n}, {})
    /\ UNCHANGED <<task, listing, asked, shown, phase>>

\* hash_find_channel: what is found moves to the head of its chain.
ToFront(t, n) ==
    IF n \in ToSet(t[Hash[n]])
    THEN [t EXCEPT ![Hash[n]] = <<n>> \o RemoveFirst(@, n)]
    ELSE t

Lookup(n) ==
    /\ n \in There
    /\ chain' = ToFront(chain, n)
    /\ UNCHANGED <<secret, task, listing, asked, shown, steady, phase>>

Mode(n) ==
    /\ n \in There
    /\ secret' = IF n \in secret THEN secret \ {n} ELSE secret \union {n}
    /\ steady' = Steady(There, {n})
    /\ UNCHANGED <<chain, task, listing, asked, shown, phase>>

----------------------------------------------------------------------------
(* LIST *)

\* list_one_channel and list_allow_channel: a channel has to match all of
\* the masks.
Shows(r, lt, n) == n \in Seen(r) /\ \A s \in lt.show : n \in s

\* Mutant: the walk stops inside a bucket, after its first channel.
ListedInside(r, lt, to) ==
    SelectSeq(FlattenSeq([i \in 1..(to - lt.index) |->
                  LET bucket == chain[lt.index + i - 1] IN
                  IF Len(bucket) > 1 /\ to <= Buckets /\ i = to - lt.index
                  THEN SubSeq(bucket, 1, 1) ELSE bucket]),
              LAMBDA n : Shows(r, lt, n))

\* The buckets from one up to another, each of them whole.
Listed(r, lt, to) ==
    SelectSeq(FlattenSeq([i \in 1..(to - lt.index) |-> chain[lt.index + i - 1]]),
              LAMBDA n : Shows(r, lt, n))

\* free_list_task
Freed(r) ==
    /\ task' = [task EXCEPT ![r] = None]
    /\ listing' = SelectSeq(listing, LAMBDA x : x # r)

\* safe_list_channels: up to a bucket where the queue is more than half
\* full, or to the end.
Walk(r, lt) ==
    \E to \in lt.index..(Buckets + 1) :
        /\ shown' = [shown EXCEPT ![r] = @ \o Listed(r, lt, to)]
        /\ IF to = Buckets + 1
           THEN /\ Freed(r)
                /\ phase' = [phase EXCEPT ![r] = "done"]
           ELSE /\ task' = [task EXCEPT ![r] = [lt EXCEPT !.index = to]]
                /\ UNCHANGED <<listing, phase>>

\* do_list with nothing or with masks: the walk begins in the same call.  A
\* remote reader has no task to go on with.
List(r, show) ==
    /\ task[r] = None
    /\ LET lt == [index |-> 1, show |-> show]
           start == [steady EXCEPT ![r] = {n \in There : Shows(r, lt, n)}]
       IN  \E to \in 1..(Buckets + 1) :
              /\ shown' = [shown EXCEPT ![r] = Listed(r, lt, to)]
              /\ steady' = start
              /\ IF to = Buckets + 1
                 THEN /\ phase' = [phase EXCEPT ![r] = "done"]
                      /\ UNCHANGED <<task, listing>>
                 ELSE IF r \in Remote
                 THEN /\ phase' = [phase EXCEPT ![r] = "dropped"]
                      /\ UNCHANGED <<task, listing>>
                 ELSE /\ task' = [task EXCEPT ![r] = [lt EXCEPT !.index = to]]
                      /\ listing' = <<r>> \o listing
                      /\ phase' = [phase EXCEPT ![r] = "running"]
    /\ asked' = [asked EXCEPT ![r] = <<>>]
    /\ UNCHANGED <<chain, secret>>

\* do_list with names only, the last of them at the head of show_mask: each is
\* looked up, as often as it is there, and shown if it matches all of them.
ListNames(r, names) ==
    /\ task[r] = None
    /\ LET lt == [index |-> 1, show |-> {{n} : n \in ToSet(names)}]
           looked == Reverse(names)
           found == SelectSeq(looked, LAMBDA n : Shows(r, lt, n))
       IN  /\ shown' = [shown EXCEPT ![r] = found]
           /\ steady' = [steady EXCEPT ![r] = ToSet(found)]
           /\ chain' = FoldLeft(ToFront, chain, looked)
    /\ asked' = [asked EXCEPT ![r] = names]
    /\ phase' = [phase EXCEPT ![r] = "done"]
    /\ UNCHANGED <<secret, task, listing>>

\* do_list while one is running, which stops it; exit_client.
Stop(r) ==
    /\ task[r] # None
    /\ Freed(r)
    /\ phase' = [phase EXCEPT ![r] = "stopped"]
    /\ UNCHANGED <<chain, secret, asked, shown, steady>>

\* io_loop: one client of listing_client_list after the other.
Continue ==
    /\ \E r \in ToSet(listing) : Walk(r, task[r])
    /\ UNCHANGED <<chain, secret, asked, steady>>

Next ==
    \/ \E n \in Names : Create(n) \/ Destroy(n) \/ Lookup(n) \/ Mode(n)
    \/ \E r \in Readers :
          \/ \E show \in Masks : List(r, show)
          \/ \E names \in Named : ListNames(r, names)
          \/ Stop(r)
    \/ Continue

Spec == Init /\ [][Next]_vars

----------------------------------------------------------------------------
TypeOK ==
    /\ \A b \in 1..Buckets : IsInjective(chain[b])
    /\ \A n \in There : n \in ToSet(chain[Hash[n]])
    /\ secret \subseteq There
    /\ \A r \in Readers : r \in ToSet(listing) <=> task[r] # None
    /\ asked \in [Readers -> Named \cup {<<>>}]
    /\ IsInjective(listing)
    /\ \A r \in Readers : phase[r] = "running" <=> task[r] # None

Times(r, n) == Cardinality({i \in DOMAIN shown[r] : shown[r][i] = n})

\* How often a LIST is to show a channel: as often as it names it.
Asked(r, n) ==
    IF asked[r] = <<>> THEN 1 ELSE Cardinality({i \in DOMAIN asked[r] : asked[r][i] = n})

\* A LIST that has come to its end has shown every channel that was there to
\* be seen all the time, and none of those twice unless it was named twice,
\* whatever was made, destroyed, looked up or hidden between its rounds: a
\* bucket is left only when all of it has been shown (safe_list_channels).
ListsAllOnce ==
    \A r \in Readers : \A n \in steady[r] :
        /\ Times(r, n) <= Asked(r, n)
        /\ phase[r] = "done" => Times(r, n) = Asked(r, n)

\* Contradicted: hash.c says of safe_list_channels that it is "remote" safe.
RemoteSafe == \A r \in Remote : phase[r] # "dropped"

=============================================================================
