-------------------------- MODULE ConnectionsProofs --------------------------
(***************************************************************************)
(* Proofs about Connections, for any number of connections and of retries: *)
(* the inductive invariant IInv, the safety invariants that follow from    *)
(* it, and that every step is a step of ConnectionLife.                    *)
(***************************************************************************)
EXTENDS Connections, TLAPS

-----------------------------------------------------------------------------
(* The inductive invariant *)

\* The list the connection is on as long as it is not closing.
Home(status) ==
    CASE status = "client" -> {"local_client_list"}
      [] status = "server" -> {"serv_list"}
      [] OTHER -> {"unknown_list"}

\* Nothing leads to the connection any more but dead_list.
Unlinked(k) ==
    /\ k.flags = {"closing", "dead"}
    /\ ~k.open /\ k.lists = {} /\ k.links = 0
    /\ ~k.auth /\ k.doing = {} /\ k.query = "none"

\* After exit_client, and after free_client.
Ending(k) == Allocated(k) /\ Unlinked(k) /\ k.deads = 1
Gone(k) == k.status = "freed" /\ Unlinked(k) /\ k.deads = 0

\* A connection that is not closing; a write to it may have failed.
Working(k) ==
    /\ Allocated(k)
    /\ "closing" \notin k.flags
    /\ k.open /\ k.deads = 0
    /\ k.lists = Home(k.status)
    /\ k.links \in {0, 1} /\ (k.status # "unknown" => k.links = 1)
    /\ k.auth <=> k.doing # {}
    /\ k.auth => k.status = "unknown" /\ k.links = 0
    /\ "dns" \in k.doing => k.query # "none"
    /\ k.query # "none" => /\ k.retries > 0
                           /\ "dns" \in k.doing \/ k.status = "connecting"

Sound(k) == k = NoConn \/ Working(k) \/ Ending(k) \/ Gone(k)

\* abort_list has the connections a write to which has failed, once each,
\* until they are exited; some on it may have been exited by somebody else.
AbortSound ==
    /\ \A i, j \in DOMAIN abort_list : abort_list[i] = abort_list[j] => i = j
    /\ \A i \in DOMAIN abort_list :
         /\ Allocated(conn[abort_list[i]])
         /\ "dead" \in conn[abort_list[i]].flags
    /\ \A c \in Conns : Working(conn[c]) /\ "dead" \in conn[c].flags =>
         \E i \in DOMAIN abort_list : abort_list[i] = c
    /\ phase = "free" => abort_list = <<>>

IInv == TypeOK /\ (\A c \in Conns : Sound(conn[c])) /\ AbortSound

-----------------------------------------------------------------------------
(* What the operators on connections return *)

\* A connection exit_client can take apart: what is left of its checks is
\* found by delete_auth or fd_close.
Exitable(k) ==
    /\ Allocated(k)
    /\ "closing" \notin k.flags
    /\ k.deads = 0
    /\ k.lists = Home(k.status)
    /\ k.links \in {0, 1}
    /\ k.doing # {} => k.status = "unknown"
    /\ k.query # "none" => "dns" \in k.doing \/ k.status = "connecting"

\* rem_request changes nothing but the request.
LEMMA UnaskedFields ==
    ASSUME NEW k \in Conn
    PROVE  /\ Unasked(k) \in Conn
           /\ Unasked(k).status = k.status /\ Unasked(k).flags = k.flags
           /\ Unasked(k).lists = k.lists /\ Unasked(k).links = k.links
           /\ Unasked(k).deads = k.deads /\ Unasked(k).doing = k.doing
           /\ Unasked(k).auth = k.auth /\ Unasked(k).open = k.open
           /\ Unasked(k).query = "none"
<1>1. 0 \in 0 .. MaxRetries
  BY RetriesAssumption
<1>2. Unasked(k) \in Conn
  BY <1>1 DEF Unasked, Conn
<1>3. /\ Unasked(k).status = k.status /\ Unasked(k).flags = k.flags
      /\ Unasked(k).lists = k.lists /\ Unasked(k).links = k.links
      /\ Unasked(k).deads = k.deads /\ Unasked(k).doing = k.doing
      /\ Unasked(k).query = "none"
  BY DEF Unasked, Conn
<1>4. Unasked(k).auth = k.auth
  BY DEF Unasked, Conn
<1>5. Unasked(k).open = k.open
  BY DEF Unasked, Conn
<1> QED
  BY <1>2, <1>3, <1>4, <1>5

\* make_request changes nothing but the request.
LEMMA AskedFields ==
    ASSUME NEW k \in Conn, NEW type \in {"ptr", "a"}
    PROVE  /\ Asked(k, type) \in Conn
           /\ Asked(k, type).status = k.status /\ Asked(k, type).flags = k.flags
           /\ Asked(k, type).lists = k.lists /\ Asked(k, type).links = k.links
           /\ Asked(k, type).deads = k.deads /\ Asked(k, type).doing = k.doing
           /\ Asked(k, type).auth = k.auth /\ Asked(k, type).open = k.open
           /\ Asked(k, type).query = type /\ Asked(k, type).retries > 0
<1>1. MaxRetries \in 0 .. MaxRetries /\ type \in {"none", "ptr", "a"}
  BY RetriesAssumption
<1>2. Asked(k, type) \in Conn
  BY <1>1 DEF Asked, Conn
<1>3. /\ Asked(k, type).status = k.status /\ Asked(k, type).flags = k.flags
      /\ Asked(k, type).lists = k.lists /\ Asked(k, type).links = k.links
      /\ Asked(k, type).deads = k.deads /\ Asked(k, type).doing = k.doing
      /\ Asked(k, type).query = type
  BY DEF Asked, Conn
<1>4. Asked(k, type).auth = k.auth
  BY DEF Asked, Conn
<1>5. Asked(k, type).open = k.open
  BY DEF Asked, Conn
<1>6. Asked(k, type).retries > 0
  BY RetriesAssumption DEF Asked, Conn
<1> QED
  BY <1>2, <1>3, <1>4, <1>5, <1>6

\* exit_client leaves nothing that leads to the connection; an AuthRequest
\* no list has is left to the caller, which frees it.
LEMMA ExitUnlinks ==
    ASSUME NEW k \in Conn, Exitable(k)
    PROVE  /\ Exit(k) \in Conn
           /\ Exit(k).status = k.status
           /\ Exit(k).auth <=> k.auth /\ k.doing = {}
           /\ Ending(FreeAuth(Exit(k)))
<1> DEFINE d == DeleteAuth(k)
           f == FdClose(d)
           x == Exit(k)
<1>1. /\ d \in Conn
      /\ d.status = k.status /\ d.lists = k.lists
      /\ d.links = k.links /\ d.deads = 0 /\ d.doing = {}
      /\ d.auth <=> k.auth /\ k.doing = {}
      /\ d.query # "none" => k.status = "connecting"
  <2>1. CASE k.status # "unknown" \/ k.doing = {}
    <3>1. d = k
      BY <2>1 DEF DeleteAuth
    <3> QED
      BY <2>1, <3>1 DEF Exitable
  <2>2. CASE k.status = "unknown" /\ k.doing # {}
    <3>1. PICK a \in Conn :
             /\ d = [a EXCEPT !.auth = FALSE, !.doing = {}]
             /\ a.status = k.status /\ a.lists = k.lists
             /\ a.links = k.links /\ a.deads = k.deads /\ a.query = "none"
      <4>1. CASE "dns" \in k.doing
        BY <2>2, <4>1, UnaskedFields DEF DeleteAuth
      <4>2. CASE "dns" \notin k.doing
        BY <2>2, <4>2 DEF DeleteAuth, Exitable
      <4> QED
        BY <4>1, <4>2
    <3> HIDE DEF d
    <3>2. d \in Conn
      BY <3>1 DEF Conn
    <3>3. /\ d.status = k.status /\ d.lists = k.lists
          /\ d.links = k.links /\ d.deads = k.deads
          /\ d.doing = {} /\ d.query = "none"
      BY <3>1 DEF Conn
    <3>4. ~d.auth
      BY <3>1 DEF Conn
    <3> QED
      BY <2>2, <3>2, <3>3, <3>4 DEF Exitable
  <2> QED
    BY <2>1, <2>2
<1>2. /\ f \in Conn
      /\ f.status = k.status /\ f.lists = k.lists
      /\ f.links = k.links /\ f.deads = 0 /\ f.doing = {}
      /\ f.auth <=> d.auth
      /\ f.query = "none" /\ ~f.open
  <2> HIDE DEF d
  <2>1. PICK b \in Conn :
           /\ f = [b EXCEPT !.open = FALSE]
           /\ b.status = d.status /\ b.lists = d.lists
           /\ b.links = d.links /\ b.deads = d.deads
           /\ b.doing = d.doing /\ b.auth = d.auth /\ b.query = "none"
    <3>1. CASE d.status = "connecting"
      BY <1>1, <3>1, UnaskedFields DEF FdClose
    <3>2. CASE d.status # "connecting"
      BY <1>1, <3>2 DEF FdClose
    <3> QED
      BY <3>1, <3>2
  <2> HIDE DEF f
  <2>2. f \in Conn
    BY <2>1 DEF Conn
  <2>3. /\ f.status = k.status /\ f.lists = k.lists
        /\ f.links = k.links /\ f.deads = 0
        /\ f.doing = {} /\ f.query = "none"
    BY <1>1, <2>1 DEF Conn
  <2>4. f.auth <=> d.auth
    BY <2>1 DEF Conn
  <2>5. ~f.open
    BY <2>1 DEF Conn
  <2> QED
    BY <2>2, <2>3, <2>4, <2>5
<1>3. x = [f EXCEPT !.flags = {"closing", "dead"},
                    !.lists = @ \ ListsOf(k.status),
                    !.links = IF @ = 0 THEN 0 ELSE @ - 1,
                    !.deads = @ + 1]
  BY DEF Exit, Exitable
<1>4. Home(k.status) \ ListsOf(k.status) = {}
  BY DEF Home, ListsOf
<1>5. /\ x \in Conn
      /\ x.status = k.status /\ x.flags = {"closing", "dead"}
      /\ x.lists = {} /\ x.links = 0 /\ x.deads = 1 /\ x.doing = {}
      /\ x.auth <=> d.auth
      /\ x.query = "none" /\ ~x.open
  <2> HIDE DEF f, x, d
  <2>1. x \in Conn
    <3> DEFINE ls == f.lists \ ListsOf(k.status)
               ln == IF f.links = 0 THEN 0 ELSE f.links - 1
    <3>1. /\ ls \in SUBSET Lists /\ ln \in Nat /\ f.deads + 1 \in Nat
          /\ {"closing", "dead"} \in SUBSET {"dead", "closing"}
      BY <1>2 DEF Conn
    <3>2. x = [f EXCEPT !.flags = {"closing", "dead"}, !.lists = ls,
                        !.links = ln, !.deads = f.deads + 1]
      BY <1>3
    <3> HIDE DEF ls, ln
    <3> QED
      BY <1>2, <3>1, <3>2 DEF Conn
  <2>2. /\ x.status = k.status /\ x.flags = {"closing", "dead"}
        /\ x.doing = {} /\ x.query = "none"
    BY <1>2, <1>3 DEF Conn
  <2>3. x.lists = {}
    BY <1>2, <1>3, <1>4 DEF Conn, Exitable
  <2>4. x.links = 0 /\ x.deads = 1
    BY <1>2, <1>3 DEF Conn, Exitable
  <2>5. x.auth <=> d.auth
    BY <1>2, <1>3 DEF Conn
  <2>6. ~x.open
    BY <1>2, <1>3 DEF Conn
  <2> QED
    BY <2>1, <2>2, <2>3, <2>4, <2>5, <2>6
<1>6. Ending(FreeAuth(x))
  BY <1>5 DEF Ending, Unlinked, FreeAuth, Exitable, Conn, Allocated
<1> QED
  BY <1>1, <1>5, <1>6

\* A connection whose checks are over: it can be read.  It may still have an
\* AuthRequest that read_auth_reply is about to free.
Released(k) ==
    /\ Allocated(k)
    /\ "closing" \notin k.flags
    /\ k.open /\ k.deads = 0
    /\ k.lists = Home(k.status)
    /\ k.links = 1
    /\ k.doing = {} /\ k.query = "none"

\* Parsing may move the connection to another list, never change its flags.
LEMMA ParsedReleased ==
    ASSUME NEW k \in Conn, Released(k), NEW r \in Parsed(k)
    PROVE  r \in Conn /\ Released(r) /\ r.flags = k.flags /\ r.auth = k.auth
<1> DEFINE moved(status, list) ==
             [k EXCEPT !.status = status,
                       !.lists = (k.lists \ {"unknown_list"}) \cup {list}]
<1>1. CASE r = k
  BY <1>1
<1>2. ASSUME NEW status \in {"client", "server"}, NEW list \in Lists,
             k.status \in {"unknown", "handshake"}, Home(status) = {list},
             r = moved(status, list)
      PROVE  r \in Conn /\ Released(r) /\ r.flags = k.flags /\ r.auth = k.auth
  <2>1. k.lists = {"unknown_list"}
    BY <1>2 DEF Released, Home
  <2>2. r = [k EXCEPT !.status = status, !.lists = {list}]
    BY <1>2, <2>1
  <2>3. /\ status \in Statuses /\ {list} \in SUBSET Lists
        /\ status \notin {"none", "freed"}
    BY <1>2 DEF Statuses
  <2> HIDE DEF moved
  <2>4. r \in Conn
    BY <2>2, <2>3 DEF Conn
  <2>5. /\ r.status = status /\ r.lists = {list} /\ r.flags = k.flags
        /\ r.links = k.links /\ r.deads = k.deads
        /\ r.doing = k.doing /\ r.query = k.query
    BY <2>2 DEF Conn
  <2>6. r.auth = k.auth
    BY <2>2 DEF Conn
  <2>7. r.open = k.open
    BY <2>2 DEF Conn
  <2> QED
    BY <1>2, <2>3, <2>4, <2>5, <2>6, <2>7 DEF Released, Allocated
<1>3. Home("client") = {"local_client_list"} /\ Home("server") = {"serv_list"}
  BY DEF Home
<1>4. CASE k.status = "unknown" /\ r = AsClient(k)
  BY <1>2, <1>3, <1>4 DEF AsClient, Lists
<1>5. CASE k.status \in {"unknown", "handshake"} /\ r = AsServer(k)
  BY <1>2, <1>3, <1>5 DEF AsServer, Lists
<1> QED
  BY <1>1, <1>4, <1>5 DEF Parsed

\* exit_client may be called for whoever is being read.
LEMMA ReleasedExitable ==
    ASSUME NEW k, Released(k)
    PROVE  Exitable(k)
BY DEF Released, Exitable

\* read_packet leaves the connection alive and released, or exited.
LEMMA ReadResults ==
    ASSUME NEW k \in Conn, Released(k), NEW r \in ReadPacket(k)
    PROVE  /\ r \in Conn
           /\ r.auth => k.auth
           /\ \/ Released(r) /\ r.flags = k.flags
              \/ Ending(FreeAuth(r))
<1>1. CASE r = k
  BY <1>1
<1>2. CASE r \in Parsed(k)
  BY <1>2, ParsedReleased
<1>3. ASSUME NEW q \in Parsed(k), r = Exit(q)
      PROVE  r \in Conn /\ (r.auth => k.auth) /\ Ending(FreeAuth(r))
  <2>1. q \in Conn /\ Exitable(q) /\ q.auth = k.auth
    BY ParsedReleased, ReleasedExitable
  <2> QED
    BY <1>3, <2>1, ExitUnlinks
<1> QED
  BY <1>1, <1>2, <1>3 DEF ReadPacket

\* Freeing the AuthRequest changes nothing else.
LEMMA FreeAuthFields ==
    ASSUME NEW k \in Conn
    PROVE  /\ FreeAuth(k) \in Conn
           /\ FreeAuth(k).status = k.status /\ FreeAuth(k).flags = k.flags
           /\ FreeAuth(k).lists = k.lists /\ FreeAuth(k).links = k.links
           /\ FreeAuth(k).deads = k.deads /\ FreeAuth(k).doing = k.doing
           /\ FreeAuth(k).query = k.query
           /\ FreeAuth(k).open = k.open
           /\ ~FreeAuth(k).auth
<1>1. FreeAuth(k) \in Conn
  BY DEF FreeAuth, Conn
<1>2. /\ FreeAuth(k).status = k.status /\ FreeAuth(k).flags = k.flags
      /\ FreeAuth(k).lists = k.lists /\ FreeAuth(k).links = k.links
      /\ FreeAuth(k).deads = k.deads /\ FreeAuth(k).doing = k.doing
      /\ FreeAuth(k).query = k.query
  BY DEF FreeAuth, Conn
<1>3. FreeAuth(k).open = k.open
  BY DEF FreeAuth, Conn
<1>4. ~FreeAuth(k).auth
  BY DEF FreeAuth, Conn
<1> QED
  BY <1>1, <1>2, <1>3, <1>4

\* Released without an AuthRequest, a connection keeps the invariant.
LEMMA ReleasedWorks ==
    ASSUME NEW k \in Conn, Released(k), ~k.auth
    PROVE  Working(k)
BY DEF Released, Working

-----------------------------------------------------------------------------
(* What a handler may make of a connection *)

\* One step of the life of a connection, or none.
LifeStep(k, r) ==
    \/ Life(r) = Life(k)
    \/ Life(k) = "absent" /\ Life(r) \in {"checking", "talking", "ending"}
    \/ Life(k) = "checking" /\ Life(r) \in {"talking", "ending"}
    \/ Life(k) = "talking" /\ Life(r) = "ending"

\* A handler that does not report a write error makes r of k.
Evolves(k, r) ==
    /\ r \in Conn
    /\ Working(r) \/ Ending(r)
    /\ k.flags \subseteq r.flags
    /\ "closing" \notin r.flags => r.flags = k.flags
    /\ LifeStep(k, r)

\* How far the connections of each kind have come.
LEMMA Lives ==
    ASSUME NEW k \in Conn
    PROVE  /\ Ending(k) => Life(k) = "ending" /\ k.flags = {"closing", "dead"}
           /\ Gone(k) => Life(k) = "gone"
           /\ k = NoConn => Life(k) = "absent" /\ k.flags = {}
           /\ Working(k) =>
                /\ "dead" \in k.flags => Life(k) = "ending"
                /\ "dead" \notin k.flags => k.flags = {}
                /\ "dead" \notin k.flags /\ k.links = 0 => Life(k) = "checking"
                /\ "dead" \notin k.flags /\ k.links = 1 => Life(k) = "talking"
<1>1. Ending(k) => Life(k) = "ending" /\ k.flags = {"closing", "dead"}
  BY DEF Ending, Unlinked, Life, Allocated, Defunct
<1>2. Gone(k) => Life(k) = "gone"
  BY DEF Gone, Life, Allocated
<1>3. k = NoConn => Life(k) = "absent" /\ k.flags = {}
  BY DEF NoConn, Life, Allocated
<1>4. ASSUME Working(k)
      PROVE  /\ "dead" \in k.flags => Life(k) = "ending"
             /\ "dead" \notin k.flags => k.flags = {}
             /\ "dead" \notin k.flags /\ k.links = 0 => Life(k) = "checking"
             /\ "dead" \notin k.flags /\ k.links = 1 => Life(k) = "talking"
  <2>1. "dead" \notin k.flags => k.flags = {}
    BY <1>4 DEF Working, Conn
  <2> QED
    BY <1>4, <2>1 DEF Working, Life, Allocated, Defunct
<1> QED
  BY <1>1, <1>2, <1>3, <1>4

\* A living connection stays alive as it is or is exited.
LEMMA WorkingEvolves ==
    ASSUME NEW k \in Conn, Working(k), NEW r \in Conn,
           \/ Ending(r)
           \/ Working(r) /\ r.flags = k.flags /\ k.links <= r.links
    PROVE  Evolves(k, r)
<1>1. CASE Ending(r)
  <2>1. k.flags \subseteq r.flags /\ "closing" \in r.flags
    BY <1>1, Lives DEF Conn
  <2>2. Life(r) = "ending" /\ Life(k) \in {"checking", "talking", "ending"}
    BY <1>1, Lives DEF Working
  <2> QED
    BY <1>1, <2>1, <2>2 DEF Evolves, LifeStep
<1>2. CASE Working(r) /\ r.flags = k.flags /\ k.links <= r.links
  <2>1. LifeStep(k, r)
    BY <1>2, Lives DEF LifeStep, Working
  <2> QED
    BY <1>2, <2>1 DEF Evolves
<1> QED
  BY <1>1, <1>2

\* A new connection is alive or already exited.
LEMMA NewEvolves ==
    ASSUME NEW r \in Conn, Ending(r) \/ (Working(r) /\ r.flags = {})
    PROVE  Evolves(NoConn, r)
<1>1. NoConn \in Conn
  BY RetriesAssumption DEF NoConn, Conn, Statuses
<1>2. Life(NoConn) = "absent" /\ NoConn.flags = {}
  BY <1>1, Lives
<1>3. Life(r) \in {"checking", "talking", "ending"}
  BY Lives DEF Working
<1> QED
  BY <1>2, <1>3, Lives DEF Evolves, LifeStep

\* exit_client of a connection without an AuthRequest, or with one a list has.
LEMMA ExitEnds ==
    ASSUME NEW k \in Conn, Exitable(k), ~k.auth \/ k.doing # {}
    PROVE  Exit(k) \in Conn /\ Ending(Exit(k))
<1>1. Exit(k) \in Conn /\ ~Exit(k).auth /\ Ending(FreeAuth(Exit(k)))
  BY ExitUnlinks
<1>2. Ending(Exit(k))
  BY <1>1, FreeAuthFields DEF Ending, Unlinked, Allocated
<1> QED
  BY <1>1, <1>2

\* exit_client ends whatever is alive.
LEMMA ExitEvolves ==
    ASSUME NEW k \in Conn, Working(k)
    PROVE  Evolves(k, Exit(k))
<1>1. Exitable(k) /\ (~k.auth \/ k.doing # {})
  BY DEF Working, Exitable
<1>2. Exit(k) \in Conn /\ Ending(Exit(k))
  BY <1>1, ExitEnds
<1> QED
  BY <1>2, WorkingEvolves

\* What release_auth_client makes of a connection whose checks are over,
\* once its AuthRequest is freed.
LEMMA ReleaseEvolves ==
    ASSUME NEW k \in Conn, Working(k), k.status = "unknown", k.links = 0,
           NEW d \in Conn,
           d.status = "unknown", d.flags = k.flags, d.open = k.open,
           d.lists = k.lists, d.links = 0, d.deads = 0,
           d.doing = {}, d.query = "none",
           NEW r \in Release(d)
    PROVE  Evolves(k, FreeAuth(r)) /\ (~d.auth => Evolves(k, r))
<1> DEFINE e == [d EXCEPT !.links = @ + 1]
<1>1. /\ e \in Conn
      /\ e.status = "unknown" /\ e.flags = k.flags /\ e.lists = k.lists
      /\ e.links = 1 /\ e.deads = 0 /\ e.doing = {} /\ e.query = "none"
  BY DEF Conn
<1>2. e.open = d.open
  BY DEF Conn
<1>3. e.auth = d.auth
  BY DEF Conn
<1> HIDE DEF e
<1>4. Released(e)
  BY <1>1, <1>2 DEF Released, Working, Allocated
<1>5. r \in ReadPacket(e)
  BY DEF Release, e
<1>6. r \in Conn
  BY <1>1, <1>4, <1>5, ReadResults
<1>7. r.auth => d.auth
  BY <1>1, <1>3, <1>4, <1>5, ReadResults
<1>8. \/ Released(r) /\ r.flags = k.flags
      \/ Ending(FreeAuth(r))
  BY <1>1, <1>4, <1>5, ReadResults
<1>9. Evolves(k, FreeAuth(r))
  <2>1. CASE Released(r) /\ r.flags = k.flags
    <3>1. Released(FreeAuth(r)) /\ FreeAuth(r).links = 1
      BY <1>6, <2>1, FreeAuthFields DEF Released, Allocated
    <3>2. Working(FreeAuth(r))
      BY <1>6, <3>1, FreeAuthFields, ReleasedWorks
    <3> QED
      BY <1>6, <2>1, <3>1, <3>2, FreeAuthFields, WorkingEvolves
  <2>2. CASE Ending(FreeAuth(r))
    BY <1>6, <2>2, FreeAuthFields, WorkingEvolves
  <2> QED
    BY <1>8, <2>1, <2>2
<1>10. ASSUME ~d.auth
       PROVE  Evolves(k, r)
  <2>1. CASE Released(r) /\ r.flags = k.flags
    <3>1. Working(r) /\ r.links = 1
      BY <1>6, <1>7, <1>10, <2>1, ReleasedWorks DEF Released
    <3> QED
      BY <1>6, <2>1, <3>1, WorkingEvolves
  <2>2. CASE Ending(FreeAuth(r))
    <3>1. Ending(r)
      BY <1>6, <1>7, <1>10, <2>2, FreeAuthFields DEF Ending, Unlinked, Allocated
    <3> QED
      BY <1>6, <3>1, WorkingEvolves
  <2> QED
    BY <1>8, <2>1, <2>2
<1> QED
  BY <1>9, <1>10

\* auth_dns_callback: the connection waits for ident, or is released.
LEMMA DnsEvolves ==
    ASSUME NEW k \in Conn, Working(k), k.auth, k.query # "none",
           NEW r \in DnsCallback(k)
    PROVE  Evolves(k, r)
<1> DEFINE u == Unasked(k)
           done == [u EXCEPT !.doing = u.doing \ {"dns"}]
<1>1. k.status = "unknown" /\ k.links = 0 /\ "dns" \in k.doing
  BY DEF Working
<1>2. /\ u \in Conn
      /\ u.status = k.status /\ u.flags = k.flags
      /\ u.lists = k.lists /\ u.links = k.links
      /\ u.deads = k.deads /\ u.doing = k.doing /\ u.query = "none"
      /\ u.open = k.open /\ u.auth = k.auth
      /\ u.doing \ {"dns"} \in SUBSET {"dns", "ident"}
  BY UnaskedFields DEF Conn
<1> HIDE DEF u
<1>3. /\ done \in Conn
      /\ done.status = k.status /\ done.flags = k.flags
      /\ done.lists = k.lists /\ done.links = k.links
      /\ done.deads = k.deads /\ done.doing = k.doing \ {"dns"}
      /\ done.query = "none"
  BY <1>2 DEF Conn
<1>4. done.open = k.open
  <2>1. done.open = u.open
    BY <1>2 DEF Conn
  <2> QED
    BY <1>2, <2>1
<1>5. done.auth = k.auth
  <2>1. done.auth = u.auth
    BY <1>2 DEF Conn
  <2> QED
    BY <1>2, <2>1
<1> HIDE DEF done
<1>6. CASE "ident" \in k.doing
  <2>1. r = done
    BY <1>6 DEF DnsCallback, done, u
  <2>2. Working(done)
    BY <1>1, <1>3, <1>4, <1>5, <1>6 DEF Working, Allocated
  <2> QED
    BY <1>1, <1>3, <2>1, <2>2, WorkingEvolves
<1>7. CASE "ident" \notin k.doing
  <2>1. r \in Release(FreeAuth(done))
    BY <1>7 DEF DnsCallback, done, u
  <2>2. k.doing \ {"dns"} = {}
    BY <1>7 DEF Conn
  <2>3. k.deads = 0
    BY DEF Working
  <2> DEFINE d == FreeAuth(done)
  <2>4. /\ d \in Conn /\ d.status = "unknown" /\ d.flags = k.flags
        /\ d.lists = k.lists /\ d.links = 0 /\ d.deads = 0
        /\ d.doing = {} /\ d.query = "none" /\ ~d.auth
    BY <1>1, <1>3, <2>2, <2>3, FreeAuthFields
  <2>5. d.open = k.open
    BY <1>3, <1>4, FreeAuthFields
  <2> HIDE DEF d
  <2>6. r \in Release(d)
    BY <2>1 DEF d
  <2> QED
    BY <1>1, <2>4, <2>5, <2>6, ReleaseEvolves
<1> QED
  BY <1>6, <1>7

\* auth_error and read_auth_reply: the connection waits for DNS, or is released.
LEMMA IdentEvolves ==
    ASSUME NEW k \in Conn, Working(k), "ident" \in k.doing,
           NEW r \in IdentOver(k)
    PROVE  Evolves(k, r)
<1> DEFINE done == [k EXCEPT !.doing = @ \ {"ident"}]
<1>1. k.auth /\ k.status = "unknown" /\ k.links = 0 /\ k.deads = 0
  BY DEF Working
<1>2. k.doing \ {"ident"} \in SUBSET {"dns", "ident"}
  BY DEF Conn
<1>3. /\ done \in Conn
      /\ done.status = k.status /\ done.flags = k.flags
      /\ done.lists = k.lists /\ done.links = k.links
      /\ done.deads = k.deads /\ done.doing = k.doing \ {"ident"}
      /\ done.query = k.query /\ done.retries = k.retries
  BY <1>2 DEF Conn
<1>4. done.open = k.open
  BY DEF Conn
<1>5. done.auth = k.auth
  BY DEF Conn
<1> HIDE DEF done
<1>6. CASE "dns" \in k.doing
  <2>1. r = done
    BY <1>6 DEF IdentOver, done
  <2>2. Working(done)
    BY <1>1, <1>3, <1>4, <1>5, <1>6 DEF Working, Allocated
  <2> QED
    BY <1>1, <1>3, <2>1, <2>2, WorkingEvolves
<1>7. CASE "dns" \notin k.doing
  <2>1. PICK q \in Release(done) : r = FreeAuth(q)
    BY <1>7 DEF IdentOver, done
  <2>2. k.doing \ {"ident"} = {}
    BY <1>7 DEF Conn
  <2>3. k.query = "none"
    BY <1>1, <1>7 DEF Working
  <2> QED
    BY <1>1, <1>3, <1>4, <2>1, <2>2, <2>3, ReleaseEvolves
<1> QED
  BY <1>6, <1>7

\* timeout_auth_queries_event: both queries are over, the connection is released.
LEMMA AuthTimeoutEvolves ==
    ASSUME NEW k \in Conn, Working(k), "ident" \in k.doing,
           NEW q \in Release([(IF "dns" \in k.doing THEN Unasked(k) ELSE k)
                                EXCEPT !.doing = {}])
    PROVE  Evolves(k, FreeAuth(q))
<1> DEFINE d == [(IF "dns" \in k.doing THEN Unasked(k) ELSE k)
                   EXCEPT !.doing = {}]
<1>1. k.auth /\ k.status = "unknown" /\ k.links = 0 /\ k.deads = 0
  BY DEF Working
<1>2. PICK a \in Conn :
         /\ d = [a EXCEPT !.doing = {}]
         /\ a.status = k.status /\ a.flags = k.flags
         /\ a.lists = k.lists /\ a.links = k.links
         /\ a.deads = k.deads /\ a.query = "none"
         /\ a.open = k.open
  <2>1. CASE "dns" \in k.doing
    BY <2>1, UnaskedFields
  <2>2. CASE "dns" \notin k.doing
    BY <1>1, <2>2 DEF Working
  <2> QED
    BY <2>1, <2>2
<1>3. q \in Release(d)
  OBVIOUS
<1> HIDE DEF d
<1>4. /\ d \in Conn
      /\ d.status = k.status /\ d.flags = k.flags
      /\ d.lists = k.lists /\ d.links = k.links
      /\ d.deads = k.deads /\ d.doing = {} /\ d.query = "none"
  BY <1>2 DEF Conn
<1>5. d.open = k.open
  BY <1>2 DEF Conn
<1> QED
  BY <1>1, <1>3, <1>4, <1>5, ReleaseEvolves

\* start_auth: the checks of a connection begin.
LEMMA StartAuthWorks ==
    ASSUME NEW k \in Conn, Working(k), k.status = "unknown", k.links = 0,
           ~k.auth, NEW r \in StartAuth(k)
    PROVE  r \in Conn /\ Working(r) /\ r.flags = k.flags /\ r.links = 0
<1> DEFINE a == Asked(k, "ptr")
<1>1. PICK d \in {{"dns"}, {"dns", "ident"}} :
         r = [a EXCEPT !.auth = TRUE, !.doing = d]
  BY DEF StartAuth
<1>2. /\ a \in Conn /\ a.status = "unknown" /\ a.flags = k.flags
      /\ a.lists = k.lists /\ a.links = 0 /\ a.deads = k.deads
      /\ a.query = "ptr" /\ a.retries > 0 /\ a.open = k.open
  BY AskedFields
<1> HIDE DEF a
<1>3. d \in SUBSET {"dns", "ident"} /\ "dns" \in d
  OBVIOUS
<1>4. r \in Conn
  BY <1>1, <1>2, <1>3 DEF Conn
<1>5. /\ r.status = "unknown" /\ r.flags = k.flags
      /\ r.lists = k.lists /\ r.links = 0 /\ r.deads = k.deads
      /\ r.query = "ptr" /\ r.retries > 0 /\ r.doing = d
  BY <1>1, <1>2 DEF Conn
<1>6. r.open = k.open
  BY <1>1, <1>2 DEF Conn
<1>7. r.auth
  BY <1>1, <1>2 DEF Conn
<1> QED
  BY <1>3, <1>4, <1>5, <1>6, <1>7 DEF Working, Allocated

-----------------------------------------------------------------------------
(* Steps *)

\* How far every connection has come: the refinement mapping.
life == [c \in Conns |-> Life(conn[c])]

\* One connection comes one step further, or none does.
LEMMA AbstractStep ==
    ASSUME NEW c \in Conns, NEW r, IInv, LifeStep(conn[c], r),
           conn' = [conn EXCEPT ![c] = r]
    PROVE  [Abstract!Next]_life
<1>1. life' = [life EXCEPT ![c] = Life(r)]
  BY DEF life, IInv, TypeOK
<1>2. life[c] = Life(conn[c])
  BY DEF life
<1>3. CASE Life(r) = Life(conn[c])
  BY <1>1, <1>2, <1>3 DEF life
<1>4. CASE Life(conn[c]) = "absent"
           /\ Life(r) \in {"checking", "talking", "ending"}
  BY <1>1, <1>2, <1>4 DEF Abstract!Next, Abstract!Arrive, life
<1>5. CASE Life(conn[c]) = "checking" /\ Life(r) \in {"talking", "ending"}
  BY <1>1, <1>2, <1>5
  DEF Abstract!Next, Abstract!Admit, Abstract!End, life
<1>6. CASE Life(conn[c]) = "talking" /\ Life(r) = "ending"
  BY <1>1, <1>2, <1>6 DEF Abstract!Next, Abstract!End, life
<1> QED
  BY <1>3, <1>4, <1>5, <1>6 DEF LifeStep

\* Handlers that make of one connection what Evolves allows.
LEMMA BecomesStep ==
    ASSUME NEW c \in Conns, NEW results, IInv, Becomes(c, results),
           \A r \in results : Evolves(conn[c], r)
    PROVE  IInv' /\ [Abstract!Next]_life
<1>1. PICK r \in results : conn' = [conn EXCEPT ![c] = r]
  BY DEF Becomes
<1>2. Evolves(conn[c], r)
  OBVIOUS
<1>3. UNCHANGED <<phase, abort_list>>
  BY DEF Becomes
<1>4. /\ conn'[c] = r
      /\ \A b \in Conns \ {c} : conn'[b] = conn[b]
      /\ conn' \in [Conns -> Conn]
  BY <1>1, <1>2 DEF IInv, TypeOK, Evolves
<1>5. TypeOK'
  BY <1>3, <1>4 DEF IInv, TypeOK
<1>6. \A b \in Conns : Sound(conn'[b])
  BY <1>2, <1>4 DEF IInv, Sound, Evolves
<1>7. AbortSound'
  <2>1. Allocated(r) /\ conn[c].flags \subseteq r.flags
    BY <1>2 DEF Evolves, Working, Ending
  <2>2. Working(r) /\ "dead" \in r.flags =>
          Working(conn[c]) /\ "dead" \in conn[c].flags
    BY <1>2 DEF Evolves, Working, IInv, Sound, NoConn, Ending, Gone, Unlinked
  <2>3. \A i \in DOMAIN abort_list : abort_list[i] \in Conns
    BY DEF IInv, TypeOK
  <2>4. \A i \in DOMAIN abort_list :
          /\ Allocated(conn'[abort_list[i]])
          /\ "dead" \in conn'[abort_list[i]].flags
    BY <1>4, <2>1, <2>3 DEF IInv, AbortSound
  <2>5. \A b \in Conns : Working(conn'[b]) /\ "dead" \in conn'[b].flags =>
          \E i \in DOMAIN abort_list : abort_list[i] = b
    BY <1>4, <2>2 DEF IInv, AbortSound
  <2> QED
    BY <1>3, <2>4, <2>5 DEF IInv, AbortSound
<1>8. [Abstract!Next]_life
  BY <1>1, <1>2, AbstractStep DEF Evolves
<1> QED
  BY <1>5, <1>6, <1>7, <1>8 DEF IInv

\* dead_link_on_write, in a handler that may have cancelled the request of a
\* connect before.
LEMMA DeadLinkStep ==
    ASSUME NEW c \in Conns, NEW k \in Conn, IInv, phase # "free",
           Working(conn[c]), Working(k),
           k.flags = conn[c].flags, k.links = conn[c].links, DeadLink(c, k)
    PROVE  IInv' /\ [Abstract!Next]_life
<1> DEFINE r == [k EXCEPT !.flags = k.flags \cup {"dead"}]
<1>1. conn' = [conn EXCEPT ![c] = r] /\ phase' = phase
  BY DEF DeadLink
<1>2. k.flags \cup {"dead"} = {"dead"}
  BY DEF Working, Conn
<1>3. /\ r \in Conn
      /\ r.status = k.status /\ r.flags = {"dead"} /\ r.lists = k.lists
      /\ r.links = k.links /\ r.deads = k.deads /\ r.doing = k.doing
      /\ r.query = k.query /\ r.retries = k.retries
  BY <1>2 DEF Conn
<1>4. r.open = k.open
  BY DEF Conn
<1>5. r.auth = k.auth
  BY DEF Conn
<1> HIDE DEF r
<1>6. Working(r)
  BY <1>3, <1>4, <1>5 DEF Working, Allocated
<1>7. LifeStep(conn[c], r)
  BY <1>3, <1>6, Lives DEF LifeStep, Working, IInv, TypeOK
<1>8. /\ conn'[c] = r
      /\ \A b \in Conns \ {c} : conn'[b] = conn[b]
      /\ conn' \in [Conns -> Conn]
  BY <1>1, <1>3 DEF IInv, TypeOK
<1>9. \A b \in Conns : Sound(conn'[b])
  BY <1>6, <1>8 DEF IInv, Sound
<1>10. /\ abort_list \in Seq(Conns)
       /\ \A i \in DOMAIN abort_list : abort_list[i] \in Conns
  BY DEF IInv, TypeOK
<1>11. abort_list' \in Seq(Conns)
  BY <1>10 DEF DeadLink
<1>12. Allocated(conn'[c]) /\ "dead" \in conn'[c].flags
  BY <1>3, <1>6, <1>8 DEF Working
<1>13. \A i \in DOMAIN abort_list :
         /\ Allocated(conn'[abort_list[i]])
         /\ "dead" \in conn'[abort_list[i]].flags
  BY <1>8, <1>10, <1>12 DEF IInv, AbortSound
<1>14. AbortSound'
  <2>1. CASE Defunct(k)
    <3>1. "dead" \in conn[c].flags /\ abort_list' = abort_list
      BY <2>1 DEF Defunct, DeadLink, Working, Conn
    <3>2. \A b \in Conns : Working(conn'[b]) /\ "dead" \in conn'[b].flags =>
            \E i \in DOMAIN abort_list : abort_list[i] = b
      BY <1>8, <3>1 DEF IInv, AbortSound
    <3> QED
      BY <1>1, <1>13, <3>1, <3>2 DEF IInv, AbortSound
  <2>2. CASE ~Defunct(k)
    <3>1. "dead" \notin conn[c].flags /\ abort_list' = Append(abort_list, c)
      BY <2>2 DEF Defunct, DeadLink
    <3> DEFINE n == Len(abort_list)
    <3>2. /\ n \in Nat
          /\ DOMAIN abort_list = 1 .. n /\ DOMAIN abort_list' = 1 .. (n + 1)
          /\ \A i \in 1 .. n : abort_list'[i] = abort_list[i]
          /\ abort_list'[n + 1] = c
      BY <1>10, <3>1
    <3>3. \A i \in 1 .. n : abort_list[i] # c
      BY <3>1, <3>2 DEF IInv, AbortSound
    <3> HIDE DEF n
    <3>4. \A i, j \in 1 .. (n + 1) : abort_list'[i] = abort_list'[j] => i = j
      BY <3>2, <3>3 DEF IInv, AbortSound
    <3>5. \A i \in 1 .. (n + 1) :
            /\ Allocated(conn'[abort_list'[i]])
            /\ "dead" \in conn'[abort_list'[i]].flags
      BY <1>12, <1>13, <3>2
    <3>6. \A b \in Conns : Working(conn'[b]) /\ "dead" \in conn'[b].flags =>
            \E i \in 1 .. (n + 1) : abort_list'[i] = b
      <4> SUFFICES ASSUME NEW b \in Conns, Working(conn'[b]),
                          "dead" \in conn'[b].flags
                   PROVE  \E i \in 1 .. (n + 1) : abort_list'[i] = b
        OBVIOUS
      <4>1. CASE b = c
        BY <3>2, <4>1
      <4>2. CASE b # c
        <5>1. PICK i \in 1 .. n : abort_list[i] = b
          BY <1>8, <3>2, <4>2 DEF IInv, AbortSound
        <5> QED
          BY <3>2, <5>1
      <4> QED
        BY <4>1, <4>2
    <3> QED
      BY <1>1, <3>2, <3>4, <3>5, <3>6 DEF AbortSound
  <2> QED
    BY <2>1, <2>2
<1>15. [Abstract!Next]_life
  BY <1>1, <1>7, AbstractStep
<1> QED
  BY <1>1, <1>8, <1>9, <1>11, <1>14, <1>15 DEF IInv, TypeOK

\* exit_aborted_clients takes the first connection off abort_list; it may have
\* been exited already.
LEMMA ExitAbortedStep ==
    ASSUME IInv, ExitAborted
    PROVE  IInv' /\ [Abstract!Next]_life
<1>1. CASE abort_list = <<>>
  <2>1. phase' = "free" /\ UNCHANGED <<conn, abort_list>>
    BY <1>1 DEF ExitAborted
  <2>2. IInv'
    BY <1>1, <2>1 DEF IInv, TypeOK, AbortSound, Sound
  <2> QED
    BY <2>1, <2>2 DEF life
<1>2. CASE abort_list # <<>>
  <2> DEFINE c == Head(abort_list)
             n == Len(abort_list)
  <2>1. /\ conn' = [conn EXCEPT ![c] = Exit(conn[c])]
        /\ abort_list' = Tail(abort_list)
        /\ phase' = phase /\ phase = "abort"
    BY <1>2 DEF ExitAborted
  <2>2. /\ abort_list \in Seq(Conns) /\ n \in Nat \ {0}
        /\ abort_list' \in Seq(Conns)
        /\ c = abort_list[1] /\ c \in Conns
        /\ DOMAIN abort_list = 1 .. n /\ DOMAIN abort_list' = 1 .. (n - 1)
        /\ \A i \in 1 .. (n - 1) : abort_list'[i] = abort_list[i + 1]
    BY <1>2, <2>1 DEF IInv, TypeOK
  <2> HIDE DEF c, n
  <2>3. Allocated(conn[c]) /\ "dead" \in conn[c].flags /\ conn[c] \in Conn
    BY <2>2 DEF IInv, AbortSound, TypeOK
  <2>4. Evolves(conn[c], Exit(conn[c])) /\ Ending(Exit(conn[c]))
    <3>1. CASE Working(conn[c])
      <4>1. Evolves(conn[c], Exit(conn[c])) /\ "closing" \notin conn[c].flags
        BY <2>3, <3>1, ExitEvolves DEF Working
      <4>2. Exit(conn[c]) \in Conn /\ Ending(FreeAuth(Exit(conn[c])))
        BY <2>3, <3>1, ExitUnlinks DEF Working, Exitable
      <4>3. Exit(conn[c]).flags = {"closing", "dead"}
        BY <4>2, FreeAuthFields DEF Ending, Unlinked
      <4> QED
        BY <4>1, <4>3 DEF Evolves, Working
    <3>2. CASE Ending(conn[c])
      <4>1. Exit(conn[c]) = conn[c]
        BY <3>2 DEF Exit, Ending, Unlinked
      <4> QED
        BY <2>3, <3>2, <4>1 DEF Evolves, LifeStep
    <3>3. ~(conn[c] = NoConn) /\ ~Gone(conn[c])
      BY <2>3 DEF NoConn, Gone, Allocated
    <3> QED
      BY <2>2, <3>1, <3>2, <3>3 DEF IInv, Sound
  <2>5. /\ conn'[c] = Exit(conn[c])
        /\ \A b \in Conns \ {c} : conn'[b] = conn[b]
        /\ conn' \in [Conns -> Conn]
    BY <2>1, <2>2, <2>4 DEF IInv, TypeOK, Evolves
  <2>6. Allocated(conn'[c]) /\ "dead" \in conn'[c].flags /\ ~Working(conn'[c])
    BY <2>4, <2>5 DEF Ending, Unlinked, Working
  <2>7. \A b \in Conns : Sound(conn'[b])
    BY <2>4, <2>5 DEF IInv, Sound
  <2>8. ASSUME NEW i \in 1 .. (n - 1), NEW j \in 1 .. (n - 1),
               abort_list'[i] = abort_list'[j]
        PROVE  i = j
    <3>1. i + 1 \in 1 .. n /\ j + 1 \in 1 .. n
      BY <2>2
    <3>2. abort_list[i + 1] = abort_list[j + 1]
      BY <2>2, <2>8
    <3>3. i + 1 = j + 1
      BY <2>2, <3>1, <3>2 DEF IInv, AbortSound
    <3> QED
      BY <2>2, <3>3
  <2>9. \A i \in 1 .. (n - 1) :
          /\ Allocated(conn'[abort_list'[i]])
          /\ "dead" \in conn'[abort_list'[i]].flags
    <3> SUFFICES ASSUME NEW i \in 1 .. (n - 1)
                 PROVE  /\ Allocated(conn'[abort_list'[i]])
                        /\ "dead" \in conn'[abort_list'[i]].flags
      OBVIOUS
    <3>1. i + 1 \in DOMAIN abort_list /\ abort_list'[i] = abort_list[i + 1]
      BY <2>2
    <3>2. /\ abort_list'[i] \in Conns
          /\ Allocated(conn[abort_list'[i]])
          /\ "dead" \in conn[abort_list'[i]].flags
      BY <2>2, <3>1 DEF IInv, AbortSound
    <3> QED
      BY <2>5, <2>6, <3>2
  <2>10. \A b \in Conns : Working(conn'[b]) /\ "dead" \in conn'[b].flags =>
           \E i \in 1 .. (n - 1) : abort_list'[i] = b
    <3> SUFFICES ASSUME NEW b \in Conns, Working(conn'[b]),
                        "dead" \in conn'[b].flags
                 PROVE  \E i \in 1 .. (n - 1) : abort_list'[i] = b
      OBVIOUS
    <3>1. b # c /\ conn'[b] = conn[b]
      BY <2>5, <2>6
    <3>2. PICK i \in 1 .. n : abort_list[i] = b
      BY <2>2, <3>1 DEF IInv, AbortSound
    <3>3. i - 1 \in 1 .. (n - 1) /\ (i - 1) + 1 = i
      BY <2>2, <3>1, <3>2
    <3>4. abort_list'[i - 1] = abort_list[(i - 1) + 1]
      BY <2>2, <3>3
    <3>5. abort_list'[i - 1] = b
      BY <3>2, <3>3, <3>4
    <3> QED
      BY <3>3, <3>5
  <2>11. IInv'
    BY <2>1, <2>2, <2>5, <2>7, <2>8, <2>9, <2>10
    DEF IInv, TypeOK, AbortSound
  <2>12. [Abstract!Next]_life
    BY <2>1, <2>2, <2>4, AbstractStep DEF Evolves
  <2> QED
    BY <2>11, <2>12
<1> QED
  BY <1>1, <1>2

\* free_exited_clients frees exactly the connections on dead_list; abort_list
\* is empty.
LEMMA FreeExitedStep ==
    ASSUME IInv, FreeExited
    PROVE  IInv' /\ [Abstract!Next]_life
<1> DEFINE dead_list == {c \in Conns : conn[c].deads # 0}
           freed(c) == [conn[c] EXCEPT !.status = "freed", !.deads = 0]
<1>1. /\ phase = "free" /\ phase' = "flush" /\ abort_list' = abort_list
      /\ conn' = [c \in Conns |-> IF conn[c].deads = 0 THEN conn[c]
                                  ELSE freed(c)]
  BY DEF FreeExited
<1>2. abort_list = <<>>
  BY <1>1 DEF IInv, AbortSound
<1>3. ASSUME NEW c \in dead_list
      PROVE  /\ freed(c) \in Conn /\ Gone(freed(c))
             /\ Life(conn[c]) = "ending" /\ Life(freed(c)) = "gone"
  <2>1. conn[c] \in Conn /\ Ending(conn[c])
    BY <1>3 DEF IInv, TypeOK, Sound, NoConn, Working, Gone
  <2>2. freed(c) \in Conn
    BY <2>1 DEF Conn, Statuses
  <2>3. Gone(freed(c))
    BY <2>1 DEF Ending, Gone, Unlinked, Conn
  <2> HIDE DEF freed
  <2> QED
    BY <2>1, <2>2, <2>3, Lives
<1> HIDE DEF freed
<1>4. \A c \in Conns : conn'[c] = IF c \in dead_list THEN freed(c) ELSE conn[c]
  BY <1>1
<1>5. TypeOK'
  BY <1>1, <1>3, <1>4 DEF IInv, TypeOK
<1>6. \A c \in Conns : Sound(conn'[c])
  BY <1>3, <1>4 DEF IInv, Sound
<1>7. AbortSound'
  <2>1. \A c \in Conns : ~(Working(conn'[c]) /\ "dead" \in conn'[c].flags)
    <3> SUFFICES ASSUME NEW c \in Conns, Working(conn'[c]),
                        "dead" \in conn'[c].flags
                 PROVE  FALSE
      OBVIOUS
    <3>1. c \notin dead_list
      BY <1>3, <1>4 DEF Gone, Working, Allocated
    <3> QED
      BY <1>2, <1>4, <3>1 DEF IInv, AbortSound
  <2> QED
    BY <1>1, <1>2, <2>1 DEF AbortSound
<1>8. [Abstract!Next]_life
  <2>1. \A c \in dead_list : life[c] = "ending"
    BY <1>3 DEF life
  <2>2. life' = [c \in Conns |-> IF c \in dead_list THEN "gone" ELSE life[c]]
    BY <1>3, <1>4 DEF life
  <2>3. Abstract!Reap(dead_list)
    BY <2>1, <2>2 DEF Abstract!Reap, life
  <2> HIDE DEF dead_list
  <2>4. dead_list \in SUBSET Conns
    BY DEF dead_list
  <2> QED
    BY <2>3, <2>4 DEF Abstract!Next
<1> QED
  BY <1>5, <1>6, <1>7, <1>8 DEF IInv

\* A handler that a list, the socket or a request leads to finds a connection
\* that is alive.
LEMMA FoundWorking ==
    ASSUME NEW c \in Conns, IInv,
           \/ conn[c].status \in {"unknown", "connecting", "handshake"}
              /\ (conn[c].open \/ ~Defunct(conn[c]))
           \/ conn[c].lists # {} \/ conn[c].links > 0
           \/ conn[c].doing # {} \/ conn[c].query # "none"
           \/ Allocated(conn[c]) /\ ~Defunct(conn[c])
    PROVE  conn[c] \in Conn /\ Working(conn[c])
<1>1. conn[c] \in Conn /\ Sound(conn[c])
  BY DEF IInv, TypeOK
<1>2. ~Ending(conn[c]) /\ ~Gone(conn[c])
  BY <1>1 DEF Ending, Gone, Unlinked, Defunct, Allocated
<1>3. conn[c] # NoConn
  BY DEF NoConn, Allocated
<1> QED
  BY <1>1, <1>2, <1>3 DEF Sound

\* What a connection not made yet is.
LEMMA AbsentIsNew ==
    ASSUME NEW c \in Conns, IInv, conn[c].status = "none"
    PROVE  conn[c] = NoConn
BY DEF IInv, Sound, Working, Ending, Gone, Allocated

\* A client just made: it can be checked, connected or exited.
LEMMA NewConnWorks ==
    /\ NewConn \in Conn /\ Working(NewConn)
    /\ NewConn.status = "unknown" /\ NewConn.flags = {}
    /\ NewConn.lists = {"unknown_list"} /\ NewConn.links = 0
    /\ NewConn.deads = 0 /\ NewConn.doing = {} /\ NewConn.query = "none"
    /\ ~NewConn.auth
<1>1. /\ NoConn \in Conn /\ NoConn.status = "none" /\ NoConn.flags = {}
      /\ NoConn.lists = {} /\ NoConn.links = 0 /\ NoConn.deads = 0
      /\ NoConn.doing = {} /\ NoConn.query = "none"
  BY RetriesAssumption DEF NoConn, Conn, Statuses
<1>2. ~NoConn.auth
  BY DEF NoConn
<1>3. NewConn \in Conn
  BY <1>1 DEF NewConn, Conn, Statuses, Lists
<1>4. /\ NewConn.status = "unknown" /\ NewConn.flags = {}
      /\ NewConn.lists = {"unknown_list"} /\ NewConn.links = 0
      /\ NewConn.deads = 0 /\ NewConn.doing = {} /\ NewConn.query = "none"
  BY <1>1 DEF NewConn, Conn
<1>5. ~NewConn.auth
  BY <1>1, <1>2 DEF NewConn, Conn
<1>6. NewConn.open
  BY <1>1 DEF NewConn, Conn
<1>7. Home("unknown") = {"unknown_list"}
  BY DEF Home
<1>8. Working(NewConn)
  BY <1>4, <1>5, <1>6, <1>7 DEF Working, Allocated
<1> QED
  BY <1>3, <1>4, <1>5, <1>8

\* add_connection.
LEMMA AcceptStep ==
    ASSUME NEW c \in Conns, IInv, Accept(c)
    PROVE  IInv' /\ [Abstract!Next]_life
<1>1. conn[c] = NoConn
  BY AbsentIsNew DEF Accept
<1>2. ASSUME NEW r \in StartAuth(NewConn)
      PROVE  Evolves(NoConn, r)
  BY <1>2, NewConnWorks, StartAuthWorks, NewEvolves
<1>3. Evolves(NoConn, NewConn)
  BY NewConnWorks, NewEvolves
<1>4. Evolves(NoConn, Exit(NewConn))
  <2>1. Exit(NewConn) \in Conn /\ Ending(Exit(NewConn))
    BY NewConnWorks, ExitEnds DEF Working, Exitable
  <2> QED
    BY <2>1, NewEvolves
<1> QED
  BY <1>1, <1>2, <1>3, <1>4, BecomesStep DEF Accept

\* ssl_handshake.
LEMMA SslHandshakeStep ==
    ASSUME NEW c \in Conns, IInv, SslHandshake(c)
    PROVE  IInv' /\ [Abstract!Next]_life
<1>1. conn[c] \in Conn /\ Working(conn[c])
  BY FoundWorking DEF SslHandshake
<1>2. ASSUME NEW r \in StartAuth(conn[c])
      PROVE  Evolves(conn[c], r)
  <2>1. r \in Conn /\ Working(r) /\ r.flags = conn[c].flags /\ r.links = 0
    BY <1>1, <1>2, StartAuthWorks DEF SslHandshake
  <2> QED
    BY <1>1, <2>1, WorkingEvolves DEF SslHandshake
<1>3. Evolves(conn[c], Exit(conn[c]))
  BY <1>1, ExitEvolves
<1> QED
  BY <1>2, <1>3, BecomesStep DEF SslHandshake

\* serv_connect.
LEMMA ServConnectStep ==
    ASSUME NEW c \in Conns, IInv, ServConnect(c)
    PROVE  IInv' /\ [Abstract!Next]_life
<1> DEFINE made == [NewConn EXCEPT !.status = "connecting", !.links = 1]
           closed == [NewConn EXCEPT !.open = FALSE]
<1>1. conn[c] = NoConn
  BY AbsentIsNew DEF ServConnect
<1>2. /\ made \in Conn /\ made.status = "connecting" /\ made.flags = {}
      /\ made.links = 1 /\ Working(made)
  <2> DEFINE m == made
  <2>1. m = [NewConn EXCEPT !.status = "connecting", !.links = 1]
    OBVIOUS
  <2> HIDE DEF m
  <2>2. m \in Conn
    BY <2>1, NewConnWorks DEF Conn, Statuses
  <2>3. /\ m.status = "connecting" /\ m.flags = {} /\ m.links = 1
        /\ m.lists = {"unknown_list"} /\ m.deads = 0 /\ m.doing = {}
        /\ m.query = "none"
    BY <2>1, NewConnWorks DEF Conn
  <2>4. ~m.auth
    BY <2>1, NewConnWorks DEF Conn
  <2>5. m.open
    BY <2>1, NewConnWorks DEF Conn, Working
  <2>6. Home("connecting") = {"unknown_list"}
    BY DEF Home
  <2>7. Working(m)
    BY <2>3, <2>4, <2>5, <2>6 DEF Working, Allocated
  <2> QED
    BY <2>2, <2>3, <2>7 DEF m
<1>3. closed \in Conn /\ Exitable(closed) /\ ~closed.auth
  <2> DEFINE m == closed
  <2>1. m = [NewConn EXCEPT !.open = FALSE]
    OBVIOUS
  <2> HIDE DEF m
  <2>2. m \in Conn
    BY <2>1, NewConnWorks DEF Conn
  <2>3. /\ m.status = "unknown" /\ m.flags = {} /\ m.links = 0
        /\ m.lists = {"unknown_list"} /\ m.deads = 0 /\ m.doing = {}
        /\ m.query = "none"
    BY <2>1, NewConnWorks DEF Conn
  <2>4. ~m.auth
    BY <2>1, NewConnWorks DEF Conn
  <2>5. Home("unknown") = {"unknown_list"}
    BY DEF Home
  <2>6. Exitable(m)
    BY <2>3, <2>5 DEF Exitable, Allocated
  <2> QED
    BY <2>2, <2>4, <2>6 DEF m
<1> HIDE DEF made, closed
<1>4. Evolves(NoConn, Exit(closed))
  <2>1. Exit(closed) \in Conn /\ Ending(Exit(closed))
    BY <1>3, ExitEnds
  <2> QED
    BY <2>1, NewEvolves
<1>5. Evolves(NoConn, Exit(NewConn))
  <2>1. Exit(NewConn) \in Conn /\ Ending(Exit(NewConn))
    BY NewConnWorks, ExitEnds DEF Working, Exitable
  <2> QED
    BY <2>1, NewEvolves
<1>6. Evolves(NoConn, made)
  BY <1>2, NewEvolves
<1>7. Evolves(NoConn, Asked(made, "a"))
  <2>1. Asked(made, "a") \in Conn /\ Working(Asked(made, "a"))
    BY <1>2, AskedFields DEF Working, Allocated
  <2>2. Asked(made, "a").flags = {}
    BY <1>2, AskedFields
  <2> QED
    BY <2>1, <2>2, NewEvolves
<1>8. Becomes(c, {Exit(closed), Exit(NewConn), made, Asked(made, "a")})
  BY DEF ServConnect, made, closed
<1> QED
  BY <1>1, <1>4, <1>5, <1>6, <1>7, <1>8, BecomesStep

\* serv_connect_callback.
LEMMA ConnectDoneStep ==
    ASSUME NEW c \in Conns, IInv, ConnectDone(c)
    PROVE  IInv' /\ [Abstract!Next]_life
<1> DEFINE k == conn[c]
           shaken == [k EXCEPT !.status = "handshake"]
<1>1. /\ k \in Conn /\ Working(k)
      /\ k.status = "connecting" /\ k.query = "none" /\ phase # "free"
  BY FoundWorking DEF ConnectDone, Handling
<1>2. CASE DeadLink(c, k)
  BY <1>1, <1>2, DeadLinkStep
<1>3. CASE Becomes(c, {Exit(k), shaken})
  <2>1. Evolves(k, Exit(k))
    BY <1>1, ExitEvolves
  <2>2. Evolves(k, shaken)
    <3> HIDE DEF k
    <3>1. shaken \in Conn
      BY <1>1 DEF Conn, Statuses
    <3>2. /\ shaken.status = "handshake" /\ shaken.flags = k.flags
          /\ shaken.lists = k.lists /\ shaken.links = k.links
          /\ shaken.deads = k.deads /\ shaken.doing = k.doing
          /\ shaken.query = "none"
      BY <1>1 DEF Conn
    <3>3. shaken.open = k.open
      BY <1>1 DEF Conn
    <3>4. shaken.auth = k.auth
      BY <1>1 DEF Conn
    <3>5. k.links \in Nat
      BY <1>1 DEF Conn
    <3> HIDE DEF shaken
    <3>6. Home("handshake") = Home("connecting")
      BY DEF Home
    <3>7. Working(shaken)
      BY <1>1, <3>2, <3>3, <3>4, <3>6 DEF Working, Allocated
    <3> QED
      BY <1>1, <3>1, <3>2, <3>5, <3>7, WorkingEvolves
  <2> QED
    BY <1>3, <2>1, <2>2, BecomesStep
<1> QED
  BY <1>2, <1>3 DEF ConnectDone

\* The request of a connect is cancelled and nothing else.
LEMMA UnaskedWorks ==
    ASSUME NEW k \in Conn, Working(k), ~k.auth
    PROVE  Working(Unasked(k))
BY UnaskedFields DEF Working, Allocated

\* auth_dns_callback and comm_connect_dns_callback, without an address.
LEMMA NoAnswerStep ==
    ASSUME NEW c \in Conns, IInv, conn[c].query # "none", phase # "free",
           NoAnswer(c)
    PROVE  IInv' /\ [Abstract!Next]_life
<1>1. conn[c] \in Conn /\ Working(conn[c])
  BY FoundWorking
<1>2. CASE conn[c].auth
  <2>1. \A r \in DnsCallback(conn[c]) : Evolves(conn[c], r)
    BY <1>1, <1>2, DnsEvolves
  <2> QED
    BY <1>2, <2>1, BecomesStep DEF NoAnswer
<1>3. CASE ~conn[c].auth
  BY <1>1, <1>3, UnaskedFields, UnaskedWorks, DeadLinkStep DEF NoAnswer
<1> QED
  BY <1>2, <1>3

\* res_readreply.
LEMMA DnsReplyStep ==
    ASSUME NEW c \in Conns, IInv, DnsReply(c)
    PROVE  IInv' /\ [Abstract!Next]_life
<1>1. /\ conn[c] \in Conn /\ Working(conn[c])
      /\ conn[c].query # "none" /\ phase # "free"
  BY FoundWorking DEF DnsReply
<1>2. conn[c].links \in Nat
  BY <1>1 DEF Conn
<1>3. CASE Becomes(c, {Asked(conn[c], "a")})
  <2>1. Working(Asked(conn[c], "a"))
    BY <1>1, AskedFields DEF Working, Allocated
  <2>2. Evolves(conn[c], Asked(conn[c], "a"))
    BY <1>1, <1>2, <2>1, AskedFields, WorkingEvolves
  <2> QED
    BY <1>3, <2>2, BecomesStep
<1>4. CASE conn[c].auth /\ Becomes(c, DnsCallback(conn[c]))
  <2>1. \A r \in DnsCallback(conn[c]) : Evolves(conn[c], r)
    BY <1>1, <1>4, DnsEvolves
  <2> QED
    BY <1>4, <2>1, BecomesStep
<1>5. CASE ~conn[c].auth /\ Becomes(c, {Unasked(conn[c])})
  <2>1. Evolves(conn[c], Unasked(conn[c]))
    BY <1>1, <1>2, <1>5, UnaskedFields, UnaskedWorks, WorkingEvolves
  <2> QED
    BY <1>5, <2>1, BecomesStep
<1>6. CASE NoAnswer(c)
  BY <1>1, <1>6, NoAnswerStep
<1> QED
  BY <1>3, <1>4, <1>5, <1>6 DEF DnsReply

\* timeout_query_list.
LEMMA QueryTimeoutStep ==
    ASSUME NEW c \in Conns, IInv, QueryTimeout(c)
    PROVE  IInv' /\ [Abstract!Next]_life
<1> DEFINE k == conn[c]
           asked == [k EXCEPT !.retries = k.retries - 1]
<1>1. /\ k \in Conn /\ Working(k)
      /\ k.query # "none" /\ phase # "free"
  BY FoundWorking DEF QueryTimeout
<1>2. CASE k.retries > 1 /\ Becomes(c, {asked})
  <2> HIDE DEF k
  <2>1. k.retries - 1 \in 0 .. MaxRetries /\ k.retries - 1 > 0 /\ k.links \in Nat
    BY <1>1, <1>2, RetriesAssumption DEF Conn
  <2>2. asked \in Conn
    BY <1>1, <2>1 DEF Conn
  <2>3. /\ asked.status = k.status /\ asked.flags = k.flags
        /\ asked.lists = k.lists /\ asked.links = k.links
        /\ asked.deads = k.deads /\ asked.doing = k.doing
        /\ asked.query = k.query /\ asked.retries = k.retries - 1
    BY <1>1 DEF Conn
  <2>4. asked.open = k.open
    BY <1>1 DEF Conn
  <2>5. asked.auth = k.auth
    BY <1>1 DEF Conn
  <2> HIDE DEF asked
  <2>6. Working(asked)
    BY <1>1, <2>1, <2>3, <2>4, <2>5 DEF Working, Allocated
  <2>7. Evolves(k, asked)
    BY <1>1, <2>1, <2>2, <2>3, <2>6, WorkingEvolves
  <2> USE DEF k
  <2> QED
    BY <1>2, <2>7, BecomesStep
<1>3. CASE NoAnswer(c)
  BY <1>1, <1>3, NoAnswerStep
<1> QED
  BY <1>2, <1>3 DEF QueryTimeout

\* auth_error, read_auth_reply and timeout_auth_queries_event.
LEMMA IdentStep ==
    ASSUME NEW c \in Conns, IInv, IdentReply(c) \/ AuthTimeout(c)
    PROVE  IInv' /\ [Abstract!Next]_life
<1>1. /\ conn[c] \in Conn /\ Working(conn[c])
      /\ "ident" \in conn[c].doing
  BY FoundWorking DEF IdentReply, AuthTimeout
<1>2. CASE IdentReply(c)
  <2>1. \A r \in IdentOver(conn[c]) : Evolves(conn[c], r)
    BY <1>1, IdentEvolves
  <2> QED
    BY <1>2, <2>1, BecomesStep DEF IdentReply
<1>3. CASE AuthTimeout(c)
  <2> DEFINE done == [(IF "dns" \in conn[c].doing THEN Unasked(conn[c])
                       ELSE conn[c]) EXCEPT !.doing = {}]
  <2>1. Becomes(c, {FreeAuth(r) : r \in Release(done)})
    BY <1>3 DEF AuthTimeout
  <2>2. \A q \in Release(done) : Evolves(conn[c], FreeAuth(q))
    BY <1>1, AuthTimeoutEvolves
  <2> HIDE DEF done
  <2> QED
    BY <2>1, <2>2, BecomesStep
<1> QED
  BY <1>2, <1>3

\* read_packet.
LEMMA ReadStep ==
    ASSUME NEW c \in Conns, IInv, Read(c)
    PROVE  IInv' /\ [Abstract!Next]_life
<1>1. /\ conn[c] \in Conn /\ Working(conn[c])
      /\ conn[c].links > 0 /\ conn[c].status # "connecting"
  BY FoundWorking DEF Read, IInv, TypeOK, Conn
<1>2. Released(conn[c]) /\ ~conn[c].auth /\ conn[c].links = 1
  BY <1>1 DEF Working, Released
<1>3. ASSUME NEW r \in ReadPacket(conn[c])
      PROVE  Evolves(conn[c], r)
  <2>1. /\ r \in Conn /\ ~r.auth
        /\ \/ Released(r) /\ r.flags = conn[c].flags
           \/ Ending(FreeAuth(r))
    BY <1>1, <1>2, <1>3, ReadResults
  <2>2. CASE Released(r) /\ r.flags = conn[c].flags
    <3>1. Working(r) /\ r.links = 1
      BY <2>1, <2>2, ReleasedWorks DEF Released
    <3> QED
      BY <1>1, <1>2, <2>1, <2>2, <3>1, WorkingEvolves
  <2>3. CASE Ending(FreeAuth(r))
    <3>1. Ending(r)
      BY <2>1, <2>3, FreeAuthFields DEF Ending, Unlinked, Allocated
    <3> QED
      BY <1>1, <2>1, <3>1, WorkingEvolves
  <2> QED
    BY <2>1, <2>2, <2>3
<1> QED
  BY <1>3, BecomesStep DEF Read

\* check_unknowns_list, and whoever else exits a connection.
LEMMA EndedStep ==
    ASSUME NEW c \in Conns, IInv, UnknownTimeout(c) \/ Ended(c)
    PROVE  IInv' /\ [Abstract!Next]_life
<1>1. Becomes(c, {Exit(conn[c])}) /\ conn[c].lists # {}
  BY DEF UnknownTimeout, Ended
<1>2. Evolves(conn[c], Exit(conn[c]))
  BY <1>1, FoundWorking, ExitEvolves
<1> QED
  BY <1>1, <1>2, BecomesStep

\* dead_link_on_write.
LEMMA WriteFailsStep ==
    ASSUME NEW c \in Conns, IInv, WriteFails(c)
    PROVE  IInv' /\ [Abstract!Next]_life
<1>1. conn[c] \in Conn /\ Working(conn[c])
  BY FoundWorking DEF WriteFails
<1> QED
  BY <1>1, DeadLinkStep DEF WriteFails

\* The phases of io_loop that touch no connection.
LEMMA PhaseStep ==
    ASSUME IInv, EndRound \/ Flushed \/ UNCHANGED vars
    PROVE  IInv' /\ [Abstract!Next]_life
<1>1. /\ UNCHANGED <<conn, abort_list>>
      /\ phase' \in {"events", "select", "abort", "free", "flush"}
      /\ phase' = "free" => abort_list = <<>>
  BY DEF EndRound, Flushed, vars, IInv, TypeOK, AbortSound, Handling
<1>2. IInv'
  BY <1>1 DEF IInv, TypeOK, AbortSound, Sound
<1>3. life' = life
  BY <1>1 DEF life
<1> QED
  BY <1>2, <1>3

-----------------------------------------------------------------------------
(* The theorems *)

\* Every step keeps the invariant and is a step of ConnectionLife, or none.
LEMMA NextStep ==
    IInv /\ [Next]_vars => IInv' /\ [Abstract!Next]_life
<1> SUFFICES ASSUME IInv, [Next]_vars
             PROVE  IInv' /\ [Abstract!Next]_life
  OBVIOUS
<1>1. ASSUME NEW c \in Conns, Accept(c)
      PROVE  IInv' /\ [Abstract!Next]_life
  BY <1>1, AcceptStep
<1>2. ASSUME NEW c \in Conns, SslHandshake(c)
      PROVE  IInv' /\ [Abstract!Next]_life
  BY <1>2, SslHandshakeStep
<1>3. ASSUME NEW c \in Conns, ServConnect(c)
      PROVE  IInv' /\ [Abstract!Next]_life
  BY <1>3, ServConnectStep
<1>4. ASSUME NEW c \in Conns, ConnectDone(c)
      PROVE  IInv' /\ [Abstract!Next]_life
  BY <1>4, ConnectDoneStep
<1>5. ASSUME NEW c \in Conns, DnsReply(c)
      PROVE  IInv' /\ [Abstract!Next]_life
  BY <1>5, DnsReplyStep
<1>6. ASSUME NEW c \in Conns, QueryTimeout(c)
      PROVE  IInv' /\ [Abstract!Next]_life
  BY <1>6, QueryTimeoutStep
<1>7. ASSUME NEW c \in Conns, IdentReply(c) \/ AuthTimeout(c)
      PROVE  IInv' /\ [Abstract!Next]_life
  BY <1>7, IdentStep
<1>8. ASSUME NEW c \in Conns, Read(c)
      PROVE  IInv' /\ [Abstract!Next]_life
  BY <1>8, ReadStep
<1>9. ASSUME NEW c \in Conns, UnknownTimeout(c) \/ Ended(c)
      PROVE  IInv' /\ [Abstract!Next]_life
  BY <1>9, EndedStep
<1>10. ASSUME NEW c \in Conns, WriteFails(c)
       PROVE  IInv' /\ [Abstract!Next]_life
  BY <1>10, WriteFailsStep
<1>11. CASE EndRound \/ Flushed \/ UNCHANGED vars
  BY <1>11, PhaseStep
<1>12. CASE ExitAborted
  BY <1>12, ExitAbortedStep
<1>13. CASE FreeExited
  BY <1>13, FreeExitedStep
<1> QED
  BY <1>1, <1>2, <1>3, <1>4, <1>5, <1>6, <1>7, <1>8, <1>9, <1>10, <1>11,
     <1>12, <1>13
  DEF Next

\* Nothing is there when ircd starts.
LEMMA InitHolds == Init => IInv /\ Abstract!Init
<1> SUFFICES ASSUME Init
             PROVE  IInv /\ Abstract!Init
  OBVIOUS
<1>1. NoConn \in Conn
  BY RetriesAssumption DEF NoConn, Conn, Statuses
<1>2. TypeOK
  BY <1>1 DEF Init, TypeOK
<1>3. \A c \in Conns : Sound(conn[c])
  BY DEF Init, Sound
<1>4. AbortSound
  <2>1. \A c \in Conns : ~Working(conn[c])
    BY DEF Init, Working, Allocated, NoConn
  <2> QED
    BY <2>1 DEF Init, AbortSound
<1>5. Abstract!Init
  BY <1>1, Lives DEF Init, Abstract!Init
<1> QED
  BY <1>2, <1>3, <1>4, <1>5 DEF IInv

\* What the invariant says of each property the runs check.
LEMMA Consequences ==
    ASSUME IInv
    PROVE  /\ NothingFreedInUse /\ AuthFollowsQueries /\ ReleasedOnce
           /\ ExitedOnce /\ AbortedOnce /\ OnItsList
<1>1. \A c \in Conns : conn[c] \in Conn /\ Sound(conn[c])
  BY DEF IInv, TypeOK
<1>2. NothingFreedInUse
  BY <1>1
  DEF NothingFreedInUse, Sound, NoConn, Working, Ending, Gone, Unlinked,
      Allocated, IInv, AbortSound
<1>3. AuthFollowsQueries
  <2> SUFFICES ASSUME NEW c \in Conns
               PROVE  /\ conn[c].auth <=> conn[c].doing # {}
                      /\ "dns" \in conn[c].doing => conn[c].query # "none"
                      /\ conn[c].query # "none" =>
                           \/ "dns" \in conn[c].doing
                           \/ conn[c].status = "connecting" /\ conn[c].open
    BY DEF AuthFollowsQueries
  <2>1. CASE Working(conn[c])
    BY <2>1 DEF Working
  <2>2. CASE conn[c] = NoConn
    BY <2>2 DEF NoConn
  <2>3. CASE Ending(conn[c]) \/ Gone(conn[c])
    BY <2>3 DEF Ending, Gone, Unlinked
  <2> QED
    BY <1>1, <2>1, <2>2, <2>3 DEF Sound
<1>4. ReleasedOnce
  <2> SUFFICES ASSUME NEW c \in Conns
               PROVE  conn[c].links <= 1 /\ (conn[c].auth => conn[c].links = 0)
    BY DEF ReleasedOnce
  <2>1. CASE Working(conn[c])
    BY <2>1 DEF Working
  <2>2. CASE conn[c] = NoConn
    BY <2>2 DEF NoConn
  <2>3. CASE Ending(conn[c]) \/ Gone(conn[c])
    BY <2>3 DEF Ending, Gone, Unlinked
  <2> QED
    BY <1>1, <2>1, <2>2, <2>3 DEF Sound
<1>5. ExitedOnce
  BY <1>1
  DEF ExitedOnce, Sound, NoConn, Working, Ending, Gone, Unlinked
<1>6. AbortedOnce
  <2>1. \A i, j \in DOMAIN abort_list : abort_list[i] = abort_list[j] => i = j
    BY DEF IInv, AbortSound
  <2>2. ASSUME phase = "free", NEW c \in Conns, "dead" \in conn[c].flags
        PROVE  conn[c].deads = 1 \/ conn[c].status = "freed"
    <3>1. ~Working(conn[c])
      BY <2>2 DEF IInv, AbortSound
    <3> QED
      BY <1>1, <2>2, <3>1 DEF Sound, NoConn, Ending, Gone
  <2> QED
    BY <2>1, <2>2 DEF AbortedOnce
<1>7. OnItsList
  BY <1>1
  DEF OnItsList, Sound, NoConn, Working, Ending, Gone, Unlinked, Home, Allocated
<1> QED
  BY <1>2, <1>3, <1>4, <1>5, <1>6, <1>7

\* The invariant is true in every state of every behaviour.
LEMMA Invariance == Spec => []IInv
<1>1. Init => IInv
  BY InitHolds
<1>2. IInv /\ [Next]_vars => IInv'
  BY NextStep
<1> QED
  BY <1>1, <1>2, PTL DEF Spec

\* The variables keep their types.
THEOREM TypeCorrect == Spec => []TypeOK
<1>1. IInv => TypeOK
  BY DEF IInv
<1> QED
  BY <1>1, Invariance, PTL

\* free_client never frees a connection that a list, a request of the resolver
\* or of ident, its socket or abort_list still leads to.
THEOREM NothingFreedIsUsed == Spec => []NothingFreedInUse
<1>1. IInv => NothingFreedInUse
  BY Consequences
<1> QED
  BY <1>1, Invariance, PTL

\* No callback of the resolver is on a freed AuthRequest, and none that an
\* AuthRequest waits for has been lost.
THEOREM CallbacksFindTheirRequest == Spec => []AuthFollowsQueries
<1>1. IInv => AuthFollowsQueries
  BY Consequences
<1> QED
  BY <1>1, Invariance, PTL

\* A connection is put on global_client_list once, after its checks; a write
\* error aborts it once; and exit_client takes it apart once, whoever calls it
\* how often.
THEOREM EndsOnce == Spec => []EndedOnce
<1>1. IInv => EndedOnce
  BY Consequences DEF EndedOnce
<1> QED
  BY <1>1, Invariance, PTL

\* Whoever is not closing is on the one list of its status.
THEOREM EveryoneOnTheirList == Spec => []OnItsList
<1>1. IInv => OnItsList
  BY Consequences
<1> QED
  BY <1>1, Invariance, PTL

\* The event loop, the resolver and ident together keep the safety part of
\* ConnectionLife: checked, admitted once, and never served after the end.
THEOREM ImplementsLife == Spec => Abstract!Safety
<1>1. Init => IInv /\ Abstract!Init
  BY InitHolds
<1>2. IInv /\ [Next]_vars => IInv' /\ [Abstract!Next]_life
  BY NextStep
<1>3. [Abstract!Next]_life =>
        [Abstract!Next]_([c \in Conns |-> Life(conn[c])])
  BY DEF life
<1> QED
  BY <1>1, <1>2, <1>3, Invariance, PTL DEF Spec, Abstract!Safety

=============================================================================
