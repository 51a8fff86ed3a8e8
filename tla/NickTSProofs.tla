---------------------------- MODULE NickTSProofs ----------------------------
(***************************************************************************)
(* Theorems of NickTS for every network, every set of users and every      *)
(* bound: the variables keep their types, no server's hash table ever      *)
(* holds one nickname twice, and no whowas entry points to a client that   *)
(* has gone.  On servers that name users by UID, a timestamp never goes    *)
(* back, only who has lost a collision is killed, and every server agrees, *)
(* when the network is quiet, on who has lost none.                        *)
(***************************************************************************)
EXTENDS NickTS, ListLemmas

\* A table has one client per nickname.
Unique(L) ==
    \A u, v \in Users : L.nick[u] # NoNick /\ L.nick[u] = L.nick[v] => u = v

\* The whowas entries of a table that point to a client point to one it has.
HistOnline(L) ==
    \A n \in Nicks : L.hist[n] # NoUser => L.nick[L.hist[n]] # NoNick

-----------------------------------------------------------------------------
(* The table operators *)

\* exit_one_client leaves a table that is well typed.
LEMMA WithoutType ==
    ASSUME NEW L \in Table, NEW X
    PROVE  Without(L, X) \in Table
  BY ConstantsAssumption DEF Without, Table

\* Adding a user to the hash leaves a table that is well typed.
LEMMA IntroducedType ==
    ASSUME NEW L \in Table, NEW u \in Users, NEW n \in Nicks, NEW t \in TSs
    PROVE  Introduced(L, u, n, t) \in Table
<1>1. [L.nick EXCEPT ![u] = n] \in [Users -> Nicks \cup {NoNick}]
  BY DEF Table
<1>2. [L.ts EXCEPT ![u] = t] \in [Users -> 0 .. MaxTS]
  BY ConstantsAssumption DEF Table, TSs
<1>. QED
  BY <1>1, <1>2 DEF Table, Introduced

\* Renaming a user the server has leaves a table that is well typed.
LEMMA RenamedType ==
    ASSUME NEW L \in Table, NEW u \in Users, NEW n \in Nicks, NEW t \in TSs,
           L.nick[u] # NoNick
    PROVE  Renamed(L, u, n, t) \in Table
<1>1. [L.hist EXCEPT ![L.nick[u]] = u] \in [Nicks -> Users \cup {NoUser}]
  BY DEF Table
<1>2. Introduced(L, u, n, t) \in Table
  BY IntroducedType
<1>. QED
  BY <1>1, <1>2 DEF Renamed, Introduced, Table

\* A table with no nickname held twice and no whowas entry that points at a
\* client that has gone.
Sound(L) == Unique(L) /\ HistOnline(L)

\* Exiting users, whoever they are, keeps a table sound.
LEMMA WithoutSound ==
    ASSUME NEW L \in Table, NEW X, Sound(L)
    PROVE  Sound(Without(L, X))
<1>1. Unique(Without(L, X))
  BY DEF Without, Table, Sound, Unique
<1>2. HistOnline(Without(L, X))
  BY ConstantsAssumption DEF Without, Table, Sound, HistOnline
<1>. QED
  BY <1>1, <1>2 DEF Sound

\* A nickname nobody else has can be given to a user, by hash_add_client
\* of a new user or of one that changes its nickname.
LEMMA GivenSound ==
    ASSUME NEW L \in Table, NEW u \in Users, NEW n \in Nicks, NEW t,
           Sound(L), \A v \in Users \ {u} : L.nick[v] # n
    PROVE  /\ Sound(Introduced(L, u, n, t))
           /\ L.nick[u] # NoNick => Sound(Renamed(L, u, n, t))
<1>1. Unique(Introduced(L, u, n, t)) /\ Unique(Renamed(L, u, n, t))
  BY DEF Introduced, Renamed, Table, Sound, Unique
<1>2. HistOnline(Introduced(L, u, n, t))
  BY ConstantsAssumption DEF Introduced, Table, Sound, HistOnline
<1>3. L.nick[u] # NoNick => HistOnline(Renamed(L, u, n, t))
  BY ConstantsAssumption DEF Renamed, Table, Sound, HistOnline
<1>. QED
  BY <1>1, <1>2, <1>3 DEF Sound

\* Once every other holder of a nickname has been exited, a user can have it.
LEMMA ReplacedSound ==
    ASSUME NEW L \in Table, NEW X, NEW u \in Users, NEW n \in Nicks, NEW t,
           Sound(L), \A v \in Users \ {u} : L.nick[v] = n => v \in X
    PROVE  /\ Sound(Introduced(Without(L, X), u, n, t))
           /\ u \notin X /\ L.nick[u] # NoNick
                => Sound(Renamed(Without(L, X), u, n, t))
<1>1. \A v \in Users \ {u} : Without(L, X).nick[v] # n
  BY ConstantsAssumption DEF Without, Table
<1>2. u \notin X => Without(L, X).nick[u] = L.nick[u]
  BY DEF Without
<1>. QED
  BY <1>1, <1>2, WithoutType, WithoutSound, GivenSound

-----------------------------------------------------------------------------
(* Lines and links *)

\* A user is named on a link by its UID or its nickname.
LEMMA RefType ==
    ASSUME NEW L \in Table, NEW u \in Users, L.nick[u] # NoNick
    PROVE  Ref(L, u) \in Refs
  BY DEF Ref, Refs, Table

\* The lines that name a user are well typed.
LEMMA LineTypes ==
    ASSUME NEW ref \in Refs
    PROVE  /\ Quit(ref) \in Messages
           /\ Kill(ref) \in Messages
           /\ \A n \in Nicks, t \in TSs : Nick(ref, n, t) \in Messages
  BY DEF Nick, Quit, Kill, Messages

\* Sending appends well-typed lines to well-typed links.
LEMMA SentType ==
    ASSUME NEW ch \in [Edges -> Seq(Messages)], NEW s, NEW To,
           NEW msgs \in Seq(Messages)
    PROVE  Sent(ch, s, To, msgs) \in [Edges -> Seq(Messages)]
  BY DEF Sent

\* What a server parses is a line of one of the four kinds.
LEMMA ParsedType ==
    ASSUME TypeOK, NEW r \in Servers, NEW s \in Neighbours(r), NEW type,
           Arrives(r, s, type)
    PROVE  /\ s \in Servers
           /\ <<r, s>> \in Edges
           /\ Line(r, s) \in Messages
           /\ Line(r, s).type = type
           /\ Parsed(r, s) \in [Edges -> Seq(Messages)]
<1>1. s \in Servers /\ <<r, s>> \in Servers \X Servers
  BY DEF Neighbours
<1>2. <<r, s>> \in Edges
  BY <1>1 DEF Edges
<1>3. chan[<<r, s>>] \in Seq(Messages) /\ chan[<<r, s>>] # <<>>
  BY <1>2 DEF TypeOK, Arrives
<1>4. Line(r, s) \in Messages /\ Tail(chan[<<r, s>>]) \in Seq(Messages)
  BY <1>3 DEF Line
<1>. QED
  BY <1>1, <1>2, <1>4 DEF Parsed, TypeOK, Arrives, Line

\* The fields of a line, by its kind.
LEMMA LineFields ==
    ASSUME NEW m \in Messages
    PROVE  /\ m.type = "uid" => m.user \in Users /\ m.nick \in Nicks /\ m.ts \in TSs
           /\ m.type = "nick" => m.who \in Refs /\ m.nick \in Nicks /\ m.ts \in TSs
           /\ m.type = "quit" => m.who \in Refs
           /\ m.type = "kill" => m.who \in Refs
           /\ m.type = "squit" => m.edge \in Edges
  BY DEF Messages

\* Ending local connections keeps the types of fate and unreg.
LEMMA ExitedType ==
    ASSUME TypeOK, NEW s, NEW X, Exited(s, X)
    PROVE  /\ unreg' \subseteq Users
           /\ fate' \in [Users -> {"connected", "quit", "killed", "overridden"}]
  BY DEF TypeOK, Exited
-----------------------------------------------------------------------------
(* Type correctness *)

\* Parsing a line keeps the types: one step per handler.
LEMMA ParseType ==
    ASSUME TypeOK, WhowasOnline,
           NEW r \in Servers, NEW s \in Neighbours(r), Parse(r, s)
    PROVE  TypeOK'
<1>. DEFINE m == Line(r, s)
<1>0. s \in Servers /\ srv[s] \in Table
  BY DEF Neighbours, TypeOK
<1>1. /\ unreg' \subseteq Users
      /\ fate' \in [Users -> {"connected", "quit", "killed", "overridden"}]
      /\ UNCHANGED <<clock, up, claims, splits>>
  BY ExitedType DEF Parse, Collide, IntroduceUser, IntroductionKillsBoth,
     IntroductionLoses, IntroductionWins, UnknownPrefix, WrongDirection,
     RemoteRename, RenameKillsBoth, RenameLoses, RenameWins,
     RemoteQuit, RemoteKill, KillMisses, RemoteSquit, TypeOK
<1>2. SUFFICES srv' \in [Servers -> Table] /\ chan' \in [Edges -> Seq(Messages)]
  BY <1>1 DEF TypeOK
<1>3. \A L \in Table : [srv EXCEPT ![s] = L] \in [Servers -> Table]
  BY DEF TypeOK
<1>4. \A X : Without(srv[s], X) \in Table
  BY <1>0, WithoutType
<1>5. ASSUME NEW a \in Users, srv[s].nick[a] # NoNick
      PROVE  /\ Ref(srv[s], a) \in Refs
             /\ Kill(Ref(srv[s], a)) \in Messages
             /\ Quit(Ref(srv[s], a)) \in Messages
             /\ \A n \in Nicks, t \in TSs : Nick(Ref(srv[s], a), n, t) \in Messages
  BY <1>0, <1>5, RefType, LineTypes
<1>6. \A u \in Users : Kill(u) \in Messages
  BY LineTypes DEF Refs
<1>7. \A a \in Holders(s, m.nick) : m.nick \in Nicks => srv[s].nick[a] # NoNick
  BY ConstantsAssumption DEF Holders
<1>8. \A ch \in [Edges -> Seq(Messages)] : \A m1, m2 \in Messages : \A To :
        /\ Sent(ch, s, To, <<m1>>) \in [Edges -> Seq(Messages)]
        /\ Sent(ch, s, To, <<m1, m2>>) \in [Edges -> Seq(Messages)]
  <2>. SUFFICES ASSUME NEW ch \in [Edges -> Seq(Messages)],
                       NEW m1 \in Messages, NEW m2 \in Messages, NEW To
                PROVE  /\ Sent(ch, s, To, <<m1>>) \in [Edges -> Seq(Messages)]
                       /\ Sent(ch, s, To, <<m1, m2>>) \in [Edges -> Seq(Messages)]
    OBVIOUS
  <2>1. <<m1>> \in Seq(Messages) /\ <<m1, m2>> \in Seq(Messages)
    OBVIOUS
  <2>. QED
    BY <2>1, SentType
<1>9. CASE Arrives(r, s, "uid")
  <2>1. /\ m \in Messages /\ m.user \in Users /\ m.nick \in Nicks /\ m.ts \in TSs
        /\ Parsed(r, s) \in [Edges -> Seq(Messages)]
    BY <1>9, ParsedType, LineFields
  <2>2. \A X : Introduced(Without(srv[s], X), m.user, m.nick, m.ts) \in Table
    BY <1>4, <2>1, IntroducedType
  <2>3. CASE IntroduceUser(r, s)
    <3>1. srv' \in [Servers -> Table]
      BY <1>3, <1>4, <2>2, <2>3 DEF IntroduceUser
    <3>2. chan' \in [Edges -> Seq(Messages)]
      <4>1. CASE NewUser(r, s)
        <5>1. chan' = Sent(Parsed(r, s), s, Others(s, r), <<m>>)
          BY <2>3, <4>1 DEF IntroduceUser
        <5>. QED
          BY <1>8, <2>1, <5>1
      <4>2. CASE ~NewUser(r, s)
        <5>1. chan' = Sent(Parsed(r, s), s, up[s], <<Kill(m.user)>>)
          BY <2>3, <4>2 DEF IntroduceUser
        <5>. QED
          BY <1>6, <1>8, <2>1, <5>1
      <4>. QED
        BY <4>1, <4>2
    <3>. QED
      BY <3>1, <3>2
  <2>4. CASE IntroductionKillsBoth(r, s)
    <3>1. PICK a \in Holders(s, m.nick) \ unreg :
             /\ srv' = [srv EXCEPT ![s] = Without(srv[s], {a})]
             /\ chan' = Sent(IF TS6 THEN Sent(Parsed(r, s), s, {r}, <<Kill(m.user)>>)
                             ELSE Parsed(r, s),
                             s, up[s], <<Kill(Ref(srv[s], a))>>)
      BY <2>4 DEF IntroductionKillsBoth
    <3>2. Kill(m.user) \in Messages /\ Kill(Ref(srv[s], a)) \in Messages
      BY <1>5, <1>6, <1>7, <2>1, <3>1 DEF Holders
    <3>3. Sent(Parsed(r, s), s, {r}, <<Kill(m.user)>>) \in [Edges -> Seq(Messages)]
      BY <1>8, <2>1, <3>2
    <3>. QED
      BY <1>3, <1>4, <1>8, <2>1, <3>1, <3>2, <3>3
  <2>5. CASE IntroductionLoses(r, s)
    BY <1>6, <1>8, <2>1, <2>5 DEF IntroductionLoses, TypeOK
  <2>6. CASE IntroductionWins(r, s)
    <3>1. PICK a \in Holders(s, m.nick) \ unreg :
             /\ srv' = [srv EXCEPT ![s] = Introduced(Without(srv[s], {a}),
                                                     m.user, m.nick, m.ts)]
             /\ chan' = Sent(Parsed(r, s), s, Others(s, r),
                             <<Kill(Ref(srv[s], a)), m>>)
      BY <2>6 DEF IntroductionWins
    <3>2. Kill(Ref(srv[s], a)) \in Messages
      BY <1>5, <1>7, <2>1, <3>1 DEF Holders
    <3>. QED
      BY <1>3, <1>8, <2>1, <2>2, <3>1, <3>2
  <2>7. \A type : Arrives(r, s, type) => type = "uid"
    BY <1>9 DEF Arrives
  <2>8. Source(r, s, "nick") = {} /\ Source(r, s, "quit") = {}
    BY <2>7 DEF Source
  <2>9. ~ (RemoteRename(r, s) \/ RenameKillsBoth(r, s)
           \/ RenameLoses(r, s) \/ RenameWins(r, s) \/ RemoteQuit(r, s))
    BY <2>8 DEF RemoteRename, RenameKillsBoth, RenameLoses,
       RenameWins, RemoteQuit
  <2>10. ~ (UnknownPrefix(r, s) \/ WrongDirection(r, s) \/ RemoteKill(r, s)
            \/ KillMisses(r, s) \/ RemoteSquit(r, s))
    <3>1. ~ Arrives(r, s, "nick") /\ ~ Arrives(r, s, "quit")
          /\ ~ Arrives(r, s, "kill") /\ ~ Arrives(r, s, "squit")
      BY <2>7
    <3>. QED
      BY <3>1 DEF UnknownPrefix, WrongDirection, RemoteKill, KillMisses,
         RemoteSquit
  <2>. QED
    BY <2>3, <2>4, <2>5, <2>6, <2>9, <2>10 DEF Parse
<1>10. CASE UnknownPrefix(r, s) \/ WrongDirection(r, s)
  <2>1. Arrives(r, s, "nick") \/ Arrives(r, s, "quit")
    BY <1>10 DEF UnknownPrefix, WrongDirection, Source
  <2>2. m.who \in Refs /\ Parsed(r, s) \in [Edges -> Seq(Messages)]
    BY <2>1, ParsedType, LineFields
  <2>3. /\ srv' = srv
        /\ \/ chan' = Parsed(r, s)
           \/ chan' = Sent(Parsed(r, s), s, {r}, <<Kill(m.who)>>)
    BY <1>10 DEF UnknownPrefix, WrongDirection
  <2>4. Kill(m.who) \in Messages
    BY <2>2, LineTypes
  <2>5. Sent(Parsed(r, s), s, {r}, <<Kill(m.who)>>) \in [Edges -> Seq(Messages)]
    BY <1>8, <2>2, <2>4
  <2>. QED
    BY <2>2, <2>3, <2>5 DEF TypeOK
<1>11. ASSUME NEW type \in {"nick", "quit"}, NEW u \in Source(r, s, type)
       PROVE  /\ Parsed(r, s) \in [Edges -> Seq(Messages)]
              /\ u \in Users /\ srv[s].nick[u] # NoNick
              /\ type = "nick" => /\ m.nick \in Nicks /\ m.ts \in TSs
                                  /\ \A X : u \notin X =>
                                       Renamed(Without(srv[s], X), u, m.nick, m.ts)
                                         \in Table
  <2>1. /\ Arrives(r, s, type) /\ u \in Users /\ srv[s].nick[u] # NoNick
    BY DEF Source, Found, Known
  <2>2. Parsed(r, s) \in [Edges -> Seq(Messages)]
        /\ (type = "nick" => m.nick \in Nicks /\ m.ts \in TSs)
    BY <2>1, ParsedType, LineFields
  <2>3. \A X : u \notin X => Without(srv[s], X).nick[u] # NoNick
    BY <2>1 DEF Without
  <2>. QED
    BY <1>4, <2>1, <2>2, <2>3, RenamedType
<1>12. CASE RemoteRename(r, s)
  <2>1. PICK u \in Source(r, s, "nick") :
           /\ Holders(s, m.nick) \subseteq unreg
           /\ srv' = [srv EXCEPT ![s] =
                        Renamed(Without(srv[s], Holders(s, m.nick)),
                                u, m.nick, m.ts)]
           /\ chan' = Sent(Parsed(r, s), s, Others(s, r),
                           <<Nick(Ref(srv[s], u), m.nick, m.ts)>>)
    BY <1>12 DEF RemoteRename
  <2>2. u \notin Holders(s, m.nick)
    BY <2>1 DEF Source, Found
  <2>. QED
    BY <1>3, <1>5, <1>8, <1>11, <2>1, <2>2
<1>13. CASE RenameKillsBoth(r, s)
  <2>1. PICK u \in Source(r, s, "nick"), a \in Holders(s, m.nick) \ unreg :
           /\ srv' = [srv EXCEPT ![s] = Without(srv[s], {u, a})]
           /\ chan' = Sent(Parsed(r, s), s, up[s],
                           <<Kill(Ref(srv[s], u)), Kill(Ref(srv[s], a))>>)
    BY <1>13 DEF RenameKillsBoth
  <2>2. Kill(Ref(srv[s], u)) \in Messages /\ Kill(Ref(srv[s], a)) \in Messages
    BY <1>5, <1>7, <1>11 DEF Holders
  <2>. QED
    BY <1>3, <1>4, <1>8, <1>11, <2>1, <2>2
<1>14. CASE RenameLoses(r, s)
  <2>1. PICK u \in Source(r, s, "nick") :
           /\ srv' = [srv EXCEPT ![s] = Without(srv[s], {u})]
           /\ chan' = Sent(Parsed(r, s), s, Others(s, r), <<Kill(Ref(srv[s], u))>>)
    BY <1>14 DEF RenameLoses
  <2>. QED
    BY <1>3, <1>4, <1>5, <1>8, <1>11, <2>1
<1>15. CASE RenameWins(r, s)
  <2>1. PICK u \in Source(r, s, "nick"), a \in Holders(s, m.nick) \ unreg :
           /\ a # u
           /\ srv' = [srv EXCEPT
                        ![s] = Renamed(Without(srv[s], {a}), u, m.nick, m.ts)]
           /\ chan' = Sent(Parsed(r, s), s, Others(s, r),
                           <<Kill(Ref(srv[s], a)),
                             Nick(Ref(srv[s], u), m.nick, m.ts)>>)
    BY <1>15 DEF RenameWins
  <2>2. /\ Kill(Ref(srv[s], a)) \in Messages
        /\ Nick(Ref(srv[s], u), m.nick, m.ts) \in Messages
    BY <1>5, <1>7, <1>11 DEF Holders
  <2>. QED
    BY <1>3, <1>8, <1>11, <2>1, <2>2
<1>16. CASE RemoteQuit(r, s)
  <2>1. PICK u \in Source(r, s, "quit") :
           /\ srv' = [srv EXCEPT ![s] = Without(srv[s], {u})]
           /\ chan' = Sent(Parsed(r, s), s, up[s], <<Quit(Ref(srv[s], u))>>)
    BY <1>16 DEF RemoteQuit
  <2>. QED
    BY <1>3, <1>4, <1>5, <1>8, <1>11, <2>1
<1>17. CASE RemoteKill(r, s) \/ KillMisses(r, s)
  <2>1. Arrives(r, s, "kill")
    BY <1>17 DEF RemoteKill, KillMisses
  <2>2. Parsed(r, s) \in [Edges -> Seq(Messages)]
    BY <2>1, ParsedType
  <2>3. CASE RemoteKill(r, s)
    <3>1. PICK u \in Victims(s, m.who) :
             /\ srv' = [srv EXCEPT ![s] = Without(srv[s], {u})]
             /\ chan' = Sent(Parsed(r, s), s, Others(s, r),
                             <<Kill(Ref(srv[s], u))>>)
      BY <2>3 DEF RemoteKill
    <3>2. u \in Users /\ srv[s].nick[u] # NoNick
      BY <1>0, <3>1 DEF Victims, Found, Known, Table, WhowasOnline
    <3>. QED
      BY <1>3, <1>4, <1>5, <1>8, <2>2, <3>1, <3>2
  <2>. QED
    BY <1>17, <2>2, <2>3 DEF KillMisses, TypeOK
<1>18. CASE RemoteSquit(r, s)
  <2>1. m \in Messages /\ Parsed(r, s) \in [Edges -> Seq(Messages)]
    BY <1>18, ParsedType DEF RemoteSquit
  <2>. QED
    BY <1>3, <1>4, <1>8, <1>18, <2>1 DEF RemoteSquit
<1>. QED
  BY <1>9, <1>10, <1>12, <1>13, <1>14, <1>15, <1>16, <1>17, <1>18
     DEF Parse, IntroduceUser, IntroductionKillsBoth, IntroductionLoses,
         IntroductionWins, NewUser

-----------------------------------------------------------------------------
(* Nicknames *)

SoundTables == \A s \in Servers : Sound(srv[s])

\* Soundness of the tables is what the two invariants say together.
LEMMA SoundMeans ==
    ASSUME TypeOK
    PROVE  SoundTables <=> NickUnique /\ WhowasOnline
<1>1. \A s \in Servers : srv[s] \in Table
  BY DEF TypeOK
<1>2. ASSUME NEW s \in Servers
      PROVE  HistOnline(srv[s]) <=>
               \A n \in Nicks : srv[s].hist[n] # NoUser => srv[s].hist[n] \in Known(s)
  BY <1>1 DEF HistOnline, Known, Table
<1>3. ASSUME NEW s \in Servers
      PROVE  Unique(srv[s]) <=>
               \A u, v \in Known(s) : srv[s].nick[u] = srv[s].nick[v] => u = v
  BY <1>1 DEF Unique, Known, Table
<1>. QED
  BY <1>2, <1>3 DEF SoundTables, Sound, NickUnique, WhowasOnline

\* Every decision on a line leaves the table of the server sound.
LEMMA ParseSound ==
    ASSUME TypeOK, SoundTables,
           NEW r \in Servers, NEW s \in Neighbours(r), Parse(r, s)
    PROVE  SoundTables'
<1>. DEFINE m == Line(r, s)
<1>0. s \in Servers /\ srv[s] \in Table /\ Sound(srv[s])
  BY DEF Neighbours, TypeOK, SoundTables
<1>1. ASSUME NEW L, Sound(L), srv' = [srv EXCEPT ![s] = L] PROVE SoundTables'
  BY <1>0, <1>1 DEF SoundTables, TypeOK
<1>2. srv' = srv => SoundTables'
  BY DEF SoundTables
<1>3. \A X : Sound(Without(srv[s], X))
  BY <1>0, WithoutSound
<1>4. ASSUME NEW a \in Holders(s, m.nick), m.nick \in Nicks
      PROVE  \A v \in Users : srv[s].nick[v] = m.nick => v \in {a}
  BY <1>0, <1>4, ConstantsAssumption DEF Holders, Sound, Unique
<1>5. Arrives(r, s, "uid") => m.user \in Users /\ m.nick \in Nicks /\ m.ts \in TSs
  BY ParsedType, LineFields
<1>6. \A u \in Source(r, s, "nick") :
        /\ u \in Users /\ srv[s].nick[u] # NoNick
        /\ m.nick \in Nicks /\ m.ts \in TSs
  BY ParsedType, LineFields DEF Source, Found, Known
<1>7. CASE IntroduceUser(r, s)
  <2>1. Arrives(r, s, "uid")
    BY <1>7 DEF IntroduceUser
  <2>2. Sound(Introduced(Without(srv[s], Holders(s, m.nick)), m.user, m.nick, m.ts))
    BY <1>0, <1>5, <2>1, ReplacedSound DEF Holders
  <2>. QED
    BY <1>1, <1>3, <1>7, <2>2 DEF IntroduceUser
<1>8. CASE IntroductionWins(r, s)
  <2>1. PICK a \in Holders(s, m.nick) \ unreg :
           srv' = [srv EXCEPT ![s] = Introduced(Without(srv[s], {a}),
                                                m.user, m.nick, m.ts)]
    BY <1>8 DEF IntroductionWins
  <2>2. m.user \in Users /\ m.nick \in Nicks
    BY <1>5, <1>8 DEF IntroductionWins, NewUser
  <2>3. Sound(Introduced(Without(srv[s], {a}), m.user, m.nick, m.ts))
    BY <1>0, <1>4, <2>1, <2>2, ReplacedSound
  <2>. QED
    BY <1>1, <2>1, <2>3
<1>9. CASE RemoteRename(r, s)
  <2>1. PICK u \in Source(r, s, "nick") :
           /\ Holders(s, m.nick) \subseteq unreg
           /\ srv' = [srv EXCEPT ![s] =
                        Renamed(Without(srv[s], Holders(s, m.nick)),
                                u, m.nick, m.ts)]
    BY <1>9 DEF RemoteRename
  <2>2. u \notin Holders(s, m.nick)
    BY <2>1 DEF Source, Found
  <2>3. Sound(Renamed(Without(srv[s], Holders(s, m.nick)), u, m.nick, m.ts))
    BY <1>0, <1>6, <2>2, ReplacedSound DEF Holders
  <2>. QED
    BY <1>1, <2>1, <2>3
<1>10. CASE RenameWins(r, s)
  <2>1. PICK u \in Source(r, s, "nick"), a \in Holders(s, m.nick) \ unreg :
           /\ a # u
           /\ srv' = [srv EXCEPT
                        ![s] = Renamed(Without(srv[s], {a}), u, m.nick, m.ts)]
    BY <1>10 DEF RenameWins
  <2>2. Sound(Renamed(Without(srv[s], {a}), u, m.nick, m.ts))
    BY <1>0, <1>4, <1>6, <2>1, ReplacedSound
  <2>. QED
    BY <1>1, <2>1, <2>2
<1>11. CASE \E X : srv' = [srv EXCEPT ![s] = Without(srv[s], X)]
  BY <1>1, <1>3, <1>11
<1>. QED
  BY <1>2, <1>7, <1>8, <1>9, <1>10, <1>11
     DEF Parse, IntroductionKillsBoth, IntroductionLoses, UnknownPrefix,
         WrongDirection, RenameKillsBoth, RenameLoses,
         RemoteQuit, RemoteKill, KillMisses, RemoteSquit

\* A command of a local client leaves the table of its server sound: mr_nick
\* gives only a free nickname, m_nick one that an unregistered client loses.
LEMMA CommandSound ==
    ASSUME TypeOK, SoundTables, NEW u \in Users, NEW n, NEW t,
           \/ /\ n \in Nicks /\ t \in TSs
              /\ SetInitialNick(u, n, t) \/ ChangeNick(u, n, t)
           \/ Register(u) \/ Disconnect(u)
    PROVE  SoundTables'
<1>. DEFINE s == Home[u]
<1>0. s \in Servers /\ srv[s] \in Table /\ Sound(srv[s])
  BY ConstantsAssumption DEF TypeOK, SoundTables
<1>1. ASSUME NEW L, Sound(L), srv' = [srv EXCEPT ![s] = L] PROVE SoundTables'
  BY <1>0, <1>1 DEF SoundTables, TypeOK
<1>2. CASE n \in Nicks /\ t \in TSs /\ SetInitialNick(u, n, t)
  <2>1. Sound(Introduced(srv[s], u, n, t))
    BY <1>0, <1>2, GivenSound DEF SetInitialNick, Holders
  <2>. QED
    BY <1>1, <1>2, <2>1 DEF SetInitialNick
<1>3. CASE n \in Nicks /\ t \in TSs /\ ChangeNick(u, n, t)
  <2>1. u \notin Holders(s, n) /\ srv[s].nick[u] # NoNick
    BY <1>3 DEF ChangeNick, Known
  <2>2. Sound(Renamed(Without(srv[s], Holders(s, n)), u, n, t))
    BY <1>0, <1>3, <2>1, ReplacedSound DEF Holders
  <2>. QED
    BY <1>1, <1>3, <2>2 DEF ChangeNick
<1>4. CASE Register(u)
  BY <1>4 DEF Register, SoundTables
<1>5. CASE Disconnect(u)
  BY <1>0, <1>1, <1>5, WithoutSound DEF Disconnect
<1>. QED
  BY <1>2, <1>3, <1>4, <1>5

\* So do losing a link and bursting on a new one.
LEMMA LinkSound ==
    ASSUME TypeOK, SoundTables, NEW s \in Servers, NEW t \in Neighbours(s),
           LoseLink(s, t) \/ Link(s, t)
    PROVE  SoundTables'
<1>1. srv[s] \in Table /\ Sound(srv[s])
  BY DEF TypeOK, SoundTables
<1>2. CASE LoseLink(s, t)
  BY <1>1, <1>2, WithoutSound DEF LoseLink, SoundTables, TypeOK
<1>3. CASE Link(s, t)
  BY <1>3 DEF Link, SoundTables
<1>. QED
  BY <1>2, <1>3
-----------------------------------------------------------------------------
(* The theorems *)

\* A command of a local client keeps the types.
LEMMA CommandType ==
    ASSUME TypeOK, NEW u \in Users, NEW n, NEW t,
           \/ /\ n \in Nicks /\ t \in TSs
              /\ SetInitialNick(u, n, t) \/ ChangeNick(u, n, t)
           \/ Register(u) \/ Disconnect(u)
    PROVE  TypeOK'
<1>. DEFINE s == Home[u]
<1>0. s \in Servers /\ srv[s] \in Table
  BY ConstantsAssumption DEF TypeOK
<1>1. \A L \in Table : [srv EXCEPT ![s] = L] \in [Servers -> Table]
  BY DEF TypeOK
<1>2. \A ch \in [Edges -> Seq(Messages)], m \in Messages : \A To :
        Sent(ch, s, To, <<m>>) \in [Edges -> Seq(Messages)]
  <2>1. \A m \in Messages : <<m>> \in Seq(Messages)
    OBVIOUS
  <2>. QED
    BY <2>1, SentType
<1>3. n \in Nicks /\ t \in TSs /\ Claim(u, n, t) =>
        clock' \in [Servers -> TSs] /\ claims' \subseteq Claims
  BY <1>0 DEF Claim, Claims, TypeOK, TSs
<1>4. CASE n \in Nicks /\ t \in TSs /\ SetInitialNick(u, n, t)
  <2>1. srv' \in [Servers -> Table]
    BY <1>0, <1>1, <1>4, IntroducedType DEF SetInitialNick
  <2>. QED
    BY <1>3, <1>4, <2>1 DEF SetInitialNick, TypeOK
<1>5. CASE n \in Nicks /\ t \in TSs /\ ChangeNick(u, n, t)
  <2>1. u \notin Holders(s, n) /\ srv[s].nick[u] # NoNick
    BY <1>5 DEF ChangeNick, Known
  <2>2. Without(srv[s], Holders(s, n)) \in Table
        /\ Without(srv[s], Holders(s, n)).nick[u] # NoNick
    BY <1>0, <2>1, WithoutType DEF Without
  <2>3. srv' \in [Servers -> Table]
    BY <1>1, <1>5, <2>2, RenamedType DEF ChangeNick
  <2>4. Nick(Ref(srv[s], u), n, t) \in Messages
    BY <1>0, <1>5, <2>1, RefType, LineTypes
  <2>5. chan' \in [Edges -> Seq(Messages)]
    BY <1>2, <1>5, <2>4 DEF ChangeNick, TypeOK
  <2>. QED
    BY <1>3, <1>5, <2>3, <2>5, ExitedType DEF ChangeNick, TypeOK
<1>6. CASE Register(u)
  <2>1. Uid(u, srv[s].nick[u], srv[s].ts[u]) \in Messages
    BY <1>0, <1>6 DEF Register, Known, Table, Uid, Messages
  <2>. QED
    BY <1>2, <1>6, <2>1 DEF Register, TypeOK
<1>7. CASE Disconnect(u)
  <2>1. srv' \in [Servers -> Table]
    BY <1>0, <1>1, <1>7, WithoutType DEF Disconnect
  <2>2. Quit(Ref(srv[s], u)) \in Messages
    BY <1>0, <1>7, RefType, LineTypes DEF Disconnect, Known
  <2>3. chan' \in [Edges -> Seq(Messages)]
    BY <1>2, <1>7, <2>2 DEF Disconnect, TypeOK
  <2>. QED
    BY <1>7, <2>1, <2>3 DEF Disconnect, TypeOK
<1>. QED
  BY <1>4, <1>5, <1>6, <1>7

\* A burst is a sequence of UID lines.
LEMMA BurstType ==
    ASSUME TypeOK, NEW s \in Servers, NEW b \in Bursts(s)
    PROVE  b \in Seq(Messages)
<1>. DEFINE known == Known(s) \ unreg
<1>1. srv[s] \in Table
  BY DEF TypeOK
<1>2. \A u \in known : Uid(u, srv[s].nick[u], srv[s].ts[u]) \in Messages
  BY <1>1 DEF Known, Table, Uid, Messages
<1>3. Cardinality(known) \in Nat
  <2>1. IsFiniteSet(known)
    BY ConstantsAssumption, FS_Subset DEF Known
  <2>. QED
    BY <2>1, FS_CardinalityType
<1>4. PICK f \in [1 .. Cardinality(known) -> known] :
        b = [i \in 1 .. Cardinality(known) |->
               Uid(f[i], srv[s].nick[f[i]], srv[s].ts[f[i]])]
  BY DEF Bursts
<1>5. b \in [1 .. Cardinality(known) -> Messages]
  BY <1>2, <1>4
<1>. QED
  BY <1>3, <1>5, SeqDef

\* Losing a link and bursting on a new one keep the types.
LEMMA LinkType ==
    ASSUME TypeOK, NEW s \in Servers, NEW t \in Neighbours(s),
           LoseLink(s, t) \/ Link(s, t)
    PROVE  TypeOK'
<1>1. t \in Servers /\ srv[s] \in Table
  BY DEF TypeOK, Neighbours
<1>2. CASE LoseLink(s, t)
  <2>1. srv' \in [Servers -> Table]
    BY <1>1, <1>2, WithoutType DEF LoseLink, TypeOK
  <2>2. <<s, t>> \in Edges
    BY <1>1 DEF Edges
  <2>3. <<Squit(s, t)>> \in Seq(Messages)
    BY <2>2 DEF Squit, Messages
  <2>4. [chan EXCEPT ![<<t, s>>] = <<>>] \in [Edges -> Seq(Messages)]
    <3>1. <<>> \in Seq(Messages)
      OBVIOUS
    <3>. QED
      BY <3>1 DEF TypeOK
  <2>5. chan' \in [Edges -> Seq(Messages)]
    BY <1>2, <2>3, <2>4, SentType DEF LoseLink
  <2>6. up' \in [Servers -> SUBSET Servers] /\ splits' \in Nat
    BY <1>2 DEF LoseLink, TypeOK
  <2>. QED
    BY <1>2, <2>1, <2>5, <2>6 DEF LoseLink, TypeOK
<1>3. CASE Link(s, t)
  <2>1. PICK b \in Bursts(s), c \in Bursts(t) :
          chan' = [chan EXCEPT ![<<s, t>>] = b, ![<<t, s>>] = c]
    BY <1>3 DEF Link
  <2>2. chan' \in [Edges -> Seq(Messages)]
    BY <1>1, <2>1, BurstType DEF TypeOK
  <2>3. up' \in [Servers -> SUBSET Servers]
    BY <1>1, <1>3 DEF Link, TypeOK
  <2>. QED
    BY <1>3, <2>2, <2>3 DEF Link, TypeOK
<1>. QED
  BY <1>2, <1>3

\* The inductive invariant: the chase of a KILL through whowas names a user
\* of the table only because the tables are sound, and the types need that.
IInv == TypeOK /\ SoundTables

\* A server starts with no users, no history and no links.
LEMMA InitIInv == Init => IInv
<1>. SUFFICES ASSUME Init PROVE IInv
  OBVIOUS
<1>1. TypeOK
  BY ConstantsAssumption DEF Init, TypeOK, Table, TSs, Claims
<1>2. SoundTables
  BY ConstantsAssumption DEF Init, SoundTables, Sound, Unique, HistOnline
<1>. QED
  BY <1>1, <1>2 DEF IInv

\* Every command, every line parsed and every link change preserves it.
LEMMA NextIInv == IInv /\ [Next]_vars => IInv'
<1>. SUFFICES ASSUME IInv, [Next]_vars PROVE IInv'
  OBVIOUS
<1>0. TypeOK /\ SoundTables /\ WhowasOnline
  BY SoundMeans DEF IInv
<1>1. ASSUME NEW u \in Users, NEW n \in Nicks, NEW t \in TSs,
             SetInitialNick(u, n, t) \/ ChangeNick(u, n, t)
      PROVE  IInv'
  BY <1>0, <1>1, CommandType, CommandSound DEF IInv
<1>2. ASSUME NEW u \in Users, Register(u) \/ Disconnect(u)
      PROVE  IInv'
  BY <1>0, <1>2, CommandType, CommandSound DEF IInv
<1>3. ASSUME NEW r \in Servers, NEW s \in Neighbours(r), Parse(r, s)
      PROVE  IInv'
  BY <1>0, <1>3, ParseType, ParseSound DEF IInv
<1>4. ASSUME NEW r \in Servers, NEW s \in Neighbours(r),
             LoseLink(r, s) \/ Link(r, s)
      PROVE  IInv'
  BY <1>0, <1>4, LinkType, LinkSound DEF IInv
<1>5. CASE UNCHANGED vars
  BY <1>0, <1>5 DEF IInv, TypeOK, SoundTables, vars
<1>. QED
  BY <1>1, <1>2, <1>3, <1>4, <1>5 DEF Next

\* The variables keep their types: every line a handler puts on a link is
\* one parse can read, every table entry a nickname with its timestamp.
THEOREM TypeCorrect == Spec => []TypeOK
<1>1. IInv => TypeOK
  BY DEF IInv
<1>. QED
  BY InitIInv, NextIInv, <1>1, PTL DEF Spec

\* No server ever has two users under one nickname, whatever collisions,
\* kills, splits and bursts happen on whatever tree of servers.
THEOREM NicknamesUnique == Spec => []NickUnique
<1>1. IInv => NickUnique
  BY SoundMeans DEF IInv
<1>. QED
  BY InitIInv, NextIInv, <1>1, PTL DEF Spec

\* get_history never returns a client that exit_client has removed.
THEOREM HistoryOnline == Spec => []WhowasOnline
<1>1. IInv => WhowasOnline
  BY SoundMeans DEF IInv
<1>. QED
  BY InitIInv, NextIInv, <1>1, PTL DEF Spec

-----------------------------------------------------------------------------
(* What the handlers send about a user *)

\* The line m says which nickname u has.
About(u, m) == \/ m.type = "uid" /\ m.user = u
               \/ m.type = "nick" /\ m.who = u

\* The link e leads away from the server of u.
Away(u, e) == Route[e[2]][Home[u]] = e[1]

\* The line m is fit for the link e: it is about a user the link leads away
\* from, or about an edge that is lost on the near side.
Fits(e, m) ==
    /\ \A u \in Users : About(u, m) => Away(u, e)
    /\ m.type = "squit" =>
         Behind(m.edge[1], m.edge[2]) \subseteq Behind(e[2], e[1])

\* u has lost a collision, by the rules of m_nick.c.
Lost(u) == \E c, d \in claims : c.user = u /\ Beaten(c, d)

\* u may be killed or has gone: there is no way back.
Doomed(u) == Lost(u) \/ fate[u] # "connected"

\* u is doomed after the step.
Dooms(u) == \/ \E c, d \in claims' : c.user = u /\ Beaten(c, d)
            \/ fate'[u] # "connected"

\* The line m changes whether its reader has u.
Heard(u, m) == \/ About(u, m)
               \/ m.type = "squit" /\ Home[u] \in Behind(m.edge[1], m.edge[2])

\* Lines are found on the links they are fit for only, and whoever has a user
\* that is not its own is linked towards it.
Routed ==
    /\ \A s \in Servers : up[s] \subseteq Neighbours(s)
    /\ \A s \in Servers : \A u \in Known(s) :
         Home[u] = s \/ Route[s][Home[u]] \in up[s]
    /\ \A e \in Edges : \A i \in 1 .. Len(chan[e]) : Fits(e, chan[e][i])

\* Whoever has lost the connection is not in the table of its server, whoever
\* registers is; a user that is connected and not registered is known nowhere
\* else.
Fates ==
    \A u \in Users :
      /\ fate[u] # "connected" => srv[Home[u]].nick[u] = NoNick
      /\ u \in unreg => srv[Home[u]].nick[u] # NoNick
      /\ fate[u] = "connected" /\ (srv[Home[u]].nick[u] = NoNick \/ u \in unreg) =>
           /\ \A x \in Servers \ {Home[u]} : srv[x].nick[u] = NoNick
           /\ \A e \in Edges : \A i \in 1 .. Len(chan[e]) : ~About(u, chan[e][i])

\* Whoever has a nickname, and whoever a line gives one, has claimed it; who
\* is killed or quits is doomed; a killed user has lost a collision.
Justified ==
    /\ \A x \in Servers : \A u \in Known(x) :
         [user |-> u, nick |-> srv[x].nick[u], ts |-> srv[x].ts[u]] \in claims
    /\ \A e \in Edges : \A i \in 1 .. Len(chan[e]) :
         /\ \A u \in Users : About(u, chan[e][i]) =>
              [user |-> u, nick |-> chan[e][i].nick, ts |-> chan[e][i].ts] \in claims
         /\ chan[e][i].type \in {"nick", "quit", "kill"} => chan[e][i].who \in Users
         /\ chan[e][i].type \in {"quit", "kill"} => Doomed(chan[e][i].who)
    /\ OnlyLosersKilled

\* What the line m, sent on the link e, says about a registered user is what
\* the table of its sender says, and who it says has gone is doomed.
Says(e, m) ==
    /\ Fits(e, m)
    /\ m.type \in {"nick", "quit", "kill"} => m.who \in Users
    /\ m.type \in {"quit", "kill"} => Dooms(m.who)
    /\ \A u \in Users : About(u, m) =>
         /\ srv'[e[1]].nick[u] = m.nick /\ m.nick # NoNick
         /\ srv'[e[1]].ts[u] = m.ts
         /\ u \notin unreg'

\* The links c1 are c0 with lines appended that say what the tables say.
Honest(c0, c1) ==
    \A e \in Edges : \E M \in Seq(Messages) :
       c1[e] = c0[e] \o M /\ \A i \in 1 .. Len(M) : Says(e, M[i])

\* A neighbour that is not on the way to a user is further from it.
LEMMA AwayFrom ==
    ASSUME NEW s \in Servers, NEW t \in Neighbours(s), NEW u \in Users,
           Route[s][Home[u]] # t
    PROVE  <<s, t>> \in Edges /\ Away(u, <<s, t>>)
<1>1. t \in Servers /\ <<s, t>> \in Edges /\ Home[u] \in Servers
  BY ConstantsAssumption DEF Neighbours, Edges
<1>2. Home[u] \notin Behind(s, t)
  BY <1>1 DEF Behind
<1>. DEFINE e == <<s, t>>
<1>3. e[1] = s /\ e[2] = t
  OBVIOUS
<1>4. Behind(e[1], e[2]) \cup Behind(e[2], e[1]) = Servers
  BY <1>1, TreeAssumption
<1>5. Home[u] \in Behind(t, s)
  BY <1>1, <1>2, <1>3, <1>4
<1>. QED
  BY <1>1, <1>5 DEF Behind, Away

\* A link away from a user does not lead to its server.
LEMMA AwayNotHome ==
    ASSUME NEW u \in Users, NEW e \in Edges, Away(u, e)
    PROVE  e[1] \in Servers /\ e[2] \in Servers /\ e[2] # Home[u] /\ e[1] # e[2]
<1>1. e \in Servers \X Servers /\ e[2] \in Neighbours(e[1])
  BY DEF Edges
<1>2. e[1] # e[2]
  BY <1>1 DEF Neighbours
<1>. QED
  BY <1>1, <1>2, TreeAssumption DEF Away

\* Sending nothing is honest.
LEMMA HonestSame ==
    ASSUME NEW c \in [Edges -> Seq(Messages)]
    PROVE  Honest(c, c)
<1>1. \A q \in Seq(Messages) : q = q \o <<>>
  OBVIOUS
<1>2. <<>> \in Seq(Messages) /\ \A i \in 1 .. Len(<<>>) : FALSE
  OBVIOUS
<1>. QED
  <2>. SUFFICES ASSUME NEW e \in Edges
                PROVE  \E M \in Seq(Messages) :
                         c[e] = c[e] \o M /\ \A i \in 1 .. Len(M) : Says(e, M[i])
    BY DEF Honest
  <2>. WITNESS <<>> \in Seq(Messages)
  <2>. QED
    BY <1>1, <1>2

\* So is sending lines that say what the table says to those they are for.
LEMMA HonestSend ==
    ASSUME NEW c \in [Edges -> Seq(Messages)], NEW s \in Servers, NEW To,
           NEW msgs \in Seq(Messages),
           \A i \in 1 .. Len(msgs), t \in To \cap Open(s) :
              <<s, t>> \in Edges => Says(<<s, t>>, msgs[i])
    PROVE  Honest(c, Sent(c, s, To, msgs))
<1>. SUFFICES ASSUME NEW e \in Edges
              PROVE  \E M \in Seq(Messages) :
                       /\ Sent(c, s, To, msgs)[e] = c[e] \o M
                       /\ \A i \in 1 .. Len(M) : Says(e, M[i])
  BY DEF Honest
<1>1. e = <<e[1], e[2]>>
  BY DEF Edges
<1>2. c[e] = c[e] \o <<>> /\ <<>> \in Seq(Messages)
      /\ \A i \in 1 .. Len(<<>>) : FALSE
  OBVIOUS
<1>3. CASE e[1] = s /\ e[2] \in To \cap Open(s)
  <2>1. Sent(c, s, To, msgs)[e] = c[e] \o msgs
    BY <1>3 DEF Sent
  <2>2. \A i \in 1 .. Len(msgs) : Says(e, msgs[i])
    BY <1>1, <1>3
  <2>. WITNESS msgs \in Seq(Messages)
  <2>. QED
    BY <2>1, <2>2
<1>4. CASE ~(e[1] = s /\ e[2] \in To \cap Open(s))
  <2>1. Sent(c, s, To, msgs)[e] = c[e] \o <<>>
    BY <1>2, <1>4 DEF Sent
  <2>. USE <1>2
  <2>. WITNESS <<>> \in Seq(Messages)
  <2>. QED
    BY <1>2, <2>1
<1>. QED
  BY <1>3, <1>4

\* What a step may do to the entry of u in the table of x: drop it, leave it,
\* claim a nickname at the time x has when u is its own, or copy the line
\* about u that x has parsed.
Moved(u, x) ==
    \/ srv'[x].nick[u] = NoNick
    \/ srv'[x].nick[u] = srv[x].nick[u] /\ srv'[x].ts[u] = srv[x].ts[u]
    \/ /\ x = Home[u] /\ clock[x] <= clock'[x] /\ srv'[x].ts[u] = clock'[x]
       /\ [user |-> u, nick |-> srv'[x].nick[u], ts |-> srv'[x].ts[u]] \in claims'
    \/ \E r \in up[x] :
         /\ <<r, x>> \in Edges
         /\ chan[<<r, x>>] # <<>>
         /\ About(u, chan[<<r, x>>][1])
         /\ srv'[x].nick[u] = chan[<<r, x>>][1].nick
         /\ srv'[x].ts[u] = chan[<<r, x>>][1].ts
         /\ chan'[<<r, x>>] = Tail(chan[<<r, x>>])

\* What a step may do to a user at its server: a user that registers or has
\* registered stays in the table until its connection ends, once.
Ends(u) ==
    /\ fate'[u] = "connected" => fate[u] = "connected"
    /\ fate'[u] # "connected" => srv'[Home[u]].nick[u] = NoNick
    /\ fate'[u] = "killed" => fate[u] = "killed" \/ Lost(u)'
    /\ u \in unreg' => srv'[Home[u]].nick[u] # NoNick
    /\ fate'[u] = "connected" /\ srv[Home[u]].nick[u] # NoNick /\ u \notin unreg =>
         srv'[Home[u]].nick[u] # NoNick /\ u \notin unreg'

\* What is left on the link e once it is read or closed.
Left(e, q) == \/ q = chan[e] \/ q = <<>>
              \/ chan[e] # <<>> /\ q = Tail(chan[e])

\* What every step does to the tables, the links and the clocks.
Effects ==
    /\ \A u \in Users, x \in Servers : Moved(u, x)
    /\ \A u \in Users : Ends(u)
    /\ claims \subseteq claims'
    /\ \E base \in [Edges -> Seq(Messages)] :
         Honest(base, chan') /\ \A e \in Edges : Left(e, base[e])
    /\ \A x \in Servers : clock[x] <= clock'[x]
    /\ \A x \in Servers :
         /\ up'[x] \subseteq Neighbours(x)
         /\ \A u \in Users :
              srv'[x].nick[u] # NoNick /\ Route[x][Home[u]] \in up[x]
                => Route[x][Home[u]] \in up'[x]

\* exit_one_client drops a user or leaves it as it was.
LEMMA WithoutMoves ==
    ASSUME NEW L \in Table, NEW X, NEW u \in Users
    PROVE  \/ Without(L, X).nick[u] = NoNick
           \/ /\ Without(L, X).nick[u] = L.nick[u]
              /\ Without(L, X).ts[u] = L.ts[u]
  BY DEF Without

\* hash_add_client touches nobody but the user it adds or renames.
LEMMA GivenMoves ==
    ASSUME NEW L \in Table, NEW u \in Users, NEW n, NEW t, NEW v \in Users
    PROVE  /\ v # u => /\ Introduced(L, u, n, t).nick[v] = L.nick[v]
                       /\ Introduced(L, u, n, t).ts[v] = L.ts[v]
                       /\ Renamed(L, u, n, t).nick[v] = L.nick[v]
                       /\ Renamed(L, u, n, t).ts[v] = L.ts[v]
           /\ Introduced(L, u, n, t).nick[u] = n /\ Introduced(L, u, n, t).ts[u] = t
           /\ Renamed(L, u, n, t).nick[u] = n /\ Renamed(L, u, n, t).ts[u] = t
  BY DEF Introduced, Renamed, Table

\* The user a NICK or UID line is about, when users are named by UID.
LEMMA SourceAbout ==
    ASSUME TypeOK, TS6, NEW r \in Servers, NEW s \in Neighbours(r)
    PROVE  /\ \A u \in Source(r, s, "nick") :
                /\ u \in Users /\ About(u, Line(r, s))
                /\ srv[s].nick[u] # NoNick /\ u \notin unreg
           /\ Arrives(r, s, "uid") => About(Line(r, s).user, Line(r, s))
<1>1. s \in Servers
  BY DEF Neighbours
<1>2. ASSUME NEW u \in Source(r, s, "nick")
      PROVE  /\ u \in Users /\ About(u, Line(r, s))
             /\ srv[s].nick[u] # NoNick /\ u \notin unreg
  BY <1>2 DEF Source, Found, Known, Ref, About, Arrives, Line
<1>. QED
  BY <1>2 DEF About, Arrives, Line

\* The line at the head of a link is fit for it; if it is about a user, that
\* one is registered and lives elsewhere.
LEMMA HeadFits ==
    ASSUME TypeOK, Routed, Fates, NEW r \in Servers, NEW s \in Neighbours(r),
           NEW type, Arrives(r, s, type)
    PROVE  /\ Fits(<<r, s>>, Line(r, s))
           /\ \A u \in Users : About(u, Line(r, s)) =>
                Route[s][Home[u]] = r /\ Home[u] # s /\ u \notin unreg
<1>1. s \in Servers /\ <<r, s>> \in Edges
  BY ParsedType
<1>2. chan[<<r, s>>] \in Seq(Messages) /\ chan[<<r, s>>] # <<>>
  BY <1>1 DEF TypeOK, Arrives
<1>3. 1 \in 1 .. Len(chan[<<r, s>>])
  BY <1>2
<1>4. Fits(<<r, s>>, Line(r, s))
  BY <1>1, <1>3 DEF Routed, Line
<1>5. ASSUME NEW u \in Users, About(u, Line(r, s))
      PROVE  Route[s][Home[u]] = r /\ Home[u] # s /\ u \notin unreg
  <2>. DEFINE e == <<r, s>>
  <2>1. Away(u, e) /\ e \in Edges /\ e[1] = r /\ e[2] = s
    BY <1>1, <1>4, <1>5 DEF Fits
  <2>2. u \in unreg => fate[u] = "connected"
    BY DEF Fates
  <2>. QED
    BY <1>1, <1>3, <1>5, <2>1, <2>2, AwayNotHome DEF Away, Fates, Line
<1>. QED
  BY <1>4, <1>5

\* A line is passed on to where it is fit for.
LEMMA RelayedFits ==
    ASSUME TypeOK, Routed, Fates, NEW r \in Servers, NEW s \in Neighbours(r),
           NEW type, Arrives(r, s, type), NEW t \in Others(s, r)
    PROVE  Fits(<<s, t>>, Line(r, s))
<1>. DEFINE m == Line(r, s)
            e == <<s, t>>
            f == <<r, s>>
<1>1. s \in Servers /\ f \in Edges /\ m \in Messages
  BY ParsedType
<1>2. t \in Neighbours(s) /\ t # r /\ Fits(f, m)
  BY <1>1, HeadFits DEF Routed, Others
<1>3. ASSUME NEW u \in Users, About(u, m) PROVE Away(u, e)
  <2>1. Route[s][Home[u]] = r
    BY <1>3, HeadFits
  <2>. QED
    BY <1>1, <1>2, <2>1, AwayFrom
<1>4. e[1] = s /\ e[2] = t /\ f[1] = r /\ f[2] = s
  OBVIOUS
<1>5. ASSUME m.type = "squit"
      PROVE  Behind(m.edge[1], m.edge[2]) \subseteq Behind(t, s)
  <2>1. Behind(m.edge[1], m.edge[2]) \subseteq Behind(s, r)
    BY <1>2, <1>4, <1>5 DEF Fits
  <2>2. Behind(s, r) \cap Behind(s, t) = {}
    BY <1>2 DEF Behind
  <2>3. e \in Edges
    BY <1>1, <1>2 DEF Edges, Neighbours
  <2>4. Behind(s, t) \cup Behind(t, s) = Servers
    BY <1>4, <2>3, TreeAssumption
  <2>5. Behind(s, r) \subseteq Servers
    BY DEF Behind
  <2>. QED
    BY <2>1, <2>2, <2>4, <2>5
<1>. HIDE DEF m, e
<1>6. Fits(e, m)
  BY <1>3, <1>4, <1>5 DEF Fits
<1>. QED
  BY <1>6 DEF m, e

\* The effects of a line parsed, from what its handler does to the table and
\* to the links.
LEMMA ParsedEffects ==
    ASSUME TypeOK, Routed, Fates, NEW r \in Servers, NEW s \in Neighbours(r),
           NEW type, Arrives(r, s, type), UNCHANGED <<clock, up, claims>>,
           NEW L, srv' = [srv EXCEPT ![s] = L],
           \A u \in Users :
             \/ L.nick[u] = NoNick
             \/ L.nick[u] = srv[s].nick[u] /\ L.ts[u] = srv[s].ts[u]
             \/ /\ About(u, Line(r, s))
                /\ L.nick[u] = Line(r, s).nick /\ L.ts[u] = Line(r, s).ts,
           NEW X, Exited(s, X), X \subseteq Known(s),
           \A u \in X : L.nick[u] = NoNick /\ (u \in unreg \/ Doomed(u)),
           \A u \in Known(s) \ X : Home[u] = s => L.nick[u] # NoNick,
           Honest(Parsed(r, s), chan'),
           chan'[<<r, s>>] = Tail(chan[<<r, s>>])
    PROVE  Effects
<1>1. s \in Servers /\ <<r, s>> \in Edges /\ Parsed(r, s) \in [Edges -> Seq(Messages)]
  BY ParsedType
<1>2. r \in up[s] /\ chan[<<r, s>>] # <<>>
  BY DEF Arrives
<1>3. srv'[s] = L /\ \A x \in Servers \ {s} : srv'[x] = srv[x]
  BY <1>1 DEF TypeOK
<1>4. ASSUME NEW u \in Users, NEW x \in Servers PROVE Moved(u, x)
  <2>1. CASE x # s
    BY <1>3, <2>1 DEF Moved
  <2>2. CASE x = s
    <3>1. /\ srv'[x] = L /\ Line(r, s) = chan[<<r, s>>][1]
          /\ r \in up[x] /\ chan[<<r, x>>] # <<>>
      BY <1>2, <1>3, <2>2 DEF Line
    <3>2. CASE L.nick[u] = NoNick
      BY <3>1, <3>2 DEF Moved
    <3>3. CASE L.nick[u] = srv[s].nick[u] /\ L.ts[u] = srv[s].ts[u]
      BY <2>2, <3>1, <3>3 DEF Moved
    <3>4. CASE /\ About(u, Line(r, s))
               /\ L.nick[u] = Line(r, s).nick /\ L.ts[u] = Line(r, s).ts
      BY <1>1, <2>2, <3>1, <3>4 DEF Moved
    <3>. QED
      BY <3>2, <3>3, <3>4
  <2>. QED
    BY <2>1, <2>2
<1>5. \A e \in Edges : Left(e, Parsed(r, s)[e])
  BY <1>1, <1>2 DEF Left, Parsed, TypeOK
<1>6. \A x \in Servers : clock[x] <= clock'[x]
  BY DEF TypeOK, TSs
<1>7. \A x \in Servers :
         /\ up'[x] \subseteq Neighbours(x)
         /\ \A u \in Users :
              srv'[x].nick[u] # NoNick /\ Route[x][Home[u]] \in up[x]
                => Route[x][Home[u]] \in up'[x]
  BY DEF Routed
<1>8. ASSUME NEW u \in Users PROVE Ends(u)
  <2>1. /\ fate'[u] = IF u \in X /\ Home[u] = s
                       THEN IF u \in unreg THEN "overridden" ELSE "killed"
                       ELSE fate[u]
        /\ unreg' = unreg \ X
    BY DEF Exited
  <2>2. u \in unreg /\ fate[u] = "connected" /\ u \in X => Home[u] = s
    BY <1>1 DEF Fates, Known
  <2>3. u \in unreg => fate[u] = "connected" /\ srv[Home[u]].nick[u] # NoNick
    BY DEF Fates
  <2>4. CASE Home[u] # s
    <3>1. srv'[Home[u]] = srv[Home[u]] /\ fate'[u] = fate[u]
      BY <1>3, <2>1, <2>4, ConstantsAssumption
    <3>. QED
      BY <2>1, <2>2, <2>3, <2>4, <3>1 DEF Ends, Fates
  <2>5. CASE Home[u] = s
    <3>1. srv'[Home[u]] = L
      BY <1>3, <2>5
    <3>2. L.nick[u] # NoNick => srv[s].nick[u] # NoNick
      BY <2>5, HeadFits
    <3>3. CASE u \in X
      <4>1. u \notin unreg => Lost(u)
        BY <2>5, <3>3 DEF Doomed, Fates, Known
      <4>2. Lost(u) => Lost(u)'
        BY DEF Lost
      <4>. QED
        BY <2>1, <2>3, <2>5, <3>1, <3>3, <4>1, <4>2 DEF Ends
    <3>4. CASE u \notin X
      BY <2>1, <2>3, <2>5, <3>1, <3>2, <3>4 DEF Ends, Fates, Known
    <3>. QED
      BY <3>3, <3>4
  <2>. QED
    BY <2>4, <2>5
<1>. QED
  BY <1>1, <1>4, <1>5, <1>6, <1>7, <1>8 DEF Effects
-----------------------------------------------------------------------------
(* What a handler of a line comes to, when users are named by UID *)

\* s adds to the links c0 nothing but the ends of doomed users.
EndsSent(s, c0, c1) ==
    \A e \in Edges : \E M \in Seq(Messages) :
       /\ c1[e] = c0[e] \o M
       /\ e[1] # s \/ e[2] \notin Open(s) => M = <<>>
       /\ \A i \in 1 .. Len(M) : /\ M[i].type \in {"quit", "kill"}
                                 /\ M[i].who \in Users /\ Doomed(M[i].who)

\* s drops the users of X, if any, all of them doomed or its own that have
\* not registered, and the line it has read changes nothing else.
Dropped(r, s) ==
    \E X \in SUBSET Known(s) :
       /\ \A v \in X : v \in unreg \/ Doomed(v)
       /\ srv' = [srv EXCEPT ![s] = Without(srv[s], X)]
       /\ Exited(s, X) \/ (Exited(s, {}) /\ \A v \in X : Home[v] # s)
       /\ chan' \in [Edges -> Seq(Messages)]
       /\ EndsSent(s, Parsed(r, s), chan')
       /\ \A u \in Users : Heard(u, Line(r, s)) => Doomed(u)

\* s drops the users of X, gives u the nickname the line says, and passes the
\* line on, after the KILL of whoever had the nickname.
Passed(r, s) ==
    \E u \in Users, X \in SUBSET Known(s) : LET m == Line(r, s) IN
       /\ About(u, m) /\ m.nick \in Nicks /\ u \notin X
       /\ IF m.type = "uid" THEN u \notin Known(s) ELSE u \in Known(s)
       /\ \A v \in X : v \in unreg \/ Doomed(v)
       /\ \/ srv' = [srv EXCEPT ![s] = Introduced(Without(srv[s], X), u, m.nick, m.ts)]
          \/ srv' = [srv EXCEPT ![s] = Renamed(Without(srv[s], X), u, m.nick, m.ts)]
       /\ Exited(s, X)
       /\ \/ chan' = Sent(Parsed(r, s), s, Others(s, r), <<m>>)
          \/ \E a \in Users : Doomed(a) /\
               chan' = Sent(Parsed(r, s), s, Others(s, r), <<Kill(a), m>>)

\* Adding nothing, and adding one thing after another.
LEMMA EndsNone ==
    ASSUME NEW c \in [Edges -> Seq(Messages)], NEW s PROVE EndsSent(s, c, c)
<1>1. \A e \in Edges : c[e] = c[e] \o <<>>
  OBVIOUS
<1>. SUFFICES ASSUME NEW e \in Edges
              PROVE  \E M \in Seq(Messages) :
                       /\ c[e] = c[e] \o M
                       /\ e[1] # s \/ e[2] \notin Open(s) => M = <<>>
                       /\ \A i \in 1 .. Len(M) :
                            /\ M[i].type \in {"quit", "kill"}
                            /\ M[i].who \in Users /\ Doomed(M[i].who)
  BY DEF EndsSent
<1>. WITNESS <<>> \in Seq(Messages)
<1>. QED
  BY <1>1

LEMMA EndsSend ==
    ASSUME NEW c \in [Edges -> Seq(Messages)], NEW s, NEW To,
           NEW msgs \in Seq(Messages),
           \A i \in 1 .. Len(msgs) : /\ msgs[i].type \in {"quit", "kill"}
                                     /\ msgs[i].who \in Users /\ Doomed(msgs[i].who)
    PROVE  /\ EndsSent(s, c, Sent(c, s, To, msgs))
           /\ Sent(c, s, To, msgs) \in [Edges -> Seq(Messages)]
<1>1. Sent(c, s, To, msgs) \in [Edges -> Seq(Messages)]
  BY SentType
<1>2. ASSUME NEW e \in Edges
      PROVE  \E M \in Seq(Messages) :
               /\ Sent(c, s, To, msgs)[e] = c[e] \o M
               /\ e[1] # s \/ e[2] \notin Open(s) => M = <<>>
               /\ \A i \in 1 .. Len(M) : /\ M[i].type \in {"quit", "kill"}
                                         /\ M[i].who \in Users /\ Doomed(M[i].who)
  <2>1. CASE e[1] = s /\ e[2] \in To \cap Open(s)
    <3>. WITNESS msgs \in Seq(Messages)
    <3>. QED
      BY <2>1 DEF Sent
  <2>2. CASE ~(e[1] = s /\ e[2] \in To \cap Open(s))
    <3>1. Sent(c, s, To, msgs)[e] = c[e] /\ c[e] = c[e] \o <<>>
      BY <2>2 DEF Sent
    <3>. WITNESS <<>> \in Seq(Messages)
    <3>. QED
      BY <3>1
  <2>. QED
    BY <2>1, <2>2
<1>. QED
  BY <1>1, <1>2 DEF EndsSent

LEMMA EndsTrans ==
    ASSUME NEW s, NEW c0 \in [Edges -> Seq(Messages)],
           NEW c1 \in [Edges -> Seq(Messages)], NEW c2 \in [Edges -> Seq(Messages)],
           EndsSent(s, c0, c1), EndsSent(s, c1, c2)
    PROVE  EndsSent(s, c0, c2)
<1>. DEFINE Ends1(M) == \A i \in 1 .. Len(M) :
                          /\ M[i].type \in {"quit", "kill"}
                          /\ M[i].who \in Users /\ Doomed(M[i].who)
<1>1. ASSUME NEW e \in Edges
      PROVE  \E M \in Seq(Messages) :
               /\ c2[e] = c0[e] \o M
               /\ e[1] # s \/ e[2] \notin Open(s) => M = <<>>
               /\ Ends1(M)
  <2>1. PICK M1 \in Seq(Messages) :
          /\ c1[e] = c0[e] \o M1 /\ Ends1(M1)
          /\ e[1] # s \/ e[2] \notin Open(s) => M1 = <<>>
    BY DEF EndsSent
  <2>2. PICK M2 \in Seq(Messages) :
          /\ c2[e] = c1[e] \o M2 /\ Ends1(M2)
          /\ e[1] # s \/ e[2] \notin Open(s) => M2 = <<>>
    BY DEF EndsSent
  <2>3. Ends1(M1 \o M2)
    <3>. SUFFICES ASSUME NEW i \in 1 .. Len(M1 \o M2)
                  PROVE  /\ (M1 \o M2)[i].type \in {"quit", "kill"}
                         /\ (M1 \o M2)[i].who \in Users /\ Doomed((M1 \o M2)[i].who)
      OBVIOUS
    <3>1. CASE i <= Len(M1)
      <4>1. i \in 1 .. Len(M1) /\ (M1 \o M2)[i] = M1[i]
        BY <3>1
      <4>. QED
        BY <2>1, <4>1
    <3>2. CASE ~ (i <= Len(M1))
      <4>1. i - Len(M1) \in 1 .. Len(M2) /\ (M1 \o M2)[i] = M2[i - Len(M1)]
        BY <3>2
      <4>. QED
        BY <2>2, <4>1
    <3>. QED
      BY <3>1, <3>2
  <2>. HIDE DEF Ends1
  <2>4. M1 \o M2 \in Seq(Messages) /\ c2[e] = c0[e] \o (M1 \o M2)
    <3>1. ASSUME NEW q \in Seq(Messages) PROVE (q \o M1) \o M2 = q \o (M1 \o M2)
      <4>1. /\ (q \o M1) \o M2 \in Seq(Messages) /\ q \o (M1 \o M2) \in Seq(Messages)
            /\ Len((q \o M1) \o M2) = Len(q \o (M1 \o M2))
        OBVIOUS
      <4>2. \A i \in 1 .. Len((q \o M1) \o M2) :
              ((q \o M1) \o M2)[i] = (q \o (M1 \o M2))[i]
        OBVIOUS
      <4>. QED
        BY <4>1, <4>2, SeqEqual
    <3>2. M1 \o M2 \in Seq(Messages)
      BY ConcatProperties
    <3>. QED
      BY <2>1, <2>2, <3>1, <3>2
  <2>5. M1 = <<>> /\ M2 = <<>> => M1 \o M2 = <<>>
    OBVIOUS
  <2>. QED
    BY <2>1, <2>2, <2>4, <2>3, <2>5
<1>. QED
  BY <1>1 DEF EndsSent

\* Two users with one nickname: the rules name the one that has lost.
LEMMA CollisionLost ==
    ASSUME Justified, NEW r \in Servers, NEW s \in Neighbours(r),
           <<r, s>> \in Edges, chan[<<r, s>>] \in Seq(Messages),
           chan[<<r, s>>] # <<>>, s \in Servers,
           NEW u \in Users, About(u, Line(r, s)),
           NEW a \in Known(s), a # u, srv[s].nick[a] = Line(r, s).nick
    PROVE  /\ Line(r, s).ts = srv[s].ts[a] => Lost(u) /\ Lost(a)
           /\ Loses(u, Line(r, s).ts, a, srv[s].ts[a]) => Lost(u)
           /\ Loses(a, srv[s].ts[a], u, Line(r, s).ts) => Lost(a)
<1>. DEFINE m == Line(r, s)
            c == [user |-> u, nick |-> m.nick, ts |-> m.ts]
            d == [user |-> a, nick |-> srv[s].nick[a], ts |-> srv[s].ts[a]]
<1>1. 1 \in 1 .. Len(chan[<<r, s>>])
  OBVIOUS
<1>2. c \in claims /\ d \in claims
  BY <1>1 DEF Justified, Line
<1>3. /\ c.user = u /\ d.user = a /\ c.nick = m.nick /\ d.nick = m.nick
      /\ c.ts = m.ts /\ d.ts = srv[s].ts[a]
  OBVIOUS
<1>. HIDE DEF c, d
<1>4. /\ m.ts = srv[s].ts[a] => Beaten(c, d) /\ Beaten(d, c)
      /\ Loses(u, m.ts, a, srv[s].ts[a]) => Beaten(c, d)
      /\ Loses(a, srv[s].ts[a], u, m.ts) => Beaten(d, c)
  BY <1>3 DEF Beaten, Loses
<1>. QED
  BY <1>2, <1>3, <1>4 DEF Lost

\* Dropping nobody.
LEMMA WithoutNone == \A L \in Table : Without(L, {}) = L
  BY DEF Without, Table

\* A NICK line built from what another said is that line.
LEMMA NickAgain ==
    ASSUME NEW m \in Messages, m.type = "nick"
    PROVE  Nick(m.who, m.nick, m.ts) = m
  BY DEF Messages, Nick

\* Every handler drops, passes on, or loses the users behind a lost link: one
\* step per handler.
LEMMA ParseForms ==
    ASSUME TypeOK, Routed, Fates, Justified, TS6,
           NEW r \in Servers, NEW s \in Neighbours(r), Parse(r, s),
           \A u \in Users : About(u, Line(r, s)) =>
              Doomed(u) \/ (Line(r, s).type = "nick" <=> u \in Known(s))
    PROVE  Dropped(r, s) \/ Passed(r, s) \/ RemoteSquit(r, s)
<1>. DEFINE m == Line(r, s)
            P == Parsed(r, s)
<1>0. s \in Servers /\ srv[s] \in Table /\ r # s
  BY DEF Neighbours, TypeOK
<1>1. PICK type \in {"uid", "nick", "quit", "kill", "squit"} : Arrives(r, s, type)
  BY DEF Parse, NewUser, IntroduceUser, IntroductionKillsBoth,
     IntroductionLoses, IntroductionWins, UnknownPrefix, WrongDirection,
     RemoteRename, RenameKillsBoth, RenameLoses, RenameWins, Source,
     RemoteQuit, RemoteKill, KillMisses, RemoteSquit
<1>2. /\ <<r, s>> \in Edges /\ m \in Messages /\ m.type = type
      /\ P \in [Edges -> Seq(Messages)]
  BY <1>1, ParsedType
<1>3. chan[<<r, s>>] \in Seq(Messages) /\ chan[<<r, s>>] # <<>>
      /\ 1 \in 1 .. Len(chan[<<r, s>>])
  BY <1>1, <1>2 DEF TypeOK, Arrives
<1>4. /\ type \in {"nick", "quit", "kill"} => m.who \in Users
      /\ type \in {"quit", "kill"} => Doomed(m.who)
      /\ type = "nick" => m.nick \in Nicks
      /\ type = "uid" => m.user \in Users /\ m.nick \in Nicks
  BY <1>2, <1>3, LineFields DEF Justified, Line
<1>5. /\ type = "uid" => \A u \in Users : About(u, m) <=> u = m.user
      /\ type = "nick" => \A u \in Users : About(u, m) <=> u = m.who
      /\ type # "squit" => \A u \in Users : Heard(u, m) => About(u, m)
      /\ type \in {"quit", "kill"} => \A u \in Users : ~Heard(u, m)
  BY <1>2 DEF About, Heard
<1>6. \A u \in Users : /\ Kill(u) \in Messages /\ Kill(u).type = "kill"
                       /\ Quit(u) \in Messages /\ Quit(u).type = "quit"
                       /\ Kill(u).who = u /\ Quit(u).who = u
                       /\ Ref(srv[s], u) = u
  <2>1. \A u \in Users : Kill(u) \in Messages /\ Quit(u) \in Messages
    BY LineTypes DEF Refs
  <2>. QED
    BY <2>1 DEF Kill, Quit, Ref
<1>7. ASSUME NEW a \in Holders(s, m.nick), m.nick \in Nicks
      PROVE  a \in Known(s) /\ a \in Users /\ srv[s].nick[a] = m.nick
  BY <1>7, ConstantsAssumption DEF Holders, Known
<1>8. ASSUME NEW u \in Source(r, s, "nick")
      PROVE  /\ type = "nick" /\ u = m.who /\ u \in Users /\ u \in Known(s)
             /\ About(u, m) /\ u \notin unreg
  <2>1. /\ u \in Users /\ About(u, m) /\ u \in Known(s) /\ u \notin unreg
    BY SourceAbout DEF Known
  <2>2. m.type = "nick"
    BY DEF Source, Arrives, Line
  <2>. QED
    BY <1>2, <1>5, <2>1, <2>2
<1>9. \A u \in Users, a \in Known(s) :
         About(u, m) /\ a # u /\ srv[s].nick[a] = m.nick =>
           /\ m.ts = srv[s].ts[a] => Lost(u) /\ Lost(a)
           /\ Loses(u, m.ts, a, srv[s].ts[a]) => Lost(u)
           /\ Loses(a, srv[s].ts[a], u, m.ts) => Lost(a)
  BY <1>0, <1>2, <1>3, CollisionLost
<1>10. \A u : Lost(u) => Doomed(u)
  BY DEF Doomed
<1>11. Arrives(r, s, m.type)
  BY <1>1, <1>2
<1>12. ASSUME NEW ty, Arrives(r, s, ty) PROVE type = ty
  BY <1>2, <1>12 DEF Arrives, Line
\* The lines a handler that drops users sends.
<1>13. ASSUME NEW c \in [Edges -> Seq(Messages)], NEW To, NEW a \in Users, Doomed(a),
              NEW k \in {Kill(a), Quit(a)}
       PROVE  /\ EndsSent(s, c, Sent(c, s, To, <<k>>))
              /\ Sent(c, s, To, <<k>>) \in [Edges -> Seq(Messages)]
  <2>1. /\ <<k>> \in Seq(Messages)
        /\ \A i \in 1 .. Len(<<k>>) : /\ <<k>>[i].type \in {"quit", "kill"}
                                      /\ <<k>>[i].who \in Users /\ Doomed(<<k>>[i].who)
    BY <1>6, <1>13
  <2>. QED
    BY <2>1, EndsSend
<1>14. ASSUME NEW X \in SUBSET Known(s), \A v \in X : v \in unreg \/ Doomed(v),
              srv' = [srv EXCEPT ![s] = Without(srv[s], X)],
              Exited(s, X) \/ (Exited(s, {}) /\ \A v \in X : Home[v] # s),
              NEW To, NEW a \in Users, Doomed(a), NEW k \in {Kill(a), Quit(a)},
              chan' = Sent(P, s, To, <<k>>),
              \A u \in Users : Heard(u, m) => Doomed(u)
       PROVE  Dropped(r, s)
  <2>1. /\ chan' \in [Edges -> Seq(Messages)]
        /\ EndsSent(s, P, chan')
    BY <1>2, <1>13, <1>14
  <2>. QED
    BY <1>14, <2>1 DEF Dropped
<1>15. ASSUME NEW u \in Known(s), Doomed(u), u \in Users,
              srv' = [srv EXCEPT ![s] = Without(srv[s], {u})],
              Exited(s, {u}) \/ (Exited(s, {}) /\ Home[u] # s),
              NEW To, NEW k \in {Kill(u), Quit(u)}, chan' = Sent(P, s, To, <<k>>),
              \A v \in Users : Heard(v, m) => Doomed(v)
       PROVE  Dropped(r, s)
  <2>. DEFINE X == {u}
  <2>1. /\ X \in SUBSET Known(s) /\ \A v \in X : Doomed(v)
        /\ srv' = [srv EXCEPT ![s] = Without(srv[s], X)]
        /\ Exited(s, X) \/ (Exited(s, {}) /\ \A v \in X : Home[v] # s)
    BY <1>15
  <2>. HIDE DEF X, P, m
  <2>. QED
    BY <1>14, <1>15, <2>1
<1>16. ASSUME NEW X \in SUBSET Known(s), \A v \in X : Doomed(v),
              srv' = [srv EXCEPT ![s] = Without(srv[s], X)], Exited(s, X),
              EndsSent(s, P, chan'), chan' \in [Edges -> Seq(Messages)],
              \A u \in Users : Heard(u, m) => Doomed(u)
       PROVE  Dropped(r, s)
  BY <1>16 DEF Dropped
<1>17. \A u \in Users : About(u, m) => Route[s][Home[u]] = r /\ u \notin unreg
  <2>1. \A u \in Users : About(u, Line(r, s)) =>
          Route[s][Home[u]] = r /\ Home[u] # s /\ u \notin unreg
    <3>. HIDE DEF m, P
    <3>. QED
      BY <1>1, HeadFits, Zenon
  <2>. QED
    BY <2>1
<1>18. srv' = srv => srv' = [srv EXCEPT ![s] = Without(srv[s], {})]
  <2>1. Without(srv[s], {}) = srv[s]
    BY <1>0, WithoutNone
  <2>. QED
    BY <1>0, <2>1 DEF TypeOK
<1>19. UNCHANGED <<unreg, fate>> => Exited(s, {})
  BY DEF Exited, TypeOK
<1>20. ASSUME srv' = srv, Exited(s, {}), NEW To, NEW a \in Users, Doomed(a),
              chan' = Sent(P, s, To, <<Kill(a)>>),
              \A u \in Users : Heard(u, m) => Doomed(u)
       PROVE  Dropped(r, s)
  <2>. DEFINE X == {}
  <2>1. X \in SUBSET Known(s) /\ \A v \in X : FALSE
    OBVIOUS
  <2>2. srv' = [srv EXCEPT ![s] = Without(srv[s], X)] /\ Exited(s, X)
    BY <1>18, <1>20
  <2>. HIDE DEF X, P
  <2>. QED
    BY <1>14, <1>20, <2>1, <2>2
<1>21. ASSUME chan' = P, UNCHANGED <<srv, unreg, fate>>,
              \A u \in Users : Heard(u, m) => Doomed(u)
       PROVE  Dropped(r, s)
  <2>1. EndsSent(s, P, chan') /\ chan' \in [Edges -> Seq(Messages)]
    BY <1>2, <1>21, EndsNone
  <2>. DEFINE X == {}
  <2>2. X \in SUBSET Known(s) /\ \A v \in X : FALSE
    OBVIOUS
  <2>3. srv' = [srv EXCEPT ![s] = Without(srv[s], X)] /\ Exited(s, X)
    BY <1>18, <1>19, <1>21
  <2>. HIDE DEF X
  <2>. QED
    BY <1>21, <2>1, <2>2, <2>3 DEF Dropped
<1>22. \A u \in Source(r, s, "nick") : Nick(Ref(srv[s], u), m.nick, m.ts) = m
  BY <1>2, <1>6, <1>8, NickAgain
<1>23. ASSUME NEW u \in Users, NEW X \in SUBSET Known(s), About(u, m), m.nick \in Nicks,
              u \notin X, type = "nick" <=> u \in Known(s),
              \A v \in X : v \in unreg \/ Doomed(v),
              \/ srv' = [srv EXCEPT ![s] = Introduced(Without(srv[s], X), u, m.nick, m.ts)]
              \/ srv' = [srv EXCEPT ![s] = Renamed(Without(srv[s], X), u, m.nick, m.ts)],
              Exited(s, X),
              \/ chan' = Sent(P, s, Others(s, r), <<m>>)
              \/ \E a \in Users : Doomed(a) /\
                   chan' = Sent(P, s, Others(s, r), <<Kill(a), m>>)
       PROVE  Passed(r, s)
  <2>1. IF m.type = "uid" THEN u \notin Known(s) ELSE u \in Known(s)
    BY <1>2, <1>23 DEF About
  <2>. QED
    BY <1>23, <2>1 DEF Passed
<1>. HIDE DEF P
<1>24. CASE IntroduceUser(r, s)
  <2>0. type = "uid" /\ m.user \in Users /\ About(m.user, m) /\ m.nick \in Nicks
    BY <1>4, <1>5, <1>12, <1>24 DEF IntroduceUser
  <2>1. CASE NewUser(r, s)
    <3>. DEFINE X == Holders(s, m.nick)
    <3>1. /\ srv' = [srv EXCEPT ![s] = Introduced(Without(srv[s], X), m.user, m.nick, m.ts)]
          /\ Exited(s, X) /\ X \subseteq unreg
          /\ chan' = Sent(P, s, Others(s, r), <<m>>)
      BY <1>24, <2>1 DEF IntroduceUser, Collide, P
    <3>2. X \in SUBSET Known(s) /\ m.user \notin Known(s)
      BY <1>7, <2>0, <2>1 DEF NewUser
    <3>. HIDE DEF X, m
    <3>. QED
      BY <1>23, <2>0, <3>1, <3>2
  <2>2. CASE ~NewUser(r, s)
    <3>1. /\ srv' = [srv EXCEPT ![s] = Without(srv[s], {m.user})]
          /\ chan' = Sent(P, s, up[s], <<Kill(m.user)>>)
          /\ Exited(s, {m.user})
      BY <1>24, <2>2 DEF IntroduceUser, Collide, P
    <3>2. m.user \in Known(s)
      BY <1>24, <2>2 DEF NewUser, IntroduceUser
    <3>3. Doomed(m.user)
      BY <1>2, <2>0, <3>2
    <3>4. \A v \in Users : Heard(v, m) => Doomed(v)
      BY <1>5, <2>0, <3>3
    <3>. HIDE DEF m
    <3>. QED
      BY <1>15, <2>0, <3>1, <3>2, <3>3, <3>4
  <2>. QED
    BY <2>1, <2>2
<1>25. CASE IntroductionKillsBoth(r, s)
  <2>1. PICK a \in Holders(s, m.nick) \ unreg :
           /\ m.ts = srv[s].ts[a]
           /\ srv' = [srv EXCEPT ![s] = Without(srv[s], {a})]
           /\ chan' = Sent(Sent(P, s, {r}, <<Kill(m.user)>>),
                           s, up[s], <<Kill(Ref(srv[s], a))>>)
           /\ Exited(s, {a})
    BY <1>25 DEF IntroductionKillsBoth, Collide, P
  <2>2. type = "uid" /\ m.user \notin Known(s)
    BY <1>12, <1>25 DEF IntroductionKillsBoth, NewUser
  <2>3. /\ a \in Known(s) /\ a \in Users /\ srv[s].nick[a] = m.nick /\ a # m.user
        /\ m.user \in Users /\ About(m.user, m)
    BY <1>4, <1>5, <1>7, <2>1, <2>2
  <2>4. Doomed(a) /\ Doomed(m.user)
    BY <1>9, <1>10, <2>1, <2>3
  <2>. DEFINE c1 == Sent(P, s, {r}, <<Kill(m.user)>>)
  <2>5. EndsSent(s, P, c1) /\ c1 \in [Edges -> Seq(Messages)]
    BY <1>2, <1>13, <2>3, <2>4
  <2>6. chan' = Sent(c1, s, up[s], <<Kill(a)>>)
    BY <1>6, <2>1, <2>3
  <2>. HIDE DEF c1
  <2>7. EndsSent(s, c1, chan') /\ chan' \in [Edges -> Seq(Messages)]
    BY <1>13, <2>3, <2>4, <2>5, <2>6
  <2>8. EndsSent(s, P, chan')
    BY <1>2, <2>5, <2>7, EndsTrans
  <2>9. {a} \in SUBSET Known(s) /\ \A v \in {a} : Doomed(v)
    BY <2>3, <2>4
  <2>10. \A u \in Users : Heard(u, m) => Doomed(u)
    BY <1>5, <2>2, <2>4
  <2>. HIDE DEF m
  <2>. QED
    BY <1>16, <2>1, <2>7, <2>8, <2>9, <2>10
<1>26. CASE IntroductionLoses(r, s)
  <2>1. PICK a \in Holders(s, m.nick) \ unreg : Loses(m.user, m.ts, a, srv[s].ts[a])
    BY <1>26 DEF IntroductionLoses
  <2>2. /\ type = "uid" /\ m.user \notin Known(s)
        /\ chan' = Sent(P, s, {r}, <<Kill(m.user)>>) /\ srv' = srv /\ Exited(s, {})
    BY <1>12, <1>26 DEF IntroductionLoses, NewUser, Collide, P
  <2>3. /\ a \in Known(s) /\ a \in Users /\ srv[s].nick[a] = m.nick /\ a # m.user
        /\ m.user \in Users /\ About(m.user, m)
    BY <1>4, <1>5, <1>7, <2>1, <2>2
  <2>4. Doomed(m.user)
    BY <1>9, <1>10, <2>1, <2>3
  <2>. QED
    BY <1>5, <1>20, <2>2, <2>3, <2>4
<1>27. CASE IntroductionWins(r, s)
  <2>1. PICK a \in Holders(s, m.nick) \ unreg :
           /\ Loses(a, srv[s].ts[a], m.user, m.ts)
           /\ srv' = [srv EXCEPT ![s] = Introduced(Without(srv[s], {a}),
                                                   m.user, m.nick, m.ts)]
           /\ chan' = Sent(P, s, Others(s, r), <<Kill(Ref(srv[s], a)), m>>)
           /\ Exited(s, {a})
    BY <1>27 DEF IntroductionWins, Collide, P
  <2>2. type = "uid" /\ m.user \notin Known(s)
    BY <1>12, <1>27 DEF IntroductionWins, NewUser
  <2>3. /\ a \in Known(s) /\ a \in Users /\ srv[s].nick[a] = m.nick /\ a # m.user
        /\ m.user \in Users /\ About(m.user, m) /\ m.nick \in Nicks
    BY <1>4, <1>5, <1>7, <2>1, <2>2
  <2>4. Doomed(a)
    BY <1>9, <1>10, <2>1, <2>3
  <2>5. /\ {a} \in SUBSET Known(s) /\ m.user \notin {a} /\ \A v \in {a} : Doomed(v)
        /\ chan' = Sent(P, s, Others(s, r), <<Kill(a), m>>)
    BY <1>6, <2>1, <2>3, <2>4
  <2>. HIDE DEF m
  <2>. QED
    BY <1>23, <2>1, <2>2, <2>3, <2>4, <2>5
<1>28. CASE UnknownPrefix(r, s)
  <2>1. /\ srv' = srv /\ chan' = Sent(P, s, {r}, <<Kill(m.who)>>)
        /\ UNCHANGED <<unreg, fate>> /\ type \in {"nick", "quit"}
        /\ Found(s, m.who) = {}
    BY <1>12, <1>28 DEF UnknownPrefix, P
  <2>2. Doomed(m.who)
    <3>1. CASE type = "quit"
      BY <1>4, <3>1
    <3>2. CASE type = "nick"
      <4>1. About(m.who, m) /\ m.who \in Users
        BY <1>4, <1>5, <3>2
      <4>2. m.who \notin unreg
        BY <1>17, <4>1
      <4>3. m.who \notin Known(s)
        BY <2>1, <4>1, <4>2 DEF Found, Ref
      <4>. QED
        BY <1>2, <3>2, <4>1, <4>3
    <3>. QED
      BY <2>1, <3>1, <3>2
  <2>3. \A u \in Users : Heard(u, m) => Doomed(u)
    BY <1>5, <2>1, <2>2
  <2>. QED
    BY <1>4, <1>19, <1>20, <2>1, <2>2, <2>3
<1>29. CASE WrongDirection(r, s)
  <2>1. /\ chan' = P /\ UNCHANGED <<srv, unreg, fate>> /\ type \in {"nick", "quit"}
    BY <1>12, <1>29 DEF WrongDirection, P
  <2>2. PICK u \in Found(s, m.who) : Route[s][Home[u]] # r
    BY <1>29 DEF WrongDirection, From
  <2>3. u = m.who /\ u \in Users
    BY DEF Found, Ref, Known
  <2>4. ASSUME About(u, m) PROVE FALSE
    <3>1. Route[s][Home[u]] = r
      BY <1>17, <2>3, <2>4
    <3>. QED
      BY <2>2, <3>1
  <2>5. \A v \in Users : Heard(v, m) => Doomed(v)
    BY <1>5, <2>1, <2>3, <2>4
  <2>. QED
    BY <1>21, <2>1, <2>5
<1>30. CASE RemoteRename(r, s)
  <2>. DEFINE X == Holders(s, m.nick)
  <2>1. PICK u \in Source(r, s, "nick") :
           /\ srv' = [srv EXCEPT ![s] = Renamed(Without(srv[s], X), u, m.nick, m.ts)]
           /\ chan' = Sent(P, s, Others(s, r),
                           <<Nick(Ref(srv[s], u), m.nick, m.ts)>>)
           /\ X \subseteq unreg /\ Exited(s, X)
    BY <1>30 DEF RemoteRename, Collide, P
  <2>2. /\ type = "nick" /\ u \in Users /\ u \in Known(s) /\ About(u, m)
        /\ u \notin unreg /\ m.nick \in Nicks
    BY <1>4, <1>8
  <2>3. X \in SUBSET Known(s) /\ u \notin X
    BY <1>7, <2>1, <2>2
  <2>4. chan' = Sent(P, s, Others(s, r), <<m>>)
    BY <1>22, <2>1
  <2>. HIDE DEF X, m
  <2>. QED
    BY <1>23, <2>1, <2>2, <2>3, <2>4
<1>31. CASE RenameKillsBoth(r, s)
  <2>1. PICK u \in Source(r, s, "nick"), a \in Holders(s, m.nick) \ unreg :
           /\ a # u /\ m.ts = srv[s].ts[a]
           /\ srv' = [srv EXCEPT ![s] = Without(srv[s], {u, a})]
           /\ chan' = Sent(P, s, up[s],
                           <<Kill(Ref(srv[s], u)), Kill(Ref(srv[s], a))>>)
           /\ Exited(s, {u, a})
    BY <1>31 DEF RenameKillsBoth, Collide, P
  <2>2. /\ type = "nick" /\ u \in Users /\ u \in Known(s) /\ About(u, m) /\ u = m.who
        /\ m.nick \in Nicks
    BY <1>4, <1>8
  <2>3. a \in Known(s) /\ a \in Users /\ srv[s].nick[a] = m.nick
    BY <1>7, <2>2
  <2>4. Doomed(u) /\ Doomed(a)
    BY <1>9, <1>10, <2>1, <2>2, <2>3
  <2>. DEFINE msgs == <<Kill(u), Kill(a)>>
  <2>5. /\ msgs \in Seq(Messages)
        /\ \A i \in 1 .. Len(msgs) : /\ msgs[i].type \in {"quit", "kill"}
                                       /\ msgs[i].who \in Users /\ Doomed(msgs[i].who)
    BY <1>6, <2>2, <2>3, <2>4
  <2>6. chan' = Sent(P, s, up[s], msgs)
    BY <1>6, <2>1, <2>2, <2>3
  <2>. HIDE DEF msgs
  <2>7. EndsSent(s, P, chan') /\ chan' \in [Edges -> Seq(Messages)]
    BY <1>2, <2>5, <2>6, EndsSend
  <2>8. {u, a} \in SUBSET Known(s) /\ \A v \in {u, a} : Doomed(v)
    BY <2>2, <2>3, <2>4
  <2>9. \A v \in Users : Heard(v, m) => Doomed(v)
    BY <1>5, <2>2, <2>4
  <2>. HIDE DEF m
  <2>. QED
    BY <1>16, <2>1, <2>7, <2>8, <2>9
<1>32. CASE RenameWins(r, s)
  <2>1. PICK u \in Source(r, s, "nick"), a \in Holders(s, m.nick) \ unreg :
           /\ a # u /\ Loses(a, srv[s].ts[a], u, m.ts)
           /\ srv' = [srv EXCEPT
                        ![s] = Renamed(Without(srv[s], {a}), u, m.nick, m.ts)]
           /\ chan' = Sent(P, s, Others(s, r),
                           <<Kill(Ref(srv[s], a)),
                             Nick(Ref(srv[s], u), m.nick, m.ts)>>)
           /\ Exited(s, {a})
    BY <1>32 DEF RenameWins, Collide, P
  <2>2. /\ type = "nick" /\ u \in Users /\ u \in Known(s) /\ About(u, m)
        /\ m.nick \in Nicks
    BY <1>4, <1>8
  <2>3. a \in Known(s) /\ a \in Users /\ srv[s].nick[a] = m.nick
    BY <1>7, <2>2
  <2>4. Doomed(a)
    BY <1>9, <1>10, <2>1, <2>2, <2>3
  <2>5. /\ {a} \in SUBSET Known(s) /\ u \notin {a} /\ \A v \in {a} : Doomed(v)
        /\ chan' = Sent(P, s, Others(s, r), <<Kill(a), m>>)
    BY <1>6, <1>22, <2>1, <2>3, <2>4
  <2>. HIDE DEF m
  <2>. QED
    BY <1>23, <2>1, <2>2, <2>3, <2>4, <2>5
<1>33. CASE RenameLoses(r, s)
  <2>1. PICK u \in Source(r, s, "nick"), a \in Holders(s, m.nick) \ unreg :
           /\ a # u /\ Loses(u, m.ts, a, srv[s].ts[a])
           /\ srv' = [srv EXCEPT ![s] = Without(srv[s], {u})]
           /\ chan' = Sent(P, s, Others(s, r), <<Kill(Ref(srv[s], u))>>)
           /\ Exited(s, {u})
    BY <1>33 DEF RenameLoses, Collide, P
  <2>2. /\ type = "nick" /\ u \in Users /\ u \in Known(s) /\ About(u, m) /\ u = m.who
        /\ m.nick \in Nicks
    BY <1>4, <1>8
  <2>3. a \in Known(s) /\ a \in Users /\ srv[s].nick[a] = m.nick
    BY <1>7, <2>2
  <2>4. Doomed(u)
    BY <1>9, <1>10, <2>1, <2>2, <2>3
  <2>5. {u} \in SUBSET Known(s) /\ \A v \in Users : Heard(v, m) => Doomed(v)
    BY <1>5, <2>2, <2>4
  <2>6. chan' = Sent(P, s, Others(s, r), <<Kill(u)>>)
    BY <1>6, <2>1, <2>2
  <2>. HIDE DEF m
  <2>. QED
    BY <1>15, <2>1, <2>2, <2>4, <2>5, <2>6
<1>34. CASE RemoteQuit(r, s)
  <2>1. PICK u \in Source(r, s, "quit") :
           /\ srv' = [srv EXCEPT ![s] = Without(srv[s], {u})]
           /\ chan' = Sent(P, s, up[s], <<Quit(Ref(srv[s], u))>>)
           /\ UNCHANGED <<unreg, fate>>
    BY <1>34 DEF RemoteQuit, P
  <2>2. /\ type = "quit" /\ u \in Users /\ u \in Known(s) /\ u = m.who
        /\ Route[s][Home[u]] = r
    BY <1>12 DEF Source, Found, From, Ref
  <2>3. Doomed(u) /\ \A v \in Users : ~Heard(v, m)
    BY <1>4, <1>5, <2>2
  <2>4. Home[u] # s
    BY <1>0, <2>2, TreeAssumption
  <2>5. chan' = Sent(P, s, up[s], <<Quit(u)>>)
    BY <1>6, <2>1, <2>2
  <2>. HIDE DEF m
  <2>. QED
    BY <1>19, <1>15, <2>1, <2>2, <2>3, <2>4, <2>5
<1>35. CASE RemoteKill(r, s)
  <2>1. PICK u \in Victims(s, m.who) :
           /\ srv' = [srv EXCEPT ![s] = Without(srv[s], {u})]
           /\ chan' = Sent(P, s, Others(s, r), <<Kill(Ref(srv[s], u))>>)
           /\ Exited(s, {u})
    BY <1>35 DEF RemoteKill, Collide, P
  <2>2. type = "kill" /\ m.who \in Users /\ Doomed(m.who)
    BY <1>4, <1>12, <1>35 DEF RemoteKill
  <2>3. u \in Found(s, m.who)
    BY <2>1, <2>2, ConstantsAssumption DEF Victims
  <2>4. u = m.who /\ u \in Known(s)
    BY <2>3 DEF Found, Ref
  <2>5. \A v \in Users : Heard(v, m) => Doomed(v)
    BY <1>5, <2>2
  <2>6. chan' = Sent(P, s, Others(s, r), <<Kill(u)>>) /\ u \in Users /\ Doomed(u)
    BY <1>6, <2>1, <2>2, <2>4
  <2>. HIDE DEF m
  <2>. QED
    BY <1>15, <2>1, <2>4, <2>5, <2>6
<1>36. CASE KillMisses(r, s)
  <2>1. type = "kill" /\ chan' = P /\ UNCHANGED <<srv, unreg, fate>>
    BY <1>12, <1>36 DEF KillMisses, P
  <2>. QED
    BY <1>5, <1>21, <2>1
<1>. QED
  BY <1>24, <1>25, <1>26, <1>27, <1>28, <1>29, <1>30, <1>31, <1>32, <1>33,
     <1>34, <1>35, <1>36 DEF Parse

\* Exits doom nobody less.
LEMMA ExitedDoomed ==
    ASSUME NEW s, NEW X, Exited(s, X), UNCHANGED claims, NEW u \in Users, Doomed(u)
    PROVE  Dooms(u)
<1>1. fate[u] # "connected" => fate'[u] # "connected"
  BY DEF Exited
<1>. QED
  BY <1>1 DEF Doomed, Dooms, Lost

\* What exit_one_client does to each user.
LEMMA WithoutNick ==
    ASSUME NEW L, NEW X, NEW u \in Users
    PROVE  Without(L, X).nick[u] = IF u \in X THEN NoNick ELSE L.nick[u]
  BY DEF Without

\* The effects of a line whose handler drops users.
LEMMA DroppedEffects ==
    ASSUME TypeOK, Routed, Fates, NEW r \in Servers, NEW s \in Neighbours(r),
           NEW type, Arrives(r, s, type), UNCHANGED <<clock, up, claims>>,
           Dropped(r, s)
    PROVE  Effects
<1>0. s \in Servers /\ srv[s] \in Table /\ r # s /\ <<r, s>> \in Edges
      /\ Parsed(r, s) \in [Edges -> Seq(Messages)]
  BY ParsedType DEF Neighbours, TypeOK
<1>1. PICK X \in SUBSET Known(s) :
       /\ \A v \in X : v \in unreg \/ Doomed(v)
       /\ srv' = [srv EXCEPT ![s] = Without(srv[s], X)]
       /\ Exited(s, X) \/ (Exited(s, {}) /\ \A v \in X : Home[v] # s)
       /\ EndsSent(s, Parsed(r, s), chan')
  BY DEF Dropped
<1>. DEFINE L == Without(srv[s], X)
<1>2. \A u \in Users : L.nick[u] = IF u \in X THEN NoNick ELSE srv[s].nick[u]
  BY WithoutNick
<1>3. \A u \in Users :
             \/ L.nick[u] = NoNick
             \/ L.nick[u] = srv[s].nick[u] /\ L.ts[u] = srv[s].ts[u]
  BY <1>0, WithoutMoves
<1>4. Honest(Parsed(r, s), chan')
  <2>1. ASSUME NEW u \in Users, Doomed(u) PROVE Dooms(u)
    BY <1>1, <2>1, ExitedDoomed
  <2>. SUFFICES ASSUME NEW e \in Edges
                PROVE  \E M \in Seq(Messages) :
                         /\ chan'[e] = Parsed(r, s)[e] \o M
                         /\ \A i \in 1 .. Len(M) : Says(e, M[i])
    BY DEF Honest
  <2>2. PICK M \in Seq(Messages) :
          /\ chan'[e] = Parsed(r, s)[e] \o M
          /\ \A i \in 1 .. Len(M) : /\ M[i].type \in {"quit", "kill"}
                                    /\ M[i].who \in Users /\ Doomed(M[i].who)
    BY <1>1 DEF EndsSent
  <2>3. \A i \in 1 .. Len(M) : Says(e, M[i])
    BY <2>1, <2>2 DEF Says, Fits, About
  <2>. QED
    BY <2>2, <2>3
<1>5. chan'[<<r, s>>] = Tail(chan[<<r, s>>])
  <2>. DEFINE e == <<r, s>>
  <2>1. e \in Edges /\ e[1] # s
    BY <1>0
  <2>2. PICK M \in Seq(Messages) : chan'[e] = Parsed(r, s)[e] \o M /\ M = <<>>
    BY <1>1, <2>1 DEF EndsSent
  <2>3. Parsed(r, s)[e] \in Seq(Messages) /\ Parsed(r, s)[e] = Tail(chan[e])
    BY <1>0 DEF Parsed, TypeOK
  <2>. QED
    BY <2>2, <2>3
<1>6. PICK Y : /\ Y \subseteq X /\ Exited(s, Y)
               /\ \A u \in X \ Y : Home[u] # s
  <2>1. CASE Exited(s, X)
    <3>1. X \subseteq X /\ \A u \in X \ X : Home[u] # s
      OBVIOUS
    <3>. QED
      BY <2>1, <3>1
  <2>2. CASE Exited(s, {}) /\ \A v \in X : Home[v] # s
    <3>1. {} \subseteq X /\ \A u \in X \ {} : Home[u] # s
      BY <2>2
    <3>. QED
      BY <2>2, <3>1
  <2>. QED
    BY <1>1, <2>1, <2>2
<1>7. /\ Y \subseteq Known(s)
      /\ \A u \in Y : L.nick[u] = NoNick /\ (u \in unreg \/ Doomed(u))
      /\ \A u \in Known(s) \ Y : Home[u] = s => L.nick[u] # NoNick
      /\ srv' = [srv EXCEPT ![s] = L]
  BY <1>1, <1>2, <1>6 DEF Known
<1>. HIDE DEF L
<1>. QED
  BY <1>3, <1>4, <1>5, <1>6, <1>7, ParsedEffects

\* The effects of a line passed on.
LEMMA PassedEffects ==
    ASSUME TypeOK, Routed, Fates, NEW r \in Servers, NEW s \in Neighbours(r),
           NEW type, Arrives(r, s, type), UNCHANGED <<clock, up, claims>>,
           Line(r, s).type \in {"nick", "quit", "kill"} => Line(r, s).who \in Users,
           Passed(r, s)
    PROVE  Effects
<1>. DEFINE m == Line(r, s)
            P == Parsed(r, s)
<1>0. s \in Servers /\ srv[s] \in Table /\ r # s /\ <<r, s>> \in Edges
      /\ P \in [Edges -> Seq(Messages)] /\ m \in Messages
      /\ P[<<r, s>>] = Tail(chan[<<r, s>>])
  <2>1. s \in Servers /\ srv[s] \in Table /\ r # s /\ <<r, s>> \in Edges
        /\ P \in [Edges -> Seq(Messages)] /\ m \in Messages
    BY ParsedType DEF Neighbours, TypeOK
  <2>. QED
    BY <2>1 DEF Parsed, TypeOK
<1>1. PICK u \in Users, X \in SUBSET Known(s) :
       /\ About(u, m) /\ m.nick \in Nicks /\ u \notin X
       /\ \A v \in X : v \in unreg \/ Doomed(v)
       /\ \/ srv' = [srv EXCEPT ![s] = Introduced(Without(srv[s], X), u, m.nick, m.ts)]
          \/ srv' = [srv EXCEPT ![s] = Renamed(Without(srv[s], X), u, m.nick, m.ts)]
       /\ Exited(s, X)
       /\ \/ chan' = Sent(P, s, Others(s, r), <<m>>)
          \/ \E a \in Users : Doomed(a) /\
               chan' = Sent(P, s, Others(s, r), <<Kill(a), m>>)
  BY DEF Passed
<1>. DEFINE W == Without(srv[s], X)
<1>2. PICK L : /\ L = Introduced(W, u, m.nick, m.ts) \/ L = Renamed(W, u, m.nick, m.ts)
               /\ srv' = [srv EXCEPT ![s] = L]
  BY <1>1
<1>3. /\ W \in Table /\ \A v \in Users : W.nick[v] = IF v \in X THEN NoNick ELSE srv[s].nick[v]
      /\ \A v \in Users : \/ W.nick[v] = NoNick
                          \/ W.nick[v] = srv[s].nick[v] /\ W.ts[v] = srv[s].ts[v]
  BY <1>0, WithoutType, WithoutNick, WithoutMoves
<1>. HIDE DEF W, P
<1>4. /\ \A v \in Users : v # u => L.nick[v] = W.nick[v] /\ L.ts[v] = W.ts[v]
      /\ L.nick[u] = m.nick /\ L.ts[u] = m.ts /\ m.nick # NoNick
  BY <1>1, <1>2, <1>3, GivenMoves, ConstantsAssumption
<1>5. srv'[s] = L
  BY <1>0, <1>2 DEF TypeOK
<1>6. u \notin unreg /\ u \notin unreg'
  BY <1>1, HeadFits DEF Exited
<1>7. ASSUME NEW t \in Others(s, r) PROVE Says(<<s, t>>, m)
  <2>. DEFINE e == <<s, t>>
  <2>1. e[1] = s /\ Fits(e, m)
    BY <1>7, RelayedFits
  <2>2. \A v \in Users : About(v, m) => v = u
    BY <1>1 DEF About
  <2>3. m.type \notin {"quit", "kill"}
    BY <1>1 DEF About
  <2>. HIDE DEF e, m
  <2>4. Says(e, m)
    BY <1>4, <1>5, <1>6, <2>1, <2>2, <2>3 DEF Says, m
  <2>. QED
    BY <2>4 DEF e, m
<1>8. ASSUME NEW a \in Users, Doomed(a), NEW e PROVE Says(e, Kill(a))
  <2>1. Dooms(a)
    BY <1>1, <1>8, ExitedDoomed
  <2>. QED
    BY <1>8, <2>1 DEF Says, Fits, About, Kill
<1>. HIDE DEF m
<1>9. PICK msgs \in Seq(Messages) :
        /\ chan' = Sent(P, s, Others(s, r), msgs)
        /\ \A i \in 1 .. Len(msgs) :
             msgs[i] = m \/ \E a \in Users : Doomed(a) /\ msgs[i] = Kill(a)
  <2>1. CASE chan' = Sent(P, s, Others(s, r), <<m>>)
    <3>1. <<m>> \in Seq(Messages) /\ \A i \in 1 .. Len(<<m>>) : <<m>>[i] = m
      BY <1>0
    <3>. QED
      BY <2>1, <3>1
  <2>2. ASSUME NEW a \in Users, Doomed(a),
               chan' = Sent(P, s, Others(s, r), <<Kill(a), m>>)
        PROVE  \E msgs \in Seq(Messages) :
                 /\ chan' = Sent(P, s, Others(s, r), msgs)
                 /\ \A i \in 1 .. Len(msgs) :
                      msgs[i] = m \/ \E b \in Users : Doomed(b) /\ msgs[i] = Kill(b)
    <3>1. Kill(a) \in Messages
      BY LineTypes DEF Refs
    <3>2. /\ <<Kill(a), m>> \in Seq(Messages)
          /\ \A i \in 1 .. Len(<<Kill(a), m>>) :
               <<Kill(a), m>>[i] = m \/ <<Kill(a), m>>[i] = Kill(a)
      BY <1>0, <3>1
    <3>. QED
      BY <2>2, <3>2
  <2>. QED
    BY <1>1, <2>1, <2>2
<1>10. Honest(P, chan')
  <2>1. \A i \in 1 .. Len(msgs), t \in Others(s, r) \cap Open(s) :
           <<s, t>> \in Edges => Says(<<s, t>>, msgs[i])
    <3>1. \A i \in 1 .. Len(msgs), t \in Others(s, r) : Says(<<s, t>>, msgs[i])
      BY <1>7, <1>8, <1>9 DEF m
    <3>. QED
      BY <3>1
  <2>. QED
    BY <1>0, <1>9, <2>1, HonestSend
<1>11. chan'[<<r, s>>] = Tail(chan[<<r, s>>])
  <2>1. Sent(P, s, Others(s, r), msgs)[<<r, s>>] = P[<<r, s>>]
    BY <1>0 DEF Sent
  <2>. QED
    BY <1>0, <1>9, <2>1
<1>12. /\ \A v \in X : L.nick[v] = NoNick /\ (v \in unreg \/ Doomed(v))
       /\ X \subseteq Known(s)
       /\ \A v \in Known(s) \ X : Home[v] = s => L.nick[v] # NoNick
  <2>1. \A v \in Users : v # u => L.nick[v] = IF v \in X THEN NoNick ELSE srv[s].nick[v]
    BY <1>3, <1>4
  <2>. QED
    BY <1>1, <1>4, <2>1 DEF Known
<1>13. \A v \in Users :
             \/ L.nick[v] = NoNick
             \/ L.nick[v] = srv[s].nick[v] /\ L.ts[v] = srv[s].ts[v]
             \/ /\ About(v, Line(r, s))
                /\ L.nick[v] = Line(r, s).nick /\ L.ts[v] = Line(r, s).ts
  BY <1>1, <1>3, <1>4 DEF m
<1>. QED
  BY <1>1, <1>2, <1>10, <1>11, <1>12, <1>13, ParsedEffects DEF P

\* The effects of a SQUIT.
LEMMA SquitEffects ==
    ASSUME TypeOK, Routed, Fates, NEW r \in Servers, NEW s \in Neighbours(r),
           RemoteSquit(r, s)
    PROVE  Effects
<1>. DEFINE m == Line(r, s)
            P == Parsed(r, s)
            X == {u \in Known(s) : Home[u] \in Behind(m.edge[1], m.edge[2])}
            L == Without(srv[s], X)
<1>1. /\ Arrives(r, s, "squit")
      /\ srv' = [srv EXCEPT ![s] = L]
      /\ chan' = Sent(P, s, Others(s, r), <<m>>)
      /\ UNCHANGED <<unreg, fate, clock, up, claims>>
  BY DEF RemoteSquit
<1>2. s \in Servers /\ srv[s] \in Table /\ r # s /\ <<r, s>> \in Edges
      /\ P \in [Edges -> Seq(Messages)] /\ m \in Messages /\ m.type = "squit"
      /\ P[<<r, s>>] = Tail(chan[<<r, s>>])
  <2>1. s \in Servers /\ srv[s] \in Table /\ r # s /\ <<r, s>> \in Edges
        /\ P \in [Edges -> Seq(Messages)] /\ m \in Messages /\ m.type = "squit"
    BY <1>1, ParsedType DEF Neighbours, TypeOK
  <2>. QED
    BY <2>1 DEF Parsed, TypeOK
<1>3. Exited(s, {})
  BY <1>1 DEF Exited, TypeOK
<1>4. \A u \in X : Home[u] # s
  <2>. DEFINE e == <<r, s>>
  <2>1. Fits(e, m) /\ e[1] = r /\ e[2] = s
    BY <1>1, HeadFits
  <2>2. Behind(m.edge[1], m.edge[2]) \subseteq Behind(s, r)
    BY <1>2, <2>1 DEF Fits
  <2>3. s \notin Behind(s, r)
    BY <1>2, TreeAssumption DEF Behind
  <2>. QED
    BY <2>2, <2>3
<1>5. /\ \A u \in Users : L.nick[u] = IF u \in X THEN NoNick ELSE srv[s].nick[u]
      /\ \A u \in Users : \/ L.nick[u] = NoNick
                          \/ L.nick[u] = srv[s].nick[u] /\ L.ts[u] = srv[s].ts[u]
  BY <1>2, WithoutNick, WithoutMoves
<1>. HIDE DEF P, X, L
<1>6. Honest(P, chan')
  <2>. DEFINE msgs == <<m>>
  <2>1. msgs \in Seq(Messages) /\ \A i \in 1 .. Len(msgs) : msgs[i] = m
    BY <1>2
  <2>. HIDE DEF msgs, m
  <2>2. \A t \in Others(s, r) : Fits(<<s, t>>, m)
    BY <1>1, RelayedFits DEF m
  <2>3. \A u \in Users : ~About(u, m)
    BY <1>2 DEF About
  <2>4. \A t \in Others(s, r) : Says(<<s, t>>, m)
    BY <1>2, <2>2, <2>3 DEF Says
  <2>5. Honest(P, Sent(P, s, Others(s, r), msgs))
    BY <1>2, <2>1, <2>4, HonestSend
  <2>. QED
    BY <1>1, <2>5 DEF msgs
<1>7. chan'[<<r, s>>] = Tail(chan[<<r, s>>])
  <2>. DEFINE msgs == <<m>>
  <2>1. Sent(P, s, Others(s, r), msgs)[<<r, s>>] = P[<<r, s>>]
    <3>. HIDE DEF msgs
    <3>. QED
      BY <1>2 DEF Sent
  <2>. QED
    BY <1>2, <1>1, <2>1
<1>8. PICK Y : Y = {}
  OBVIOUS
<1>9. /\ Exited(s, Y) /\ Y \subseteq Known(s)
      /\ \A u \in Y : L.nick[u] = NoNick /\ (u \in unreg \/ Doomed(u))
      /\ \A u \in Known(s) \ Y : Home[u] = s => L.nick[u] # NoNick
  BY <1>3, <1>4, <1>5, <1>8 DEF Known
<1>. HIDE DEF m
<1>10. \A u \in Users :
             \/ L.nick[u] = NoNick
             \/ L.nick[u] = srv[s].nick[u] /\ L.ts[u] = srv[s].ts[u]
             \/ /\ About(u, Line(r, s))
                /\ L.nick[u] = Line(r, s).nick /\ L.ts[u] = Line(r, s).ts
  BY <1>5
<1>. QED
  BY <1>1, <1>6, <1>7, <1>9, <1>10, ParsedEffects DEF P

\* Nothing but the tables, the local users and the links changes when a line
\* is parsed.
LEMMA ParseLeaves ==
    ASSUME NEW r, NEW s, Parse(r, s)
    PROVE  /\ UNCHANGED <<clock, up, claims>>
           /\ \E type \in {"uid", "nick", "quit", "kill", "squit"} : Arrives(r, s, type)
<1>1. UNCHANGED <<clock, up, claims>>
  BY DEF Parse, Collide, IntroduceUser, IntroductionKillsBoth,
     IntroductionLoses, IntroductionWins, UnknownPrefix, WrongDirection,
     RemoteRename, RenameKillsBoth, RenameLoses, RenameWins,
     RemoteQuit, RemoteKill, KillMisses, RemoteSquit
<1>2. \E type \in {"uid", "nick", "quit", "kill", "squit"} : Arrives(r, s, type)
  BY DEF Parse, NewUser, IntroduceUser, IntroductionKillsBoth,
     IntroductionLoses, IntroductionWins, UnknownPrefix, WrongDirection,
     RemoteRename, RenameKillsBoth, RenameLoses, RenameWins, Source,
     RemoteQuit, RemoteKill, KillMisses, RemoteSquit
<1>. QED
  BY <1>1, <1>2

\* A server reaches its own users through nobody.
LEMMA HomeAway ==
    ASSUME TypeOK, Routed, NEW u \in Users, NEW t \in up[Home[u]]
    PROVE  Away(u, <<Home[u], t>>)
<1>1. Home[u] \in Servers /\ Route[Home[u]][Home[u]] = Home[u]
  BY ConstantsAssumption, TreeAssumption
<1>2. t \in Neighbours(Home[u]) /\ t # Home[u]
  BY <1>1 DEF Routed, Neighbours
<1>. QED
  BY <1>1, <1>2, AwayFrom

\* A client that has not registered is connected, and known to its server only.
LEMMA UnregLocal ==
    ASSUME Fates, NEW v \in Users, v \in unreg
    PROVE  fate[v] = "connected" /\ \A x \in Servers : v \in Known(x) => Home[v] = x
<1>1. fate[v] = "connected"
  BY DEF Fates
<1>. QED
  BY <1>1 DEF Fates, Known

\* The command of a local client claims a nickname, or leaves the clocks and
\* the claims as they are.
LEMMA CommandClock ==
    ASSUME TypeOK, NEW u \in Users, NEW n, NEW t, t \in TSs,
           SetInitialNick(u, n, t) \/ ChangeNick(u, n, t)
    PROVE  /\ clock'[Home[u]] = t /\ UNCHANGED up
           /\ \A x \in Servers : clock[x] <= clock'[x]
           /\ claims \subseteq claims'
           /\ [user |-> u, nick |-> n, ts |-> t] \in claims'
<1>1. /\ Claim(u, n, t) /\ UNCHANGED up
  BY DEF SetInitialNick, ChangeNick
<1>2. Home[u] \in Servers /\ \A x \in Servers : clock[x] \in Nat
  BY ConstantsAssumption DEF TypeOK, TSs
<1>3. t \in Nat /\ clock[Home[u]] <= t /\ clock' = [clock EXCEPT ![Home[u]] = t]
  BY <1>1, <1>2 DEF Claim, TSs
<1>4. clock'[Home[u]] = t /\ \A x \in Servers \ {Home[u]} : clock'[x] = clock[x]
  BY <1>2, <1>3 DEF TypeOK
<1>. QED
  BY <1>1, <1>2, <1>3, <1>4 DEF Claim

\* The effects of a command, from what it does to the table and to the links.
LEMMA LocalEffects ==
    ASSUME TypeOK, Routed, NEW u \in Users, UNCHANGED up,
           \A x \in Servers : clock[x] <= clock'[x],
           claims \subseteq claims',
           NEW L, srv' = [srv EXCEPT ![Home[u]] = L], Honest(chan, chan'),
           \A v \in Users :
             \/ L.nick[v] = NoNick
             \/ L.nick[v] = srv[Home[u]].nick[v] /\ L.ts[v] = srv[Home[u]].ts[v]
             \/ /\ v = u /\ L.ts[v] = clock'[Home[u]]
                /\ [user |-> v, nick |-> L.nick[v], ts |-> L.ts[v]] \in claims',
           \A v \in Users : Ends(v)
    PROVE  Effects
<1>. DEFINE s == Home[u]
<1>1. s \in Servers /\ chan \in [Edges -> Seq(Messages)]
  BY ConstantsAssumption DEF TypeOK
<1>2. srv'[s] = L /\ \A x \in Servers \ {s} : srv'[x] = srv[x]
  BY <1>1 DEF TypeOK
<1>3. \A v \in Users, x \in Servers : Moved(v, x)
  BY <1>2 DEF Moved
<1>4. \A e \in Edges : Left(e, chan[e])
  BY DEF Left
<1>5. \A x \in Servers :
         /\ up'[x] \subseteq Neighbours(x)
         /\ \A v \in Users :
              srv'[x].nick[v] # NoNick /\ Route[x][Home[v]] \in up[x]
                => Route[x][Home[v]] \in up'[x]
  BY DEF Routed
<1>. QED
  BY <1>1, <1>3, <1>4, <1>5 DEF Effects

\* What a client's server tells the others of a client is true.
LEMMA LocalHonest ==
    ASSUME TypeOK, Routed, NEW u \in Users,
           NEW m \in Messages, m.type # "squit",
           \A v \in Users : About(v, m) =>
              /\ v = u /\ u \notin unreg'
              /\ srv'[Home[u]].nick[u] = m.nick /\ m.nick # NoNick
              /\ srv'[Home[u]].ts[u] = m.ts,
           m.type \in {"nick", "quit", "kill"} => m.who \in Users,
           m.type \in {"quit", "kill"} => Dooms(m.who)
    PROVE  Honest(chan, Sent(chan, Home[u], up[Home[u]], <<m>>))
<1>. DEFINE msgs == <<m>>
            s == Home[u]
<1>1. msgs \in Seq(Messages) /\ \A i \in 1 .. Len(msgs) : msgs[i] = m
  OBVIOUS
<1>2. s \in Servers /\ chan \in [Edges -> Seq(Messages)]
  BY ConstantsAssumption DEF TypeOK
<1>3. ASSUME NEW t \in up[s] PROVE Says(<<s, t>>, m)
  <2>. DEFINE e == <<s, t>>
  <2>1. Away(u, e) /\ e[1] = s
    BY <1>3, HomeAway
  <2>. HIDE DEF e
  <2>2. Says(e, m)
    BY <2>1 DEF Says, Fits
  <2>. QED
    BY <2>2 DEF e
<1>. HIDE DEF msgs
<1>4. Honest(chan, Sent(chan, s, up[s], msgs))
  BY <1>1, <1>2, <1>3, HonestSend
<1>. QED
  BY <1>4 DEF msgs

\* A command of a local client has these effects.
LEMMA CommandEffects ==
    ASSUME TypeOK, Routed, Fates, TS6, NEW u \in Users, NEW n, NEW t,
           \/ /\ n \in Nicks /\ t \in TSs
              /\ SetInitialNick(u, n, t) \/ ChangeNick(u, n, t)
           \/ Register(u) \/ Disconnect(u)
    PROVE  Effects
<1>. DEFINE s == Home[u]
<1>0. s \in Servers /\ srv[s] \in Table /\ chan \in [Edges -> Seq(Messages)]
  BY ConstantsAssumption DEF TypeOK
<1>1. ASSUME NEW v \in Users, NEW L, srv' = [srv EXCEPT ![s] = L],
             L.nick[v] = srv[s].nick[v], fate'[v] = fate[v], v \in unreg' <=> v \in unreg
      PROVE  Ends(v)
  <2>1. srv'[Home[v]].nick[v] = srv[Home[v]].nick[v]
    BY <1>0, <1>1, ConstantsAssumption DEF TypeOK
  <2>. QED
    BY <1>1, <2>1 DEF Ends, Fates
<1>2. CASE n \in Nicks /\ t \in TSs /\ SetInitialNick(u, n, t)
  <2>. DEFINE L == Introduced(srv[s], u, n, t)
  <2>1. /\ srv' = [srv EXCEPT ![s] = L] /\ chan' = chan /\ srv'[s] = L
        /\ fate' = fate /\ unreg' = unreg \cup {u} /\ fate[u] = "connected"
        /\ u \in unreg \/ srv[s].nick[u] = NoNick
    BY <1>0, <1>2 DEF SetInitialNick, TypeOK, Known
  <2>2. L.nick[u] = n /\ L.ts[u] = t /\ \A v \in Users \ {u} :
           L.nick[v] = srv[s].nick[v] /\ L.ts[v] = srv[s].ts[v]
    BY <1>0, GivenMoves
  <2>3. Honest(chan, chan')
    BY <1>0, <2>1, HonestSame
  <2>. HIDE DEF L
  <2>4. \A v \in Users \ {u} : Ends(v)
    BY <1>1, <2>1, <2>2
  <2>5. Ends(u)
    BY <1>2, <2>1, <2>2, ConstantsAssumption DEF Ends
  <2>6. /\ clock'[s] = t /\ UNCHANGED up /\ claims \subseteq claims'
        /\ \A x \in Servers : clock[x] <= clock'[x]
        /\ [user |-> u, nick |-> n, ts |-> t] \in claims'
    BY <1>2, CommandClock
  <2>7. \A v \in Users :
             \/ L.nick[v] = NoNick
             \/ L.nick[v] = srv[Home[u]].nick[v] /\ L.ts[v] = srv[Home[u]].ts[v]
             \/ /\ v = u /\ L.ts[v] = clock'[Home[u]]
                /\ [user |-> v, nick |-> L.nick[v], ts |-> L.ts[v]] \in claims'
    BY <2>2, <2>6
  <2>8. \A v \in Users : Ends(v)
    BY <2>4, <2>5
  <2>. QED
    BY <2>1, <2>3, <2>6, <2>7, <2>8, LocalEffects
<1>3. CASE n \in Nicks /\ t \in TSs /\ ChangeNick(u, n, t)
  <2>. DEFINE X == Holders(s, n)
              W == Without(srv[s], X)
              L == Renamed(W, u, n, t)
  <2>1. /\ srv' = [srv EXCEPT ![s] = L] /\ srv'[s] = L
        /\ chan' = Sent(chan, s, up[s], <<Nick(u, n, t)>>)
        /\ u \in Known(s) /\ u \notin unreg /\ X \subseteq unreg /\ Exited(s, X)
    BY <1>0, <1>3 DEF ChangeNick, TypeOK, Ref
  <2>2. W \in Table /\ \A v \in Users :
          /\ W.nick[v] = IF v \in X THEN NoNick ELSE srv[s].nick[v]
          /\ \/ W.nick[v] = NoNick
             \/ W.nick[v] = srv[s].nick[v] /\ W.ts[v] = srv[s].ts[v]
    BY <1>0, WithoutType, WithoutNick, WithoutMoves
  <2>3. L.ts[u] = t /\ L.nick[u] = n /\ \A v \in Users \ {u} :
           L.nick[v] = W.nick[v] /\ L.ts[v] = W.ts[v]
    BY <2>2, GivenMoves
  <2>4. X \subseteq Known(s) /\ n # NoNick
    BY <1>3, ConstantsAssumption DEF Holders, Known
  <2>. HIDE DEF L, W, X
  <2>5. Nick(u, n, t) \in Messages
    BY <1>3, LineTypes DEF Refs
  <2>6. u \notin unreg'
    BY <2>1 DEF Exited
  <2>7. Honest(chan, chan')
    BY <2>1, <2>3, <2>4, <2>5, <2>6, LocalHonest DEF About, Nick
  <2>8. ASSUME NEW v \in Users PROVE Ends(v)
    <3>1. CASE v \in X
      <4>1. fate[v] = "connected" /\ Home[v] = s
        BY <1>0, <2>1, <2>4, <3>1, UnregLocal
      <4>2. fate'[v] = "overridden" /\ v \notin unreg' /\ L.nick[v] = NoNick
        BY <2>1, <2>2, <2>3, <3>1, <4>1 DEF Exited
      <4>. QED
        BY <2>1, <3>1, <4>1, <4>2 DEF Ends
    <3>2. CASE v \notin X /\ v # u
      BY <1>1, <2>1, <2>2, <2>3, <3>2 DEF Exited
    <3>3. CASE v = u
      <4>1. fate'[u] = fate[u] /\ fate[u] = "connected"
        BY <1>3, <2>1 DEF Exited, ChangeNick
      <4>. QED
        BY <2>1, <2>3, <2>4, <2>6, <3>3, <4>1 DEF Ends
    <3>. QED
      BY <3>1, <3>2, <3>3
  <2>9. /\ clock'[s] = t /\ UNCHANGED up /\ claims \subseteq claims'
        /\ \A x \in Servers : clock[x] <= clock'[x]
        /\ [user |-> u, nick |-> n, ts |-> t] \in claims'
    BY <1>3, CommandClock
  <2>10. \A v \in Users :
             \/ L.nick[v] = NoNick
             \/ L.nick[v] = srv[Home[u]].nick[v] /\ L.ts[v] = srv[Home[u]].ts[v]
             \/ /\ v = u /\ L.ts[v] = clock'[Home[u]]
                /\ [user |-> v, nick |-> L.nick[v], ts |-> L.ts[v]] \in claims'
    BY <2>2, <2>3, <2>9
  <2>. QED
    BY <2>1, <2>7, <2>8, <2>9, <2>10, LocalEffects
<1>4. CASE Register(u)
  <2>1. /\ srv' = srv /\ u \in Known(s) /\ u \in unreg /\ unreg' = unreg \ {u}
        /\ chan' = Sent(chan, s, up[s], <<Uid(u, srv[s].nick[u], srv[s].ts[u])>>)
        /\ UNCHANGED <<fate, clock, up, claims>>
    BY <1>4 DEF Register
  <2>2. /\ srv[s].nick[u] \in Nicks /\ srv[s].nick[u] # NoNick /\ srv[s].ts[u] \in TSs
    BY <1>0, <2>1 DEF Known, Table
  <2>3. Uid(u, srv[s].nick[u], srv[s].ts[u]) \in Messages
    BY <2>2 DEF Uid, Messages
  <2>4. Honest(chan, chan')
    BY <2>1, <2>2, <2>3, LocalHonest DEF About, Uid
  <2>5. srv' = [srv EXCEPT ![s] = srv[s]]
    BY <1>0, <2>1 DEF TypeOK
  <2>6. ASSUME NEW v \in Users PROVE Ends(v)
    BY <2>1, <2>6 DEF Ends, Fates
  <2>7. \A x \in Servers : clock[x] <= clock'[x]
    BY <2>1 DEF TypeOK, TSs
  <2>. QED
    BY <2>1, <2>4, <2>5, <2>6, <2>7, LocalEffects
<1>5. CASE Disconnect(u)
  <2>. DEFINE L == Without(srv[s], {u})
  <2>1. /\ srv' = [srv EXCEPT ![s] = L] /\ srv'[s] = L
        /\ chan' \in {chan, Sent(chan, s, up[s], <<Quit(u)>>)}
        /\ unreg' = unreg \ {u} /\ fate' = [fate EXCEPT ![u] = "quit"]
        /\ UNCHANGED <<clock, up, claims>>
    BY <1>0, <1>5 DEF Disconnect, Ref, TypeOK
  <2>2. Quit(u) \in Messages /\ Quit(u).type = "quit" /\ Quit(u).who = u
    BY LineTypes DEF Refs, Quit
  <2>3. fate'[u] = "quit" /\ Dooms(u)
    BY <2>1 DEF TypeOK, Dooms
  <2>4. Honest(chan, Sent(chan, s, up[s], <<Quit(u)>>))
    BY <2>2, <2>3, LocalHonest DEF About
  <2>5. Honest(chan, chan')
    BY <1>0, <2>1, <2>4, HonestSame
  <2>6. \A v \in Users : \/ L.nick[v] = NoNick
                         \/ L.nick[v] = srv[s].nick[v] /\ L.ts[v] = srv[s].ts[v]
    BY <1>0, WithoutMoves
  <2>7. \A v \in Users : L.nick[v] = IF v = u THEN NoNick ELSE srv[s].nick[v]
    BY WithoutNick
  <2>. HIDE DEF L
  <2>8. ASSUME NEW v \in Users PROVE Ends(v)
    <3>1. CASE v = u
      BY <2>1, <2>3, <2>7, <3>1 DEF Ends
    <3>2. CASE v # u
      <4>1. fate'[v] = fate[v] /\ (v \in unreg' <=> v \in unreg)
        BY <2>1, <3>2 DEF TypeOK
      <4>2. L.nick[v] = srv[s].nick[v]
        BY <2>7, <3>2
      <4>. QED
        BY <1>1, <2>1, <4>1, <4>2
    <3>. QED
      BY <3>1, <3>2
  <2>9. \A x \in Servers : clock[x] <= clock'[x]
    BY <2>1 DEF TypeOK, TSs
  <2>10. \A v \in Users :
             \/ L.nick[v] = NoNick
             \/ L.nick[v] = srv[Home[u]].nick[v] /\ L.ts[v] = srv[Home[u]].ts[v]
             \/ /\ v = u /\ L.ts[v] = clock'[Home[u]]
                /\ [user |-> v, nick |-> L.nick[v], ts |-> L.ts[v]] \in claims'
    BY <2>6
  <2>. QED
    BY <2>1, <2>5, <2>8, <2>9, <2>10, LocalEffects
<1>. QED
  BY <1>2, <1>3, <1>4, <1>5

\* The lines of a burst say what the table says, of users that are not
\* reached through the new link.
LEMMA BurstSays ==
    ASSUME TypeOK, Routed, NEW s \in Servers, NEW t \in Neighbours(s),
           t \notin up[s], NEW b \in Bursts(s), UNCHANGED <<srv, unreg>>
    PROVE  \A i \in 1 .. Len(b) : Says(<<s, t>>, b[i])
<1>. DEFINE known == Known(s) \ unreg
            e == <<s, t>>
<1>1. PICK f \in [1 .. Cardinality(known) -> known] :
        b = [i \in 1 .. Cardinality(known) |->
               Uid(f[i], srv[s].nick[f[i]], srv[s].ts[f[i]])]
  BY DEF Bursts
<1>2. Cardinality(known) \in Nat
  <2>1. IsFiniteSet(known)
    BY ConstantsAssumption, FS_Subset DEF Known
  <2>. QED
    BY <2>1, FS_CardinalityType
<1>3. Len(b) = Cardinality(known)
  BY <1>1, <1>2
<1>4. e[1] = s
  OBVIOUS
<1>. HIDE DEF known, e
<1>5. ASSUME NEW i \in 1 .. Len(b) PROVE Says(e, b[i])
  <2>. DEFINE u == f[i]
              m == Uid(u, srv[s].nick[u], srv[s].ts[u])
  <2>1. b[i] = m /\ u \in known
    BY <1>1, <1>3
  <2>2. u \in Known(s) /\ u \notin unreg /\ u \in Users
    BY <2>1 DEF known, Known
  <2>3. Route[s][Home[u]] # t
    <3>1. Home[u] = s \/ Route[s][Home[u]] \in up[s]
      BY <2>2 DEF Routed
    <3>2. Route[s][s] = s /\ t # s
      BY TreeAssumption DEF Neighbours
    <3>. QED
      BY <3>1, <3>2
  <2>4. Away(u, e)
    BY <2>2, <2>3, AwayFrom DEF e
  <2>5. /\ m.type = "uid" /\ \A v \in Users : About(v, m) <=> v = u
        /\ m.nick = srv[s].nick[u] /\ m.ts = srv[s].ts[u]
    BY <2>2 DEF About, Uid
  <2>. HIDE DEF m, u
  <2>6. Says(e, m)
    BY <1>4, <2>2, <2>4, <2>5 DEF Says, Fits, Known
  <2>. QED
    BY <2>1, <2>6
<1>. QED
  BY <1>5 DEF e

\* A server that has lost a link says so to those who are not behind it.
LEMMA SquitFits ==
    ASSUME NEW s \in Servers, NEW t \in Neighbours(s), NEW x \in Neighbours(s),
           x # t
    PROVE  Fits(<<s, x>>, Squit(s, t))
<1>. DEFINE e == <<s, x>>
            m == Squit(s, t)
<1>1. e \in Edges /\ e[1] = s /\ e[2] = x
  BY DEF Edges, Neighbours
<1>2. Behind(s, x) \cup Behind(x, s) = Servers
  BY <1>1, TreeAssumption
<1>3. Behind(s, t) \subseteq Servers /\ Behind(s, t) \cap Behind(s, x) = {}
  BY DEF Behind
<1>4. m.type = "squit" /\ m.edge[1] = s /\ m.edge[2] = t
  BY DEF Squit
<1>. HIDE DEF e, m
<1>5. Fits(e, m)
  BY <1>1, <1>2, <1>3, <1>4 DEF Fits, About
<1>. QED
  BY <1>5 DEF e, m

\* Losing a link and bursting on a new one have these effects.
LEMMA LinkEffects ==
    ASSUME TypeOK, Routed, Fates, TS6, NEW s \in Servers, NEW t \in Neighbours(s),
           LoseLink(s, t) \/ Link(s, t)
    PROVE  Effects
<1>0. /\ t \in Servers /\ t # s /\ srv[s] \in Table
      /\ <<s, t>> \in Edges /\ <<t, s>> \in Edges /\ s \in Neighbours(t)
  <2>1. t \in Servers /\ t # s /\ srv[s] \in Table /\ <<s, t>> \in Edges
    BY DEF Neighbours, TypeOK, Edges
  <2>2. <<t, s>> \in Edges
    <3>. DEFINE e == <<s, t>>
    <3>1. e[1] = s /\ e[2] = t /\ e \in Edges
      BY <2>1
    <3>2. <<e[2], e[1]>> \in Edges
      BY <3>1, TreeAssumption
    <3>. QED
      BY <3>1, <3>2
  <2>. QED
    BY <2>1, <2>2 DEF Edges
<1>1. chan \in [Edges -> Seq(Messages)] /\ <<>> \in Seq(Messages)
  BY DEF TypeOK
<1>2. /\ \A x \in Servers : clock[x] <= clock'[x]
      /\ claims \subseteq claims' /\ UNCHANGED <<unreg, fate>>
  BY DEF LoseLink, Link, TypeOK, TSs
<1>3. CASE LoseLink(s, t)
  <2>. DEFINE X == {u \in Known(s) : Home[u] \in Behind(s, t)}
              base == [chan EXCEPT ![<<t, s>>] = <<>>]
              L == Without(srv[s], X)
  <2>1. /\ srv' = [srv EXCEPT ![s] = L]
        /\ up' = [up EXCEPT ![s] = @ \ {t}]
        /\ chan' = Sent(base, s, up[s] \ {t}, <<Squit(s, t)>>)
    BY <1>3 DEF LoseLink
  <2>2. srv'[s] = L /\ \A x \in Servers \ {s} : srv'[x] = srv[x]
    BY <2>1 DEF TypeOK
  <2>3. ASSUME NEW u \in Users, NEW x \in Servers PROVE Moved(u, x)
    BY <1>0, <2>2, WithoutMoves DEF Moved
  <2>4. base \in [Edges -> Seq(Messages)] /\ \A e \in Edges : Left(e, base[e])
    BY <1>1 DEF Left
  <2>5. Honest(base, chan')
    <3>. DEFINE msgs == <<Squit(s, t)>>
    <3>1. /\ msgs \in Seq(Messages)
          /\ \A i \in 1 .. Len(msgs) : msgs[i] = Squit(s, t)
      BY <1>0 DEF Squit, Messages
    <3>2. chan' = Sent(base, s, up[s] \ {t}, msgs)
      BY <2>1
    <3>. HIDE DEF msgs, base
    <3>3. \A x \in up[s] \ {t} : Says(<<s, x>>, Squit(s, t))
      <4>1. \A x \in up[s] \ {t} : Fits(<<s, x>>, Squit(s, t))
        BY SquitFits DEF Routed
      <4>2. Squit(s, t).type = "squit"
        BY DEF Squit
      <4>. QED
        BY <4>1, <4>2 DEF Says, About
    <3>. QED
      BY <2>4, <3>1, <3>2, <3>3, HonestSend
  <2>6. ASSUME NEW x \in Servers
        PROVE  /\ up'[x] \subseteq Neighbours(x)
               /\ \A u \in Users :
                    srv'[x].nick[u] # NoNick /\ Route[x][Home[u]] \in up[x]
                      => Route[x][Home[u]] \in up'[x]
    <3>1. CASE x # s
      BY <2>1, <3>1 DEF Routed, TypeOK
    <3>2. CASE x = s
      <4>1. up'[s] = up[s] \ {t}
        BY <2>1 DEF TypeOK
      <4>2. ASSUME NEW u \in Users, L.nick[u] # NoNick PROVE Route[s][Home[u]] # t
        <5>1. u \notin X /\ u \in Known(s)
          BY <4>2 DEF Without, Known
        <5>. QED
          BY <5>1, ConstantsAssumption DEF Behind
      <4>. QED
        BY <2>2, <3>2, <4>1, <4>2 DEF Routed
    <3>. QED
      BY <3>1, <3>2
  <2>7. ASSUME NEW u \in Users PROVE Ends(u)
    <3>1. s \notin Behind(s, t)
      BY <1>0, TreeAssumption DEF Behind
    <3>2. Home[u] = s => u \notin X
      BY <3>1
    <3>3. L.nick[u] = IF u \in X THEN NoNick ELSE srv[s].nick[u]
      BY WithoutNick
    <3>. HIDE DEF X, L
    <3>4. srv'[Home[u]].nick[u] = srv[Home[u]].nick[u]
      BY <2>2, <3>2, <3>3, ConstantsAssumption
    <3>. QED
      BY <1>2, <3>4 DEF Ends, Fates
  <2>. HIDE DEF base
  <2>. QED
    BY <1>2, <2>3, <2>4, <2>5, <2>6, <2>7 DEF Effects
<1>4. CASE Link(s, t)
  <2>1. PICK b \in Bursts(s), c \in Bursts(t) :
          chan' = [chan EXCEPT ![<<s, t>>] = b, ![<<t, s>>] = c]
    BY <1>4 DEF Link
  <2>2. /\ srv' = srv /\ t \notin up[s] /\ s \notin up[t]
        /\ up' = [up EXCEPT ![s] = @ \cup {t}, ![t] = @ \cup {s}]
    BY <1>4 DEF Link
  <2>. DEFINE base == [chan EXCEPT ![<<s, t>>] = <<>>, ![<<t, s>>] = <<>>]
  <2>3. base \in [Edges -> Seq(Messages)] /\ \A e \in Edges : Left(e, base[e])
    BY <1>1 DEF Left
  <2>4. b \in Seq(Messages) /\ c \in Seq(Messages)
    BY <1>0, BurstType
  <2>5. Honest(base, chan')
    <3>1. \A e \in Edges \ {<<s, t>>, <<t, s>>} :
             base[e] = chan[e] /\ chan'[e] = chan[e]
      BY <1>1, <2>1
    <3>2. /\ chan'[<<s, t>>] = base[<<s, t>>] \o b
          /\ chan'[<<t, s>>] = base[<<t, s>>] \o c
      <4>1. \A q \in Seq(Messages) : q = <<>> \o q
        OBVIOUS
      <4>2. <<s, t>> # <<t, s>>
        BY <1>0
      <4>3. base[<<s, t>>] = <<>> /\ base[<<t, s>>] = <<>>
        BY <1>0, <1>1, <4>2
      <4>4. chan'[<<s, t>>] = b /\ chan'[<<t, s>>] = c
        BY <1>0, <1>1, <2>1, <4>2
      <4>. QED
        BY <2>4, <4>1, <4>3, <4>4
    <3>. HIDE DEF base
    <3>3. \A i \in 1 .. Len(b) : Says(<<s, t>>, b[i])
      BY <1>2, <2>2, BurstSays
    <3>4. \A i \in 1 .. Len(c) : Says(<<t, s>>, c[i])
      BY <1>0, <1>2, <2>2, BurstSays
    <3>5. ASSUME NEW e \in Edges
          PROVE  \E M \in Seq(Messages) :
                   chan'[e] = base[e] \o M /\ \A i \in 1 .. Len(M) : Says(e, M[i])
      <4>1. CASE e = <<s, t>>
        <5>. USE <2>4
        <5>. WITNESS b \in Seq(Messages)
        <5>. QED
          BY <3>2, <3>3, <4>1
      <4>2. CASE e = <<t, s>>
        <5>. USE <2>4
        <5>. WITNESS c \in Seq(Messages)
        <5>. QED
          BY <3>2, <3>4, <4>2
      <4>3. CASE e \notin {<<s, t>>, <<t, s>>}
        <5>1. chan'[e] = base[e] \o <<>> /\ \A i \in 1 .. Len(<<>>) : FALSE
          BY <1>1, <3>1, <4>3
        <5>. WITNESS <<>> \in Seq(Messages)
        <5>. QED
          BY <5>1
      <4>. QED
        BY <4>1, <4>2, <4>3
    <3>. QED
      BY <3>5 DEF Honest
  <2>6. \A x \in Servers :
         /\ up'[x] \subseteq Neighbours(x)
         /\ \A u \in Users :
              srv'[x].nick[u] # NoNick /\ Route[x][Home[u]] \in up[x]
                => Route[x][Home[u]] \in up'[x]
    BY <1>0, <2>2 DEF Routed, TypeOK
  <2>7. \A u \in Users, x \in Servers : Moved(u, x)
    BY <2>2 DEF Moved
  <2>8. \A u \in Users : Ends(u)
    BY <1>2, <2>2 DEF Ends, Fates
  <2>. HIDE DEF base
  <2>. QED
    BY <1>2, <2>3, <2>5, <2>6, <2>7, <2>8 DEF Effects
<1>. QED
  BY <1>3, <1>4

\* The link e after a step: n lines that were there, the first d of those
\* gone, and then lines the table of the sender vouches for.
Kept(e, d, n) ==
    /\ d \in {0, 1} /\ n \in Nat
    /\ n <= Len(chan'[e]) /\ n + d <= Len(chan[e])
    /\ \A i \in 1 .. n : chan'[e][i] = chan[e][i + d]
    /\ \A i \in n + 1 .. Len(chan'[e]) : Says(e, chan'[e][i])

\* What the effects of a step leave on a link.
LEMMA KeptAfter ==
    ASSUME TypeOK, Effects, NEW e \in Edges
    PROVE  \E d, n : /\ Kept(e, d, n)
                     /\ chan[e] # <<>> /\ chan'[e] = Tail(chan[e]) => d = 1
<1>0. PICK base \in [Edges -> Seq(Messages)] :
        Honest(base, chan') /\ Left(e, base[e])
  BY DEF Effects
<1>1. PICK M \in Seq(Messages) :
        chan'[e] = base[e] \o M /\ \A i \in 1 .. Len(M) : Says(e, M[i])
  BY <1>0 DEF Honest
<1>2. /\ chan[e] \in Seq(Messages) /\ base[e] \in Seq(Messages)
      /\ chan'[e] \in Seq(Messages) /\ Len(chan'[e]) = Len(base[e]) + Len(M)
      /\ \A i \in 1 .. Len(base[e]) : chan'[e][i] = base[e][i]
      /\ \A i \in Len(base[e]) + 1 .. Len(chan'[e]) :
            i - Len(base[e]) \in 1 .. Len(M) /\ chan'[e][i] = M[i - Len(base[e])]
  BY <1>1 DEF TypeOK
<1>3. \A i \in Len(base[e]) + 1 .. Len(chan'[e]) : Says(e, chan'[e][i])
  BY <1>1, <1>2
<1>4. Len(base[e]) \in Nat /\ Len(chan'[e]) \in Nat /\ Len(M) \in Nat
      /\ Len(chan[e]) \in Nat
  BY <1>2
<1>5. CASE chan[e] # <<>> /\ chan'[e] = Tail(chan[e])
  <2>1. Len(chan'[e]) + 1 = Len(chan[e])
        /\ \A i \in 1 .. Len(chan'[e]) : chan'[e][i] = chan[e][i + 1]
    <3>1. \A q \in Seq(Messages) : q # <<>> =>
             /\ Len(Tail(q)) + 1 = Len(q)
             /\ \A i \in 1 .. Len(Tail(q)) : Tail(q)[i] = q[i + 1]
      OBVIOUS
    <3>. QED
      BY <1>2, <1>5, <3>1
  <2>2. Kept(e, 1, Len(chan'[e]))
    BY <1>4, <2>1 DEF Kept
  <2>. QED
    BY <2>2
<1>6. CASE ~(chan[e] # <<>> /\ chan'[e] = Tail(chan[e]))
  <2>1. CASE base[e] = chan[e]
    <3>1. /\ \A i \in 1 .. Len(chan[e]) : chan'[e][i] = chan[e][i + 0]
          /\ \A i \in Len(chan[e]) + 1 .. Len(chan'[e]) : Says(e, chan'[e][i])
          /\ Len(chan[e]) <= Len(chan'[e]) /\ Len(chan[e]) + 0 <= Len(chan[e])
      BY <1>2, <1>3, <1>4, <2>1
    <3>2. Kept(e, 0, Len(chan[e]))
      BY <1>4, <3>1 DEF Kept
    <3>. QED
      BY <1>6, <3>2
  <2>2. CASE base[e] = <<>>
    <3>1. Len(base[e]) = 0
      BY <2>2
    <3>2. Kept(e, 0, 0)
      BY <1>3, <1>4, <3>1 DEF Kept
    <3>. QED
      BY <1>6, <3>2
  <2>3. CASE chan[e] # <<>> /\ base[e] = Tail(chan[e])
    <3>1. Len(base[e]) + 1 = Len(chan[e])
          /\ \A i \in 1 .. Len(base[e]) : base[e][i] = chan[e][i + 1]
      BY <1>2, <2>3
    <3>2. Kept(e, 1, Len(base[e]))
      BY <1>2, <1>3, <1>4, <3>1 DEF Kept
    <3>. QED
      BY <1>6, <3>2
  <2>. QED
    BY <1>0, <2>1, <2>2, <2>3 DEF Left
<1>. QED
  BY <1>5, <1>6

\* A line on a link after a step was on it before, or says what the table of
\* the sender says.
LEMMA OldOrSays ==
    ASSUME TypeOK, TypeOK', Effects, NEW e \in Edges, NEW i \in 1 .. Len(chan'[e])
    PROVE  \/ \E j \in 1 .. Len(chan[e]) : chan'[e][i] = chan[e][j]
           \/ Says(e, chan'[e][i])
<1>1. PICK d, n : Kept(e, d, n)
  BY KeptAfter
<1>2. chan[e] \in Seq(Messages) /\ chan'[e] \in Seq(Messages)
  BY DEF TypeOK
<1>3. CASE i <= n
  <2>1. i + d \in 1 .. Len(chan[e]) /\ chan'[e][i] = chan[e][i + d]
    BY <1>1, <1>2, <1>3 DEF Kept
  <2>. QED
    BY <2>1
<1>4. CASE ~(i <= n)
  <2>1. i \in n + 1 .. Len(chan'[e])
    BY <1>1, <1>2, <1>4 DEF Kept
  <2>. QED
    BY <1>1, <2>1 DEF Kept
<1>. QED
  BY <1>3, <1>4

\* The head of a link.
LEMMA HeadFirst ==
    ASSUME TypeOK, NEW e \in Edges, chan[e] # <<>>
    PROVE  chan[e] \in Seq(Messages) /\ 1 \in 1 .. Len(chan[e])
  BY DEF TypeOK

\* The effects of a step keep lines on the links they are fit for.
LEMMA EffectsRouted ==
    ASSUME TypeOK, TypeOK', Routed, Effects
    PROVE  Routed'
<1>1. \A x \in Servers : up'[x] \subseteq Neighbours(x)
  BY DEF Effects
<1>2. ASSUME NEW x \in Servers, NEW u \in Known(x)'
      PROVE  Home[u] = x \/ Route[x][Home[u]] \in up'[x]
  <2>1. u \in Users /\ srv'[x].nick[u] # NoNick
    BY <1>2 DEF Known
  <2>2. Moved(u, x)
    BY <2>1 DEF Effects
  <2>3. CASE srv'[x].nick[u] = srv[x].nick[u]
    BY <2>1, <2>3 DEF Effects, Routed, Known
  <2>4. ASSUME NEW r \in up[x], <<r, x>> \in Edges, chan[<<r, x>>] # <<>>,
               About(u, chan[<<r, x>>][1])
        PROVE  Route[x][Home[u]] \in up[x]
    <3>. DEFINE e == <<r, x>>
    <3>1. Fits(e, chan[e][1])
      BY <2>4, HeadFirst DEF Routed
    <3>2. Away(u, e)
      BY <2>1, <2>4, <3>1 DEF Fits
    <3>. QED
      BY <2>4, <3>2 DEF Away
  <2>. QED
    BY <2>1, <2>2, <2>3, <2>4 DEF Moved, Effects
<1>3. ASSUME NEW e \in Edges, NEW i \in 1 .. Len(chan'[e])
      PROVE  Fits(e, chan'[e][i])
  BY OldOrSays DEF Routed, Says
<1>. QED
  BY <1>1, <1>2, <1>3 DEF Routed

\* They keep tables and lines in step with what becomes of each connection.
LEMMA EffectsFates ==
    ASSUME TypeOK, TypeOK', Routed, Fates, Effects
    PROVE  Fates'
<1>. SUFFICES ASSUME NEW u \in Users
              PROVE  /\ fate'[u] # "connected" => srv'[Home[u]].nick[u] = NoNick
                     /\ u \in unreg' => srv'[Home[u]].nick[u] # NoNick
                     /\ /\ fate'[u] = "connected"
                        /\ srv'[Home[u]].nick[u] = NoNick \/ u \in unreg'
                        => /\ \A x \in Servers \ {Home[u]} : srv'[x].nick[u] = NoNick
                           /\ \A e \in Edges : \A i \in 1 .. Len(chan'[e]) :
                                ~About(u, chan'[e][i])
  BY DEF Fates
<1>1. Ends(u)
  BY DEF Effects
<1>2. ASSUME fate'[u] = "connected",
             srv'[Home[u]].nick[u] = NoNick \/ u \in unreg'
      PROVE  /\ \A x \in Servers \ {Home[u]} : srv'[x].nick[u] = NoNick
             /\ \A e \in Edges : \A i \in 1 .. Len(chan'[e]) :
                  ~About(u, chan'[e][i])
  <2>1. /\ \A x \in Servers \ {Home[u]} : srv[x].nick[u] = NoNick
        /\ \A e \in Edges : \A i \in 1 .. Len(chan[e]) : ~About(u, chan[e][i])
    BY <1>1, <1>2 DEF Ends, Fates
  <2>2. ASSUME NEW x \in Servers \ {Home[u]} PROVE srv'[x].nick[u] = NoNick
    <3>1. Moved(u, x)
      BY DEF Effects
    <3>. QED
      BY <2>1, <2>2, <3>1, HeadFirst DEF Moved
  <2>3. ASSUME NEW e \in Edges, NEW i \in 1 .. Len(chan'[e]), About(u, chan'[e][i])
        PROVE  FALSE
    <3>1. Says(e, chan'[e][i])
      BY <2>1, <2>3, OldOrSays
    <3>2. srv'[e[1]].nick[u] # NoNick /\ u \notin unreg' /\ e[1] \in Servers
      BY <2>3, <3>1 DEF Says, Edges
    <3>. QED
      BY <1>2, <2>2, <3>2
  <2>. QED
    BY <2>2, <2>3
<1>. QED
  BY <1>1, <1>2 DEF Ends

\* Who is doomed stays doomed.
LEMMA DoomedStay ==
    ASSUME Effects, NEW u \in Users
    PROVE  (Lost(u) => Lost(u)') /\ (Doomed(u) => Dooms(u))
<1>1. Lost(u) => Lost(u)'
  BY DEF Lost, Effects
<1>. QED
  BY <1>1 DEF Doomed, Dooms, Lost, Effects, Ends

\* They keep every nickname claimed and everybody killed a loser.
LEMMA EffectsJustified ==
    ASSUME TypeOK, TypeOK', Routed, Justified, Effects
    PROVE  Justified'
<1>1. ASSUME NEW x \in Servers, NEW u \in Known(x)'
      PROVE  [user |-> u, nick |-> srv'[x].nick[u], ts |-> srv'[x].ts[u]] \in claims'
  <2>1. u \in Users /\ srv'[x].nick[u] # NoNick
    BY <1>1 DEF Known
  <2>2. Moved(u, x) /\ claims \subseteq claims'
    BY <2>1 DEF Effects
  <2>3. CASE srv'[x].nick[u] = srv[x].nick[u] /\ srv'[x].ts[u] = srv[x].ts[u]
    BY <2>1, <2>2, <2>3 DEF Justified, Known
  <2>4. ASSUME NEW e \in Edges, chan[e] # <<>>, About(u, chan[e][1]),
               srv'[x].nick[u] = chan[e][1].nick, srv'[x].ts[u] = chan[e][1].ts
        PROVE  [user |-> u, nick |-> srv'[x].nick[u], ts |-> srv'[x].ts[u]] \in claims
    BY <2>1, <2>4, HeadFirst DEF Justified
  <2>. QED
    BY <2>1, <2>2, <2>3, <2>4 DEF Moved
<1>2. ASSUME NEW e \in Edges, NEW i \in 1 .. Len(chan'[e])
      PROVE  /\ \A u \in Users : About(u, chan'[e][i]) =>
                  [user |-> u, nick |-> chan'[e][i].nick, ts |-> chan'[e][i].ts] \in claims'
             /\ chan'[e][i].type \in {"nick", "quit", "kill"} => chan'[e][i].who \in Users
             /\ chan'[e][i].type \in {"quit", "kill"} => Dooms(chan'[e][i].who)
  <2>1. ASSUME NEW j \in 1 .. Len(chan[e]), chan'[e][i] = chan[e][j]
        PROVE  /\ \A u \in Users : About(u, chan'[e][i]) =>
                    [user |-> u, nick |-> chan'[e][i].nick, ts |-> chan'[e][i].ts] \in claims'
               /\ chan'[e][i].type \in {"nick", "quit", "kill"} => chan'[e][i].who \in Users
               /\ chan'[e][i].type \in {"quit", "kill"} => Dooms(chan'[e][i].who)
    <3>. DEFINE m == chan[e][j]
    <3>1. /\ \A u \in Users : About(u, m) =>
                [user |-> u, nick |-> m.nick, ts |-> m.ts] \in claims
          /\ m.type \in {"nick", "quit", "kill"} => m.who \in Users
          /\ m.type \in {"quit", "kill"} => Doomed(m.who)
      BY DEF Justified
    <3>2. m.type \in {"quit", "kill"} => Dooms(m.who)
      BY <3>1, DoomedStay
    <3>3. chan'[e][i] = m /\ claims \subseteq claims'
      BY <2>1 DEF Effects
    <3>. HIDE DEF m
    <3>. QED
      BY <3>1, <3>2, <3>3
  <2>2. ASSUME Says(e, chan'[e][i])
        PROVE  \A u \in Users : About(u, chan'[e][i]) =>
                  [user |-> u, nick |-> chan'[e][i].nick, ts |-> chan'[e][i].ts] \in claims'
    <3>. SUFFICES ASSUME NEW u \in Users, About(u, chan'[e][i])
                  PROVE  [user |-> u, nick |-> chan'[e][i].nick,
                          ts |-> chan'[e][i].ts] \in claims'
      OBVIOUS
    <3>1. /\ srv'[e[1]].nick[u] = chan'[e][i].nick /\ srv'[e[1]].nick[u] # NoNick
          /\ srv'[e[1]].ts[u] = chan'[e][i].ts /\ e[1] \in Servers
      BY <2>2 DEF Says, Edges
    <3>2. u \in Known(e[1])'
      BY <3>1 DEF Known
    <3>. QED
      BY <1>1, <3>1, <3>2
  <2>. QED
    BY <2>1, <2>2, OldOrSays DEF Says
<1>3. ASSUME NEW u \in Users, fate'[u] = "killed"
      PROVE  \E c, d \in claims' : c.user = u /\ Beaten(c, d)
  <2>1. fate[u] = "killed" => Lost(u)
    BY DEF Justified, OnlyLosersKilled, Lost
  <2>2. Lost(u)'
    BY <1>3, <2>1, DoomedStay DEF Effects, Ends
  <2>. QED
    BY <2>2 DEF Lost
<1>. QED
  BY <1>1, <1>2, <1>3 DEF Justified, OnlyLosersKilled, Doomed, Dooms, Lost

-----------------------------------------------------------------------------
(* Timestamps *)

\* W[x] is the latest timestamp of u that x has heard of, whether or not x
\* still has u: it never grows along the way from u, and the lines about u
\* on a link are stamped between the marks of its ends, in order.
Marks(u, W) ==
    /\ W[Home[u]] <= clock[Home[u]]
    /\ \A x \in Servers : u \in Known(x) => srv[x].ts[u] = W[x]
    /\ \A e \in Edges : Away(u, e) => W[e[2]] <= W[e[1]]
    /\ \A e \in Edges : \A i \in 1 .. Len(chan[e]) : About(u, chan[e][i]) =>
          /\ W[e[2]] <= chan[e][i].ts
          /\ chan[e][i].ts <= W[e[1]]
          /\ \A j \in 1 .. i : About(u, chan[e][j]) =>
                                  chan[e][j].ts <= chan[e][i].ts

Marked == \A u \in Users : \E W \in [Servers -> Nat] : Marks(u, W)

\* The marks of a user after a step: a server that has it marks what its
\* table says, any other keeps its mark.
Remarked(u, W) ==
    [x \in Servers |-> IF srv'[x].nick[u] # NoNick THEN srv'[x].ts[u] ELSE W[x]]

\* How one mark changes: it stays, or takes the time of the server when it is
\* the user's own, or the timestamp of the line it has parsed, and it grows.
LEMMA MarkGrows ==
    ASSUME TypeOK, TypeOK', Routed, Effects, NEW u \in Users,
           NEW W \in [Servers -> Nat], Marks(u, W), NEW x \in Servers
    PROVE  LET W2 == Remarked(u, W)
               e  == <<Route[x][Home[u]], x>>
           IN
           /\ W2[x] \in Nat /\ W[x] <= W2[x]
           /\ x # Home[u] /\ W2[x] # W[x] =>
                /\ e \in Edges /\ chan[e] # <<>> /\ chan'[e] = Tail(chan[e])
                /\ About(u, chan[e][1]) /\ W2[x] = chan[e][1].ts
                /\ W2[x] <= W[e[1]]
           /\ x = Home[u] => W2[x] <= clock'[x]
<1>. DEFINE W2 == Remarked(u, W)
<1>0. /\ W2[x] = IF srv'[x].nick[u] # NoNick THEN srv'[x].ts[u] ELSE W[x]
      /\ W[x] \in Nat /\ srv'[x].ts[u] \in Nat
      /\ clock[x] \in Nat /\ clock'[x] \in Nat /\ clock[x] <= clock'[x]
  BY DEF Remarked, TypeOK, Table, TSs, Effects
<1>1. CASE srv'[x].nick[u] = NoNick
  BY <1>0, <1>1 DEF Marks
<1>2. CASE /\ srv'[x].nick[u] # NoNick
           /\ srv'[x].nick[u] = srv[x].nick[u] /\ srv'[x].ts[u] = srv[x].ts[u]
  <2>1. W2[x] = W[x]
    BY <1>0, <1>2 DEF Marks, Known
  <2>. QED
    BY <1>0, <2>1 DEF Marks
<1>3. CASE /\ srv'[x].nick[u] # NoNick
           /\ x = Home[u] /\ clock[x] <= clock'[x] /\ srv'[x].ts[u] = clock'[x]
  BY <1>0, <1>3 DEF Marks
<1>4. ASSUME NEW r \in up[x], srv'[x].nick[u] # NoNick,
             <<r, x>> \in Edges, chan[<<r, x>>] # <<>>,
             About(u, chan[<<r, x>>][1]),
             srv'[x].ts[u] = chan[<<r, x>>][1].ts,
             chan'[<<r, x>>] = Tail(chan[<<r, x>>])
      PROVE  /\ x # Home[u] /\ r = Route[x][Home[u]]
             /\ W[x] <= W2[x] /\ W2[x] <= W[r] /\ W2[x] = chan[<<r, x>>][1].ts
  <2>. DEFINE e == <<r, x>>
  <2>1. e[1] = r /\ e[2] = x /\ e \in Edges
    BY <1>4
  <2>2. 1 \in 1 .. Len(chan[e])
    BY <1>4, HeadFirst
  <2>3. Away(u, e)
    BY <1>4, <2>1, <2>2 DEF Routed, Fits
  <2>4. W[e[2]] <= chan[e][1].ts /\ chan[e][1].ts <= W[e[1]]
    BY <1>4, <2>1, <2>2 DEF Marks
  <2>. QED
    BY <1>0, <1>4, <2>1, <2>3, <2>4, AwayNotHome DEF Away
<1>. QED
  BY <1>0, <1>1, <1>2, <1>3, <1>4 DEF Effects, Moved

\* Every step keeps the marks of a user.
LEMMA MarksKept ==
    ASSUME TypeOK, TypeOK', Routed, Effects, NEW u \in Users,
           NEW W \in [Servers -> Nat], Marks(u, W)
    PROVE  \E W2 \in [Servers -> Nat] : Marks(u, W2)'
<1>0. PICK W2 : W2 = Remarked(u, W)
  OBVIOUS
<1>1. ASSUME NEW x \in Servers
      PROVE  LET e == <<Route[x][Home[u]], x>> IN
             /\ W2[x] \in Nat /\ W[x] <= W2[x]
             /\ x # Home[u] /\ W2[x] # W[x] =>
                  /\ e \in Edges /\ chan[e] # <<>> /\ chan'[e] = Tail(chan[e])
                  /\ About(u, chan[e][1]) /\ W2[x] = chan[e][1].ts
                  /\ W2[x] <= W[e[1]]
             /\ x = Home[u] => W2[x] <= clock'[x]
  BY <1>0, MarkGrows
<1>2. W2 \in [Servers -> Nat]
  BY <1>0, <1>1 DEF Remarked
<1>3. \A x \in Servers : u \in Known(x)' => srv'[x].ts[u] = W2[x]
  BY <1>0 DEF Remarked, Known
<1>4. W2[Home[u]] <= clock'[Home[u]]
  BY <1>1, ConstantsAssumption
\* On a link away from u the far end has either kept its mark or parsed the
\* head of this link.
<1>5. ASSUME NEW e \in Edges, Away(u, e)
      PROVE  /\ e[1] \in Servers /\ e[2] \in Servers
             /\ W[e[2]] \in Nat /\ W2[e[2]] \in Nat
             /\ W[e[1]] \in Nat /\ W2[e[1]] \in Nat /\ W[e[1]] <= W2[e[1]]
             /\ W2[e[2]] # W[e[2]] =>
                  /\ chan[e] # <<>> /\ chan'[e] = Tail(chan[e])
                  /\ About(u, chan[e][1]) /\ W2[e[2]] = chan[e][1].ts
                  /\ W2[e[2]] <= W[e[1]]
  <2>1. e[1] \in Servers /\ e[2] \in Servers /\ e[2] # Home[u]
    BY <1>5, AwayNotHome
  <2>2. <<Route[e[2]][Home[u]], e[2]>> = e
    BY <1>5 DEF Away, Edges
  <2>3. e[1] = Route[e[2]][Home[u]]
    BY <1>5 DEF Away
  <2>. QED
    BY <1>1, <2>1, <2>2, <2>3
<1>6. ASSUME NEW e \in Edges, Away(u, e) PROVE W2[e[2]] <= W2[e[1]]
  <2>1. W[e[2]] <= W[e[1]]
    BY <1>6 DEF Marks
  <2>. QED
    BY <1>5, <1>6, <2>1
<1>7. ASSUME NEW e \in Edges, NEW i \in 1 .. Len(chan'[e]), About(u, chan'[e][i])
      PROVE  /\ W2[e[2]] <= chan'[e][i].ts
             /\ chan'[e][i].ts <= W2[e[1]]
             /\ \A j \in 1 .. i : About(u, chan'[e][j]) =>
                                     chan'[e][j].ts <= chan'[e][i].ts
  <2>. DEFINE c == chan[e]
              c2 == chan'[e]
  <2>0. /\ c \in Seq(Messages) /\ c2 \in Seq(Messages)
        /\ Len(c) \in Nat /\ Len(c2) \in Nat
        /\ \A k \in 1 .. Len(c) : About(u, c[k]) => c[k].ts \in Nat
        /\ \A k \in 1 .. Len(c2) : About(u, c2[k]) => c2[k].ts \in Nat
    <3>1. c \in Seq(Messages) /\ c2 \in Seq(Messages)
      BY DEF TypeOK
    <3>2. ASSUME NEW m \in Messages, About(u, m) PROVE m.ts \in Nat
      BY <3>2, LineFields DEF About, TSs
    <3>. QED
      BY <3>1, <3>2
  <2>1. Away(u, e)
    BY <1>7, EffectsRouted DEF Routed, Fits
  <2>2. PICK d, n : Kept(e, d, n) /\ (c # <<>> /\ c2 = Tail(c) => d = 1)
    BY KeptAfter
  <2>3. /\ d \in {0, 1} /\ n \in Nat /\ n <= Len(c2) /\ n + d <= Len(c)
        /\ \A k \in 1 .. n : k + d \in 1 .. Len(c) /\ c2[k] = c[k + d]
    BY <2>0, <2>2 DEF Kept
  <2>4. \A k \in n + 1 .. Len(c2) : About(u, c2[k]) => c2[k].ts = W2[e[1]]
    <3>. SUFFICES ASSUME NEW k \in n + 1 .. Len(c2), About(u, c2[k])
                  PROVE  c2[k].ts = W2[e[1]]
      OBVIOUS
    <3>1. Says(e, c2[k])
      BY <2>2 DEF Kept
    <3>. QED
      BY <1>0, <1>5, <2>1, <3>1 DEF Says, Remarked
  <2>5. \A k \in 1 .. Len(c) : About(u, c[k]) =>
           /\ W[e[2]] <= c[k].ts /\ c[k].ts <= W[e[1]]
           /\ \A j \in 1 .. k : About(u, c[j]) => c[j].ts <= c[k].ts
    BY DEF Marks
  <2>. HIDE DEF c, c2
  \* An old line: not older than the head, if that was parsed.
  <2>6. ASSUME NEW k \in 1 .. n, About(u, c2[k])
        PROVE  W2[e[2]] <= c2[k].ts /\ c2[k].ts <= W[e[1]]
    <3>1. /\ k + d \in 1 .. Len(c) /\ c2[k] = c[k + d]
          /\ W[e[2]] <= c[k + d].ts /\ c[k + d].ts <= W[e[1]]
      BY <2>3, <2>5, <2>6
    <3>2. CASE W2[e[2]] = W[e[2]]
      BY <3>1, <3>2
    <3>3. CASE W2[e[2]] # W[e[2]]
      <4>1. About(u, c[1]) /\ W2[e[2]] = c[1].ts
        BY <1>5, <2>1, <3>3 DEF c
      <4>2. 1 \in 1 .. k + d
        BY <2>3
      <4>. QED
        BY <2>5, <2>6, <3>1, <4>1, <4>2
    <3>. QED
      BY <3>2, <3>3
  <2>7. c2[i].ts \in Nat /\ About(u, c2[i]) /\ i \in 1 .. Len(c2)
    BY <1>7, <2>0 DEF c2
  <2>8. CASE i <= n
    <3>1. W2[e[2]] <= c2[i].ts /\ c2[i].ts <= W2[e[1]]
      BY <1>5, <2>1, <2>6, <2>7, <2>8
    <3>2. ASSUME NEW j \in 1 .. i, About(u, c2[j]) PROVE c2[j].ts <= c2[i].ts
      <4>1. j + d \in 1 .. i + d /\ i + d \in 1 .. Len(c)
            /\ c2[j] = c[j + d] /\ c2[i] = c[i + d]
        BY <2>3, <2>7, <2>8
      <4>. QED
        BY <2>5, <2>7, <3>2, <4>1
    <3>. QED
      BY <3>1, <3>2 DEF c2
  <2>9. CASE ~(i <= n)
    <3>1. c2[i].ts = W2[e[1]]
      BY <2>3, <2>4, <2>7, <2>9
    <3>2. ASSUME NEW j \in 1 .. i, About(u, c2[j]) PROVE c2[j].ts <= c2[i].ts
      <4>1. CASE j \in 1 .. n
        BY <1>5, <2>0, <2>1, <2>6, <2>7, <3>1, <3>2, <4>1
      <4>2. CASE j \notin 1 .. n
        <5>1. j \in n + 1 .. Len(c2)
          BY <2>0, <2>3, <2>7, <4>2
        <5>. QED
          BY <1>5, <2>1, <2>4, <3>1, <3>2, <5>1
      <4>. QED
        BY <4>1, <4>2
    <3>. QED
      BY <1>5, <1>6, <2>1, <3>1, <3>2 DEF c2
  <2>. QED
    BY <2>8, <2>9
<1>8. Marks(u, W2)'
  BY <1>3, <1>4, <1>6, <1>7 DEF Marks
<1>. QED
  BY <1>2, <1>8

-----------------------------------------------------------------------------
(* What the lines on a link tell of a user *)

\* What a server shows the others of u: its nickname and timestamp, or that u
\* is not there.
Gone == [nick |-> NoNick, ts |-> 0]

Shown(u, x) == IF u \in Known(x) \ unreg
               THEN [nick |-> srv[x].nick[u], ts |-> srv[x].ts[u]] ELSE Gone

\* The line m is for a reader that shows a of u, and makes it show b.
Turns(u, m, a, b) ==
    /\ m.type = "uid" /\ m.user = u =>
         a = Gone /\ b = [nick |-> m.nick, ts |-> m.ts]
    /\ m.type = "nick" /\ m.who = u =>
         a # Gone /\ b = [nick |-> m.nick, ts |-> m.ts]
    /\ m.type = "squit" /\ Home[u] \in Behind(m.edge[1], m.edge[2]) => b = Gone
    /\ ~Heard(u, m) => a = b

\* So do the lines q one after another: G[i] is what the reader shows when it
\* comes to the line q[i].
Tells(u, q, a, b) ==
    \E G : /\ G[1] = a
           /\ G[Len(q) + 1] = b
           /\ \A i \in 1 .. Len(q) : Turns(u, q[i], G[i], G[i + 1])

\* Who is shown is known and registered.
LEMMA ShownGone ==
    ASSUME NEW u \in Users, NEW x
    PROVE  /\ Shown(u, x) = Gone <=> u \notin Known(x) \ unreg
           /\ \A n \in Nicks : \A t : [nick |-> n, ts |-> t] # Gone
<1>1. \A n, t : n # NoNick => [nick |-> n, ts |-> t] # Gone
  <2>. SUFFICES ASSUME NEW n, NEW t, n # NoNick, [nick |-> n, ts |-> t] = Gone
                PROVE  FALSE
    OBVIOUS
  <2>1. [nick |-> n, ts |-> t].nick = Gone.nick
    OBVIOUS
  <2>. QED
    BY <2>1 DEF Gone
<1>2. u \in Known(x) => srv[x].nick[u] # NoNick
  BY DEF Known
<1>. QED
  BY <1>1, <1>2, ConstantsAssumption DEF Shown

\* Lines that are not about u tell nothing of it.
LEMMA TellsNothing ==
    ASSUME NEW u, NEW q \in Seq(Messages), NEW a,
           \A i \in 1 .. Len(q) : ~Heard(u, q[i])
    PROVE  Tells(u, q, a, a)
<1>1. PICK G : G = [i \in Nat |-> a]
  OBVIOUS
<1>2. Len(q) \in Nat
  OBVIOUS
<1>3. G[1] = a /\ G[Len(q) + 1] = a
  BY <1>1, <1>2
<1>4. ASSUME NEW i \in 1 .. Len(q) PROVE Turns(u, q[i], G[i], G[i + 1])
  <2>1. G[i] = a /\ G[i + 1] = a
    BY <1>1, <1>2
  <2>. QED
    BY <2>1 DEF Turns, Heard, About
<1>. QED
  BY <1>3, <1>4 DEF Tells

\* No lines.
LEMMA TellsNone ==
    ASSUME NEW u, NEW a
    PROVE  Tells(u, <<>>, a, a)
<1>1. PICK q : q = <<>>
  OBVIOUS
<1>2. q \in Seq(Messages) /\ \A i \in 1 .. Len(q) : ~Heard(u, q[i])
  BY <1>1
<1>. QED
  BY <1>1, <1>2, TellsNothing

\* One line.
LEMMA TellsOne ==
    ASSUME NEW u, NEW m, NEW a, NEW b, Turns(u, m, a, b)
    PROVE  Tells(u, <<m>>, a, b)
<1>1. PICK G : G = <<a, b>>
  OBVIOUS
<1>2. G[1] = a /\ G[2] = b
  BY <1>1
<1>3. Len(<<m>>) = 1 /\ <<m>>[1] = m
  OBVIOUS
<1>4. ASSUME NEW i \in 1 .. Len(<<m>>) PROVE Turns(u, <<m>>[i], G[i], G[i + 1])
  <2>1. i = 1 /\ i + 1 = 2
    BY <1>3, <1>4
  <2>. QED
    BY <1>2, <1>3, <2>1
<1>5. Len(<<m>>) + 1 = 2
  BY <1>3
<1>. QED
  BY <1>2, <1>4, <1>5 DEF Tells

\* Two lines.
LEMMA TellsTwo ==
    ASSUME NEW u, NEW m, NEW m2, NEW a, NEW b, NEW c,
           Turns(u, m, a, b), Turns(u, m2, b, c)
    PROVE  Tells(u, <<m, m2>>, a, c)
<1>1. PICK G : G = <<a, b, c>>
  OBVIOUS
<1>2. G[1] = a /\ G[2] = b /\ G[3] = c
  BY <1>1
<1>3. Len(<<m, m2>>) = 2 /\ <<m, m2>>[1] = m /\ <<m, m2>>[2] = m2
  OBVIOUS
<1>4. ASSUME NEW i \in 1 .. Len(<<m, m2>>)
      PROVE  Turns(u, <<m, m2>>[i], G[i], G[i + 1])
  <2>1. (i = 1 /\ i + 1 = 2) \/ (i = 2 /\ i + 1 = 3)
    BY <1>3, <1>4
  <2>. QED
    BY <1>2, <1>3, <2>1
<1>5. Len(<<m, m2>>) + 1 = 3
  BY <1>3
<1>. QED
  BY <1>2, <1>4, <1>5 DEF Tells

\* Lines and then more lines.
LEMMA TellsMore ==
    ASSUME NEW u, NEW q \in Seq(Messages), NEW M \in Seq(Messages),
           NEW a, NEW b, NEW c, Tells(u, q, a, b), Tells(u, M, b, c)
    PROVE  Tells(u, q \o M, a, c)
<1>1. PICK G : /\ G[1] = a /\ G[Len(q) + 1] = b
               /\ \A i \in 1 .. Len(q) : Turns(u, q[i], G[i], G[i + 1])
  BY DEF Tells
<1>2. PICK H : /\ H[1] = b /\ H[Len(M) + 1] = c
               /\ \A i \in 1 .. Len(M) : Turns(u, M[i], H[i], H[i + 1])
  BY DEF Tells
<1>. DEFINE K == [i \in Nat |-> IF i <= Len(q) THEN G[i] ELSE H[i - Len(q)]]
            S == q \o M
<1>3. /\ Len(q) \in Nat /\ Len(M) \in Nat /\ Len(S) = Len(q) + Len(M)
      /\ \A i \in 1 .. Len(q) : S[i] = q[i]
      /\ \A i \in Len(q) + 1 .. Len(S) :
            i - Len(q) \in 1 .. Len(M) /\ S[i] = M[i - Len(q)]
  OBVIOUS
<1>4. \A i \in Nat : i > Len(q) => K[i] = H[i - Len(q)]
  BY <1>3
<1>5. \A i \in 1 .. Len(q) + 1 : K[i] = G[i]
  <2>. SUFFICES ASSUME NEW i \in 1 .. Len(q) + 1 PROVE K[i] = G[i]
    OBVIOUS
  <2>1. CASE i <= Len(q)
    BY <1>3, <2>1
  <2>2. CASE ~(i <= Len(q))
    <3>1. i = Len(q) + 1 /\ i - Len(q) = 1 /\ i \in Nat
      BY <1>3, <2>2
    <3>. QED
      BY <1>1, <1>2, <1>4, <3>1
  <2>. QED
    BY <2>1, <2>2
<1>. HIDE DEF K, S
<1>6. K[1] = a
  BY <1>1, <1>3, <1>5
<1>7. K[Len(S) + 1] = c
  <2>1. Len(S) + 1 \in Nat /\ Len(S) + 1 > Len(q) /\ Len(S) + 1 - Len(q) = Len(M) + 1
    BY <1>3
  <2>. QED
    BY <1>2, <1>4, <2>1
<1>8. ASSUME NEW i \in 1 .. Len(S) PROVE Turns(u, S[i], K[i], K[i + 1])
  <2>1. CASE i <= Len(q)
    <3>1. /\ i \in 1 .. Len(q) /\ i \in 1 .. Len(q) + 1 /\ i + 1 \in 1 .. Len(q) + 1
      BY <1>3, <2>1
    <3>. QED
      BY <1>1, <1>3, <1>5, <3>1
  <2>2. CASE ~(i <= Len(q))
    <3>1. PICK j : j = i - Len(q)
      OBVIOUS
    <3>2. /\ j \in 1 .. Len(M) /\ S[i] = M[j]
          /\ i \in Nat /\ i > Len(q) /\ i + 1 \in Nat /\ i + 1 > Len(q)
          /\ (i + 1) - Len(q) = j + 1
      BY <1>3, <2>2, <3>1
    <3>3. K[i] = H[j] /\ K[i + 1] = H[j + 1]
      BY <1>4, <3>1, <3>2
    <3>. QED
      BY <1>2, <3>2, <3>3
  <2>. QED
    BY <2>1, <2>2
<1>9. Tells(u, S, a, c)
  BY <1>6, <1>7, <1>8 DEF Tells
<1>. QED
  BY <1>9 DEF S

\* The lines after the first.
LEMMA TellsRest ==
    ASSUME NEW u, NEW q \in Seq(Messages), q # <<>>, NEW a, NEW b, NEW c,
           Tells(u, q, a, c), Turns(u, q[1], a, b)
    PROVE  Tells(u, Tail(q), b, c)
<1>1. PICK G : /\ G[1] = a /\ G[Len(q) + 1] = c
               /\ \A i \in 1 .. Len(q) : Turns(u, q[i], G[i], G[i + 1])
  BY DEF Tells
<1>. DEFINE K == [i \in Nat |-> G[i + 1]]
            S == Tail(q)
<1>2. /\ S \in Seq(Messages) /\ Len(S) \in Nat /\ Len(q) = Len(S) + 1
      /\ \A i \in 1 .. Len(S) : S[i] = q[i + 1] /\ i + 1 \in 1 .. Len(q)
  OBVIOUS
<1>3. Turns(u, q[1], G[1], G[2])
  <2>1. 1 \in 1 .. Len(q) /\ 1 + 1 = 2
    BY <1>2
  <2>. QED
    BY <1>1, <2>1
<1>4. G[2] = b
  BY <1>1, <1>3 DEF Turns, Heard, About
<1>5. \A i \in Nat : K[i] = G[i + 1]
  OBVIOUS
<1>. HIDE DEF K, S
<1>6. K[1] = b
  <2>1. 1 \in Nat /\ 1 + 1 = 2
    OBVIOUS
  <2>. QED
    BY <1>4, <1>5, <2>1
<1>7. K[Len(S) + 1] = c
  BY <1>1, <1>2, <1>5
<1>8. ASSUME NEW i \in 1 .. Len(S) PROVE Turns(u, S[i], K[i], K[i + 1])
  <2>1. Turns(u, q[i + 1], G[i + 1], G[(i + 1) + 1]) /\ S[i] = q[i + 1]
    BY <1>1, <1>2
  <2>2. K[i] = G[i + 1] /\ K[i + 1] = G[(i + 1) + 1]
    BY <1>2, <1>5
  <2>. QED
    BY <2>1, <2>2
<1>. QED
  BY <1>6, <1>7, <1>8 DEF Tells, S

\* What the first line finds.
LEMMA TellsFirst ==
    ASSUME NEW u, NEW q \in Seq(Messages), q # <<>>,
           NEW a, NEW c, Tells(u, q, a, c), About(u, q[1])
    PROVE  q[1].type = "nick" <=> a # Gone
<1>1. PICK G : /\ G[1] = a
               /\ \A i \in 1 .. Len(q) : Turns(u, q[i], G[i], G[i + 1])
  BY DEF Tells
<1>2. 1 \in 1 .. Len(q)
  OBVIOUS
<1>3. Turns(u, q[1], G[1], G[1 + 1])
  BY <1>1, <1>2
<1>. QED
  BY <1>1, <1>3 DEF Turns, About

\* A count of a finite set without repetition leaves nobody out.
LEMMA CountsAll ==
    ASSUME NEW K, IsFiniteSet(K), NEW f \in [1 .. Cardinality(K) -> K],
           \A i, j \in 1 .. Cardinality(K) : f[i] = f[j] => i = j, NEW u \in K
    PROVE  \E i \in 1 .. Cardinality(K) : f[i] = u
<1>. DEFINE n == Cardinality(K)
<1>. SUFFICES ASSUME \A i \in 1 .. n : f[i] # u PROVE FALSE
  OBVIOUS
<1>1. f \in [1 .. n -> K \ {u}]
  OBVIOUS
<1>2. /\ n \in Nat /\ IsFiniteSet(K \ {u}) /\ Cardinality(K \ {u}) = n - 1
  BY FS_RemoveElement, FS_CardinalityType
<1>3. IsFiniteSet(1 .. n) /\ Cardinality(1 .. n) = n
  BY <1>2, FS_Interval
<1>4. Cardinality(K \ {u}) < Cardinality(1 .. n)
  BY <1>2, <1>3
<1>5. \E i, j \in 1 .. n : i # j /\ f[i] = f[j]
  BY <1>1, <1>2, <1>3, <1>4, FS_PigeonHole
<1>. QED
  BY <1>5

\* A burst tells of every registered user of its sender, once.
LEMMA TellsBurst ==
    ASSUME TypeOK, NEW s \in Servers, NEW b \in Bursts(s), NEW u \in Users
    PROVE  Tells(u, b, Gone, Shown(u, s))
<1>. DEFINE known == Known(s) \ unreg
            n == Cardinality(known)
<1>1. PICK f \in [1 .. n -> known] :
        /\ \A i, j \in 1 .. n : f[i] = f[j] => i = j
        /\ b = [i \in 1 .. n |-> Uid(f[i], srv[s].nick[f[i]], srv[s].ts[f[i]])]
  BY DEF Bursts
<1>2. IsFiniteSet(known) /\ n \in Nat
  <2>1. IsFiniteSet(known)
    BY ConstantsAssumption, FS_Subset DEF Known
  <2>. QED
    BY <2>1, FS_CardinalityType
<1>3. f \in [1 .. n -> known] /\ \A i, j \in 1 .. n : f[i] = f[j] => i = j
  BY <1>1
<1>4. u \in known => Shown(u, s) = [nick |-> srv[s].nick[u], ts |-> srv[s].ts[u]]
  BY DEF Shown
<1>5. u \notin known => Shown(u, s) = Gone
  BY DEF Shown
<1>. HIDE DEF known
<1>6. u \in known => \E i \in 1 .. n : f[i] = u
  BY <1>2, <1>3, CountsAll
<1>. HIDE DEF n
<1>7. Len(b) = n /\ \A i \in 1 .. n :
         /\ b[i].type = "uid" /\ b[i].user = f[i]
         /\ b[i].nick = srv[s].nick[f[i]] /\ b[i].ts = srv[s].ts[f[i]]
  BY <1>1, <1>2 DEF Uid
<1>. DEFINE Past(i) == \E j \in 1 .. n : f[j] = u /\ j < i
            G == [i \in Nat |-> IF Past(i) THEN Shown(u, s) ELSE Gone]
<1>8. \A i \in Nat : G[i] = IF Past(i) THEN Shown(u, s) ELSE Gone
  OBVIOUS
<1>. HIDE DEF G
<1>9. G[1] = Gone
  BY <1>8
<1>10. G[Len(b) + 1] = Shown(u, s)
  <2>1. Len(b) + 1 \in Nat
    BY <1>2, <1>7
  <2>2. u \in known => Past(Len(b) + 1)
    BY <1>2, <1>6, <1>7
  <2>. QED
    BY <1>5, <1>8, <2>1, <2>2
<1>11. ASSUME NEW i \in 1 .. Len(b) PROVE Turns(u, b[i], G[i], G[i + 1])
  <2>1. i \in 1 .. n /\ i \in Nat /\ i + 1 \in Nat
    BY <1>2, <1>7
  <2>2. CASE f[i] = u
    <3>1. Past(i + 1) /\ u \in known
      BY <1>2, <1>3, <2>1, <2>2
    <3>2. ~Past(i)
      BY <1>2, <1>3, <2>1, <2>2
    <3>3. G[i] = Gone /\ G[i + 1] = [nick |-> b[i].nick, ts |-> b[i].ts]
      BY <1>4, <1>7, <1>8, <2>1, <2>2, <3>1, <3>2
    <3>. QED
      BY <1>7, <2>1, <2>2, <3>3 DEF Turns, Heard, About
  <2>3. CASE f[i] # u
    <3>1. \A j \in 1 .. n : f[j] = u => (j < i <=> j < i + 1)
      BY <1>2, <2>1, <2>3
    <3>2. Past(i) <=> Past(i + 1)
      BY <3>1
    <3>3. G[i] = G[i + 1]
      BY <1>8, <2>1, <3>2
    <3>. QED
      BY <1>7, <2>1, <2>3, <3>3 DEF Turns
  <2>. QED
    BY <2>2, <2>3
<1>. QED
  BY <1>9, <1>10, <1>11 DEF Tells

\* What the lines on the link e tell its reader of u is, if the link is open,
\* what the sender shows of u.
Told(u, e) ==
    \E c : /\ Tells(u, chan[e], Shown(u, e[2]), c)
           /\ e[2] \in Open(e[1]) => c = Shown(u, e[1])

\* So it is on every link away from a user that is not doomed.
Tracked == \A u \in Users : ~Doomed(u) =>
              \A e \in Edges : Away(u, e) => Told(u, e)

\* Lines added that tell what has changed at the sender.
LEMMA ToldKept ==
    ASSUME TypeOK, NEW u, NEW e \in Edges, Told(u, e),
           NEW M \in Seq(Messages), chan'[e] = chan[e] \o M,
           Shown(u, e[2])' = Shown(u, e[2]),
           (e[2] \in Open(e[1]))' => e[2] \in Open(e[1]),
           (e[2] \in Open(e[1]))' => Tells(u, M, Shown(u, e[1]), Shown(u, e[1])'),
           ~(e[2] \in Open(e[1]))' => M = <<>>
    PROVE  Told(u, e)'
<1>1. PICK c : /\ Tells(u, chan[e], Shown(u, e[2]), c)
               /\ e[2] \in Open(e[1]) => c = Shown(u, e[1])
  BY DEF Told
<1>2. chan[e] \in Seq(Messages)
  BY DEF TypeOK
<1>3. CASE (e[2] \in Open(e[1]))'
  <2>1. Tells(u, chan'[e], Shown(u, e[2])', Shown(u, e[1])')
    BY <1>1, <1>2, <1>3, TellsMore
  <2>. QED
    BY <2>1 DEF Told
<1>4. CASE ~(e[2] \in Open(e[1]))'
  <2>1. chan'[e] = chan[e]
    BY <1>2, <1>4
  <2>2. Tells(u, chan'[e], Shown(u, e[2])', c)
    BY <1>1, <2>1
  <2>. QED
    BY <1>4, <2>2 DEF Told
<1>. QED
  BY <1>3, <1>4

\* The first line read, and its reader changed as it says.
LEMMA ToldRead ==
    ASSUME TypeOK, NEW u, NEW e \in Edges, Told(u, e),
           chan[e] # <<>>, chan'[e] = Tail(chan[e]),
           Turns(u, chan[e][1], Shown(u, e[2]), Shown(u, e[2])'),
           (e[2] \in Open(e[1]))' => e[2] \in Open(e[1]),
           Shown(u, e[1])' = Shown(u, e[1])
    PROVE  Told(u, e)'
<1>1. PICK c : /\ Tells(u, chan[e], Shown(u, e[2]), c)
               /\ e[2] \in Open(e[1]) => c = Shown(u, e[1])
  BY DEF Told
<1>2. chan[e] \in Seq(Messages)
  BY DEF TypeOK
<1>3. Tells(u, chan'[e], Shown(u, e[2])', c)
  BY <1>1, <1>2, TellsRest
<1>. QED
  BY <1>1, <1>3 DEF Told

\* A link closed, or opened with a burst, whose reader does not show u.
LEMMA ToldAnew ==
    ASSUME NEW u, NEW e, Shown(u, e[2])' = Gone,
           NEW c, Tells(u, chan'[e], Gone, c),
           (e[2] \in Open(e[1]))' => c = Shown(u, e[1])'
    PROVE  Told(u, e)'
<1>1. Tells(u, chan'[e], Shown(u, e[2])', c)
  OBVIOUS
<1>. QED
  BY <1>1 DEF Told

\* What a server shows of u is as it was if its entry is.
LEMMA ShownSame ==
    ASSUME NEW u \in Users, NEW x, u \in unreg' <=> u \in unreg,
           srv'[x].nick[u] = srv[x].nick[u], srv'[x].ts[u] = srv[x].ts[u]
    PROVE  Shown(u, x)' = Shown(u, x)
  BY DEF Shown, Known, Gone

\* What s adds to the links c0 that lead away from u tells what the step does
\* to u in its own table.
Reports(u, s, c0, c1) ==
    \A e \in Edges : \E M \in Seq(Messages) :
       /\ c1[e] = c0[e] \o M
       /\ e[1] # s \/ e[2] \notin Open(s) => M = <<>>
       /\ Away(u, e) /\ e[1] = s /\ e[2] \in Open(s) =>
            Tells(u, M, Shown(u, s), Shown(u, s)')

\* Lines sent to everybody that has to be told.
LEMMA ReportsSend ==
    ASSUME NEW c \in [Edges -> Seq(Messages)], NEW s, NEW To,
           NEW msgs \in Seq(Messages), NEW u \in Users,
           Tells(u, msgs, Shown(u, s), Shown(u, s)'),
           \A t \in Open(s) \ To : <<s, t>> \in Edges /\ Away(u, <<s, t>>) =>
              Shown(u, s)' = Shown(u, s)
    PROVE  Reports(u, s, c, Sent(c, s, To, msgs))
<1>. SUFFICES ASSUME NEW e \in Edges
              PROVE  \E M \in Seq(Messages) :
                       /\ Sent(c, s, To, msgs)[e] = c[e] \o M
                       /\ e[1] # s \/ e[2] \notin Open(s) => M = <<>>
                       /\ Away(u, e) /\ e[1] = s /\ e[2] \in Open(s) =>
                            Tells(u, M, Shown(u, s), Shown(u, s)')
  BY DEF Reports
<1>1. CASE e[1] = s /\ e[2] \in To \cap Open(s)
  <2>1. Sent(c, s, To, msgs)[e] = c[e] \o msgs
    BY <1>1 DEF Sent
  <2>. QED
    BY <1>1, <2>1
<1>2. CASE ~(e[1] = s /\ e[2] \in To \cap Open(s))
  <2>1. Sent(c, s, To, msgs)[e] = c[e] /\ c[e] = c[e] \o <<>>
    BY <1>2 DEF Sent
  <2>2. ASSUME Away(u, e), e[1] = s, e[2] \in Open(s)
        PROVE  Tells(u, <<>>, Shown(u, s), Shown(u, s)')
    <3>1. e = <<s, e[2]>> /\ e[2] \in Open(s) \ To
      BY <1>2, <2>2 DEF Edges
    <3>2. Shown(u, s)' = Shown(u, s)
      BY <2>2, <3>1
    <3>. QED
      BY <3>2, TellsNone
  <2>3. <<>> \in Seq(Messages)
    OBVIOUS
  <2>. QED
    BY <2>1, <2>2, <2>3
<1>. QED
  BY <1>1, <1>2

\* The ends of doomed users tell nothing of another.
LEMMA ReportsEnds ==
    ASSUME NEW c0 \in [Edges -> Seq(Messages)], NEW c1, NEW s, EndsSent(s, c0, c1),
           NEW u \in Users,
           Shown(u, s)' = Shown(u, s)
    PROVE  Reports(u, s, c0, c1)
<1>. SUFFICES ASSUME NEW e \in Edges
              PROVE  \E M \in Seq(Messages) :
                       /\ c1[e] = c0[e] \o M
                       /\ e[1] # s \/ e[2] \notin Open(s) => M = <<>>
                       /\ Away(u, e) /\ e[1] = s /\ e[2] \in Open(s) =>
                            Tells(u, M, Shown(u, s), Shown(u, s)')
  BY DEF Reports
<1>1. PICK M \in Seq(Messages) :
        /\ c1[e] = c0[e] \o M
        /\ e[1] # s \/ e[2] \notin Open(s) => M = <<>>
        /\ \A i \in 1 .. Len(M) : M[i].type \in {"quit", "kill"}
  BY DEF EndsSent
<1>2. Tells(u, M, Shown(u, s), Shown(u, s))
  <2>1. \A i \in 1 .. Len(M) : ~Heard(u, M[i])
    BY <1>1 DEF Heard, About
  <2>. QED
    BY <2>1, TellsNothing
<1>3. Tells(u, M, Shown(u, s), Shown(u, s)')
  BY <1>2
<1>. QED
  BY <1>1, <1>3

\* A link is open after a step that leaves serv_list alone if it was before.
LEMMA OpenSame ==
    ASSUME UNCHANGED up, NEW e
    PROVE  (e[2] \in Open(e[1]))' <=> e[2] \in Open(e[1])
  BY DEF Open

\* What a line parsed does to u, and what is sent of it, keeps u followed.
LEMMA ParseTold ==
    ASSUME TypeOK, NEW r \in Servers, NEW s \in Neighbours(r), NEW type,
           Arrives(r, s, type), UNCHANGED up,
           NEW u \in Users, u \in unreg' <=> u \in unreg,
           \A x \in Servers \ {s} : srv'[x] = srv[x],
           Turns(u, Line(r, s), Shown(u, s), Shown(u, s)'),
           Route[s][Home[u]] # r => Shown(u, s)' = Shown(u, s),
           Reports(u, s, Parsed(r, s), chan'),
           NEW e \in Edges, Away(u, e), Told(u, e)
    PROVE  Told(u, e)'
<1>0. /\ s \in Servers /\ r # s /\ <<r, s>> \in Edges
      /\ Parsed(r, s) \in [Edges -> Seq(Messages)] /\ chan[e] \in Seq(Messages)
  BY ParsedType DEF Neighbours, TypeOK
<1>1. e[1] \in Servers /\ e[2] \in Servers /\ e[1] # e[2] /\ e = <<e[1], e[2]>>
  BY AwayNotHome DEF Edges
<1>2. PICK M \in Seq(Messages) :
       /\ chan'[e] = Parsed(r, s)[e] \o M
       /\ e[1] # s \/ e[2] \notin Open(s) => M = <<>>
       /\ Away(u, e) /\ e[1] = s /\ e[2] \in Open(s) =>
            Tells(u, M, Shown(u, s), Shown(u, s)')
  BY DEF Reports
<1>3. (e[2] \in Open(e[1]))' <=> e[2] \in Open(e[1])
  BY OpenSame
<1>4. \A x \in Servers \ {s} : Shown(u, x)' = Shown(u, x)
  BY ShownSame
<1>5. CASE e = <<r, s>>
  <2>0. e[1] = r /\ e[2] = s
    BY <1>5
  <2>1. /\ chan[e] # <<>> /\ chan[e][1] = Line(r, s)
        /\ Parsed(r, s)[e] = Tail(chan[e])
    BY <1>0, <1>5 DEF Arrives, Line, Parsed, TypeOK
  <2>2. chan'[e] = Tail(chan[e])
    BY <1>0, <1>2, <2>0, <2>1
  <2>3. Turns(u, chan[e][1], Shown(u, e[2]), Shown(u, e[2])')
    BY <2>0, <2>1
  <2>4. Shown(u, e[1])' = Shown(u, e[1])
    BY <1>0, <1>4, <2>0
  <2>. QED
    BY <1>3, <2>1, <2>2, <2>3, <2>4, ToldRead
<1>6. CASE e # <<r, s>>
  <2>1. chan'[e] = chan[e] \o M
    BY <1>0, <1>2, <1>6 DEF Parsed, TypeOK
  <2>2. Shown(u, e[2])' = Shown(u, e[2])
    <3>1. CASE e[2] = s
      <4>1. Route[s][Home[u]] = e[1] /\ e[1] # r
        BY <1>1, <1>6, <3>1 DEF Away
      <4>. QED
        BY <3>1, <4>1
    <3>2. CASE e[2] # s
      BY <1>1, <1>4, <3>2
    <3>. QED
      BY <3>1, <3>2
  <2>3. CASE e[1] = s
    <3>1. (e[2] \in Open(e[1]))' =>
             Tells(u, M, Shown(u, e[1]), Shown(u, e[1])')
      BY <1>2, <1>3, <2>3
    <3>2. ~(e[2] \in Open(e[1]))' => M = <<>>
      BY <1>2, <1>3, <2>3
    <3>. QED
      BY <1>3, <2>1, <2>2, <3>1, <3>2, ToldKept
  <2>4. CASE e[1] # s
    <3>1. M = <<>> /\ Shown(u, e[1])' = Shown(u, e[1])
      BY <1>1, <1>2, <1>4, <2>4
    <3>2. Tells(u, M, Shown(u, e[1]), Shown(u, e[1])')
      BY <3>1, TellsNone
    <3>. QED
      BY <1>3, <2>1, <2>2, <3>1, <3>2, ToldKept
  <2>. QED
    BY <2>3, <2>4
<1>. QED
  BY <1>5, <1>6

\* A handler spares who is not doomed after it.
LEMMA Spared ==
    ASSUME Fates, NEW s \in Servers, NEW X \in SUBSET Known(s),
           \A v \in X : v \in unreg \/ Doomed(v),
           Exited(s, X) \/ (Exited(s, {}) /\ \A v \in X : Home[v] # s),
           UNCHANGED claims, NEW u \in Users, ~Dooms(u)
    PROVE  u \notin X /\ ~Doomed(u) /\ (u \in unreg' <=> u \in unreg)
<1>1. ~Doomed(u)
  BY ExitedDoomed
<1>2. u \notin X
  <2>. SUFFICES ASSUME u \in X PROVE FALSE
    OBVIOUS
  <2>1. u \in unreg /\ u \in Known(s)
    BY <1>1
  <2>2. Home[u] = s
    BY <2>1, UnregLocal
  <2>3. fate'[u] = "overridden"
    BY <2>1, <2>2 DEF Exited
  <2>. QED
    BY <2>3 DEF Dooms
<1>. QED
  BY <1>1, <1>2 DEF Exited

\* A handler that drops users keeps the others followed.
LEMMA DroppedTold ==
    ASSUME TypeOK, Fates, NEW r \in Servers, NEW s \in Neighbours(r),
           NEW type, Arrives(r, s, type), UNCHANGED <<clock, up, claims>>,
           Dropped(r, s), NEW u \in Users, ~Dooms(u),
           NEW e \in Edges, Away(u, e), Told(u, e)
    PROVE  Told(u, e)'
<1>0. s \in Servers /\ srv[s] \in Table /\ Parsed(r, s) \in [Edges -> Seq(Messages)]
  BY ParsedType DEF Neighbours, TypeOK
<1>1. PICK X \in SUBSET Known(s) :
       /\ \A v \in X : v \in unreg \/ Doomed(v)
       /\ srv' = [srv EXCEPT ![s] = Without(srv[s], X)]
       /\ Exited(s, X) \/ (Exited(s, {}) /\ \A v \in X : Home[v] # s)
       /\ EndsSent(s, Parsed(r, s), chan')
       /\ \A v \in Users : Heard(v, Line(r, s)) => Doomed(v)
  BY DEF Dropped
<1>2. u \notin X /\ ~Doomed(u) /\ (u \in unreg' <=> u \in unreg)
  BY <1>0, <1>1, Spared
<1>3. srv'[s] = Without(srv[s], X) /\ \A x \in Servers \ {s} : srv'[x] = srv[x]
  BY <1>0, <1>1 DEF TypeOK
<1>4. Shown(u, s)' = Shown(u, s)
  <2>1. /\ Without(srv[s], X).nick[u] = srv[s].nick[u]
        /\ Without(srv[s], X).ts[u] = srv[s].ts[u]
    BY <1>2 DEF Without
  <2>. QED
    BY <1>2, <1>3, <2>1, ShownSame
<1>5. Turns(u, Line(r, s), Shown(u, s), Shown(u, s)')
  BY <1>1, <1>2, <1>4 DEF Turns, Heard, About
<1>6. Reports(u, s, Parsed(r, s), chan')
  BY <1>0, <1>1, <1>4, ReportsEnds
<1>. QED
  BY <1>2, <1>3, <1>4, <1>5, <1>6, ParseTold

\* A link does not lead away from a user both ways.
LEMMA NotBack ==
    ASSUME NEW r \in Servers, NEW s \in Servers, <<r, s>> \in Edges, NEW u \in Users,
           Route[s][Home[u]] = r
    PROVE  ~Away(u, <<s, r>>)
<1>. DEFINE e == <<r, s>>
<1>1. e \in Edges /\ e[1] = r /\ e[2] = s
  OBVIOUS
<1>2. Behind(r, s) \cap Behind(s, r) = {}
  BY <1>1, TreeAssumption
<1>3. Home[u] \in Servers
  BY ConstantsAssumption
<1>. QED
  BY <1>2, <1>3 DEF Behind, Away

\* A handler that passes a line on keeps everybody followed.
LEMMA PassedTold ==
    ASSUME TypeOK, Routed, Fates, NEW r \in Servers, NEW s \in Neighbours(r),
           NEW type, Arrives(r, s, type), UNCHANGED <<clock, up, claims>>,
           Passed(r, s), NEW u \in Users, ~Dooms(u),
           NEW e \in Edges, Away(u, e), Told(u, e)
    PROVE  Told(u, e)'
<1>0. \A w \in Users : About(w, Line(r, s)) =>
          Route[s][Home[w]] = r /\ Home[w] # s /\ w \notin unreg
  BY HeadFits, Zenon
<1>. DEFINE m == Line(r, s)
            P == Parsed(r, s)
<1>1. /\ s \in Servers /\ srv[s] \in Table /\ P \in [Edges -> Seq(Messages)]
      /\ <<r, s>> \in Edges /\ m \in Messages
  BY ParsedType DEF Neighbours, TypeOK
<1>2. PICK v \in Users, X \in SUBSET Known(s) :
       /\ About(v, m) /\ m.nick \in Nicks /\ v \notin X
       /\ IF m.type = "uid" THEN v \notin Known(s) ELSE v \in Known(s)
       /\ \A w \in X : w \in unreg \/ Doomed(w)
       /\ \/ srv' = [srv EXCEPT ![s] = Introduced(Without(srv[s], X), v, m.nick, m.ts)]
          \/ srv' = [srv EXCEPT ![s] = Renamed(Without(srv[s], X), v, m.nick, m.ts)]
       /\ Exited(s, X)
       /\ \/ chan' = Sent(P, s, Others(s, r), <<m>>)
          \/ \E a \in Users : Doomed(a) /\
               chan' = Sent(P, s, Others(s, r), <<Kill(a), m>>)
  BY DEF Passed
<1>. DEFINE W == Without(srv[s], X)
<1>3. PICK L : /\ L = Introduced(W, v, m.nick, m.ts) \/ L = Renamed(W, v, m.nick, m.ts)
               /\ srv' = [srv EXCEPT ![s] = L]
  BY <1>2
<1>4. /\ W \in Table
      /\ \A w \in Users : w \notin X => W.nick[w] = srv[s].nick[w] /\ W.ts[w] = srv[s].ts[w]
  BY <1>1, WithoutType DEF Without
<1>. HIDE DEF W, P
<1>5. /\ \A w \in Users : w # v => L.nick[w] = W.nick[w] /\ L.ts[w] = W.ts[w]
      /\ L.nick[v] = m.nick /\ L.ts[v] = m.ts /\ m.nick # NoNick
  BY <1>2, <1>3, <1>4, GivenMoves, ConstantsAssumption
<1>6. srv'[s] = L /\ \A x \in Servers \ {s} : srv'[x] = srv[x]
  BY <1>1, <1>3 DEF TypeOK
<1>7. u \notin X /\ ~Doomed(u) /\ (u \in unreg' <=> u \in unreg)
  BY <1>1, <1>2, Spared
<1>8. /\ u = v => Route[s][Home[u]] = r /\ u \notin unreg
      /\ u = v <=> About(u, m)
      /\ m.type \in {"uid", "nick"}
  <2>1. About(v, Line(r, s))
    BY <1>2
  <2>2. u = v => Route[s][Home[u]] = r /\ u \notin unreg
    BY <1>0, <2>1
  <2>. QED
    BY <1>2, <2>2 DEF About
<1>9. u # v => Shown(u, s)' = Shown(u, s)
  BY <1>4, <1>5, <1>6, <1>7, ShownSame
<1>10. ASSUME u = v
       PROVE  /\ Shown(u, s)' = [nick |-> m.nick, ts |-> m.ts]
              /\ m.type = "uid" <=> Shown(u, s) = Gone
  <2>1. Shown(u, s)' = [nick |-> m.nick, ts |-> m.ts]
    BY <1>5, <1>6, <1>7, <1>8, <1>10 DEF Shown, Known
  <2>2. m.type = "uid" <=> u \notin Known(s) \ unreg
    BY <1>2, <1>8, <1>10
  <2>. QED
    BY <2>1, <2>2, ShownGone
<1>. HIDE DEF m
<1>11. Turns(u, m, Shown(u, s), Shown(u, s)')
  BY <1>8, <1>9, <1>10 DEF Turns, Heard, About
<1>12. PICK k, k2 : k = Shown(u, s) /\ k2 = Shown(u, s)'
  OBVIOUS
<1>13. Tells(u, <<m>>, k, k2) /\ <<m>> \in Seq(Messages)
  BY <1>1, <1>11, <1>12, TellsOne DEF m
<1>14. ASSUME NEW a \in Users
       PROVE  <<Kill(a), m>> \in Seq(Messages) /\ Tells(u, <<Kill(a), m>>, k, k2)
  <2>1. Kill(a) \in Messages /\ m \in Messages
    BY <1>1, LineTypes DEF Refs, m
  <2>2. Turns(u, Kill(a), k, k)
    BY DEF Turns, Kill
  <2>3. Tells(u, <<Kill(a), m>>, k, k2)
    BY <1>11, <1>12, <2>2, TellsTwo
  <2>. QED
    BY <2>1, <2>3
<1>15. PICK msgs \in Seq(Messages) :
         chan' = Sent(P, s, Others(s, r), msgs) /\ Tells(u, msgs, k, k2)
  <2>1. CASE chan' = Sent(P, s, Others(s, r), <<m>>)
    BY <1>13, <2>1
  <2>2. ASSUME NEW a \in Users, chan' = Sent(P, s, Others(s, r), <<Kill(a), m>>)
        PROVE  \E msgs \in Seq(Messages) :
                 chan' = Sent(P, s, Others(s, r), msgs) /\ Tells(u, msgs, k, k2)
    BY <1>14, <2>2
  <2>. QED
    BY <1>2, <2>1, <2>2 DEF m
<1>16. ASSUME NEW t \in Open(s) \ Others(s, r), <<s, t>> \in Edges, Away(u, <<s, t>>)
       PROVE  Shown(u, s)' = Shown(u, s)
  <2>1. t = r
    BY <1>16 DEF Open, Others
  <2>2. u # v
    BY <1>1, <1>8, <1>16, <2>1, NotBack
  <2>. QED
    BY <1>9, <2>2
<1>17. Reports(u, s, P, chan')
  BY <1>1, <1>12, <1>15, <1>16, ReportsSend
<1>18. Route[s][Home[u]] # r => Shown(u, s)' = Shown(u, s)
  BY <1>8, <1>9
<1>. QED
  BY <1>1, <1>6, <1>7, <1>11, <1>17, <1>18, ParseTold DEF m, P

\* So does the handler of a SQUIT.
LEMMA SquitTold ==
    ASSUME TypeOK, Routed, Fates, NEW r \in Servers, NEW s \in Neighbours(r),
           RemoteSquit(r, s), NEW u \in Users,
           NEW e \in Edges, Away(u, e), Told(u, e)
    PROVE  Told(u, e)'
<1>. DEFINE m == Line(r, s)
            P == Parsed(r, s)
            X == {v \in Known(s) : Home[v] \in Behind(m.edge[1], m.edge[2])}
<1>1. /\ Arrives(r, s, "squit")
      /\ srv' = [srv EXCEPT ![s] = Without(srv[s], X)]
      /\ chan' = Sent(P, s, Others(s, r), <<m>>)
      /\ UNCHANGED <<unreg, fate, clock, up, claims>>
  BY DEF RemoteSquit
<1>2. /\ s \in Servers /\ srv[s] \in Table /\ P \in [Edges -> Seq(Messages)]
      /\ <<r, s>> \in Edges /\ m \in Messages /\ m.type = "squit"
  BY <1>1, ParsedType DEF Neighbours, TypeOK
<1>3. srv'[s] = Without(srv[s], X) /\ \A x \in Servers \ {s} : srv'[x] = srv[x]
  BY <1>1, <1>2 DEF TypeOK
<1>4. Heard(u, m) <=> Home[u] \in Behind(m.edge[1], m.edge[2])
  BY <1>2 DEF Heard, About
<1>5. Shown(u, s)' = IF Heard(u, m) THEN Gone ELSE Shown(u, s)
  <2>1. u \in X <=> u \in Known(s) /\ Heard(u, m)
    BY <1>4
  <2>. HIDE DEF X, m
  <2>2. CASE Heard(u, m)
    <3>1. ~(u \in Known(s))'
      BY <1>3, <2>1, <2>2, WithoutNick DEF Known
    <3>. QED
      BY <2>2, <3>1 DEF Shown
  <2>3. CASE ~Heard(u, m)
    <3>1. u \notin X
      BY <2>1, <2>3
    <3>2. /\ Without(srv[s], X).nick[u] = srv[s].nick[u]
          /\ Without(srv[s], X).ts[u] = srv[s].ts[u]
      BY <3>1 DEF Without
    <3>. QED
      BY <1>1, <1>3, <2>3, <3>2, ShownSame
  <2>. QED
    BY <2>2, <2>3
<1>6. Heard(u, m) => Route[s][Home[u]] = r
  <2>. DEFINE f == <<r, s>>
  <2>1. Fits(f, m) /\ f[1] = r /\ f[2] = s
    BY <1>1, HeadFits
  <2>2. Behind(m.edge[1], m.edge[2]) \subseteq Behind(s, r)
    BY <1>2, <2>1 DEF Fits
  <2>. QED
    BY <1>4, <2>2 DEF Behind
<1>. HIDE DEF m, P, X
<1>7. Turns(u, m, Shown(u, s), Shown(u, s)')
  BY <1>2, <1>4, <1>5 DEF Turns
<1>8. Tells(u, <<m>>, Shown(u, s), Shown(u, s)') /\ <<m>> \in Seq(Messages)
  BY <1>2, <1>7, TellsOne
<1>9. ASSUME NEW t \in Open(s) \ Others(s, r), <<s, t>> \in Edges, Away(u, <<s, t>>)
      PROVE  Shown(u, s)' = Shown(u, s)
  <2>1. t = r
    BY <1>9 DEF Open, Others
  <2>2. ~Heard(u, m)
    BY <1>2, <1>6, <1>9, <2>1, NotBack
  <2>. QED
    BY <1>5, <2>2
<1>10. PICK msgs \in Seq(Messages) :
         /\ chan' = Sent(P, s, Others(s, r), msgs)
         /\ Tells(u, msgs, Shown(u, s), Shown(u, s)')
  BY <1>1, <1>8
<1>11. Reports(u, s, P, chan')
  BY <1>2, <1>9, <1>10, ReportsSend
<1>12. Route[s][Home[u]] # r => Shown(u, s)' = Shown(u, s)
  BY <1>5, <1>6
<1>. QED
  BY <1>1, <1>2, <1>3, <1>7, <1>11, <1>12, ParseTold DEF m, P

\* What a command does to u at its own server, and what is sent of it, keeps u
\* followed.
LEMMA LocalTold ==
    ASSUME TypeOK, NEW u \in Users, NEW s \in Servers, UNCHANGED up,
           \A x \in Servers : x # s \/ Home[u] # s => Shown(u, x)' = Shown(u, x),
           Reports(u, s, chan, chan'),
           NEW e \in Edges, Away(u, e), Told(u, e)
    PROVE  Told(u, e)'
<1>1. e[1] \in Servers /\ e[2] \in Servers /\ e[2] # Home[u]
  BY AwayNotHome
<1>2. PICK M \in Seq(Messages) :
       /\ chan'[e] = chan[e] \o M
       /\ e[1] # s \/ e[2] \notin Open(s) => M = <<>>
       /\ Away(u, e) /\ e[1] = s /\ e[2] \in Open(s) =>
            Tells(u, M, Shown(u, s), Shown(u, s)')
  BY DEF Reports
<1>3. (e[2] \in Open(e[1]))' <=> e[2] \in Open(e[1])
  BY OpenSame
<1>4. Shown(u, e[2])' = Shown(u, e[2])
  BY <1>1
<1>5. CASE e[1] = s
  <2>1. (e[2] \in Open(e[1]))' => Tells(u, M, Shown(u, e[1]), Shown(u, e[1])')
    BY <1>2, <1>3, <1>5
  <2>2. ~(e[2] \in Open(e[1]))' => M = <<>>
    BY <1>2, <1>3, <1>5
  <2>. QED
    BY <1>2, <1>3, <1>4, <2>1, <2>2, ToldKept
<1>6. CASE e[1] # s
  <2>1. M = <<>> /\ Shown(u, e[1])' = Shown(u, e[1])
    BY <1>1, <1>2, <1>6
  <2>2. Tells(u, M, Shown(u, e[1]), Shown(u, e[1])')
    BY <2>1, TellsNone
  <2>. QED
    BY <1>2, <1>3, <1>4, <2>1, <2>2, ToldKept
<1>. QED
  BY <1>5, <1>6

\* The line a command sends to every server.
LEMMA LocalReports ==
    ASSUME TypeOK, NEW u \in Users, NEW s \in Servers, NEW m \in Messages,
           Turns(u, m, Shown(u, s), Shown(u, s)')
    PROVE  Reports(u, s, chan, Sent(chan, s, up[s], <<m>>))
<1>1. Tells(u, <<m>>, Shown(u, s), Shown(u, s)')
  BY TellsOne
<1>2. PICK msgs \in Seq(Messages) : msgs = <<m>>
  <2>1. <<m>> \in Seq(Messages)
    OBVIOUS
  <2>. QED
    BY <2>1
<1>3. Tells(u, msgs, Shown(u, s), Shown(u, s)')
  BY <1>1, <1>2
<1>4. chan \in [Edges -> Seq(Messages)] /\ Open(s) \ up[s] = {}
  BY DEF TypeOK, Open
<1>5. Reports(u, s, chan, Sent(chan, s, up[s], msgs))
  BY <1>3, <1>4, ReportsSend
<1>. QED
  BY <1>2, <1>5

\* A command of a local client keeps everybody followed.
LEMMA CommandTold ==
    ASSUME TypeOK, Fates, TS6, NEW v \in Users, NEW n, NEW t,
           \/ /\ n \in Nicks /\ t \in TSs
              /\ SetInitialNick(v, n, t) \/ ChangeNick(v, n, t)
           \/ Register(v) \/ Disconnect(v),
           NEW u \in Users, ~Dooms(u),
           NEW e \in Edges, Away(u, e), Told(u, e)
    PROVE  Told(u, e)'
<1>. DEFINE s == Home[v]
<1>0. s \in Servers /\ srv[s] \in Table /\ chan \in [Edges -> Seq(Messages)]
  BY ConstantsAssumption DEF TypeOK
<1>1. CASE n \in Nicks /\ t \in TSs /\ SetInitialNick(v, n, t)
  <2>1. /\ chan' = chan /\ up' = up /\ unreg' = unreg \cup {v}
        /\ srv'[s] = Introduced(srv[s], v, n, t)
        /\ \A x \in Servers \ {s} : srv'[x] = srv[x]
        /\ fate[v] = "connected" /\ (v \in unreg \/ srv[s].nick[v] = NoNick)
    BY <1>0, <1>1 DEF SetInitialNick, TypeOK, Known
  <2>2. \A w \in Users \ {v} : /\ srv'[s].nick[w] = srv[s].nick[w]
                               /\ srv'[s].ts[w] = srv[s].ts[w]
    BY <1>0, <2>1, GivenMoves
  <2>3. ASSUME NEW x \in Servers PROVE Shown(u, x)' = Shown(u, x)
    <3>1. CASE u = v
      <4>1. u \notin Known(x) \ unreg
        BY <2>1, <3>1 DEF Fates, Known
      <4>2. u \in unreg'
        BY <2>1, <3>1
      <4>. QED
        BY <4>1, <4>2 DEF Shown
    <3>2. CASE u # v
      BY <2>1, <2>2, <3>2, ShownSame
    <3>. QED
      BY <3>1, <3>2
  <2>4. Reports(u, s, chan, chan')
    BY <1>0, <2>1, <2>3, EndsNone, ReportsEnds
  <2>. QED
    BY <1>0, <2>1, <2>3, <2>4, LocalTold
<1>2. CASE n \in Nicks /\ t \in TSs /\ ChangeNick(v, n, t)
  <2>. DEFINE X == Holders(s, n)
              W == Without(srv[s], X)
  <2>1. /\ srv'[s] = Renamed(W, v, n, t)
        /\ \A x \in Servers \ {s} : srv'[x] = srv[x]
        /\ chan' = Sent(chan, s, up[s], <<Nick(v, n, t)>>)
        /\ v \in Known(s) /\ v \notin unreg /\ X \subseteq unreg /\ Exited(s, X)
        /\ up' = up
    BY <1>0, <1>2 DEF ChangeNick, TypeOK, Ref
  <2>2. /\ W \in Table
        /\ \A w \in Users : w \notin X =>
             W.nick[w] = srv[s].nick[w] /\ W.ts[w] = srv[s].ts[w]
    BY <1>0, WithoutType DEF Without
  <2>3. X \subseteq Known(s) /\ n # NoNick
    BY <1>2, ConstantsAssumption DEF Holders, Known
  <2>. HIDE DEF W, X
  <2>4. /\ srv'[s].nick[v] = n /\ srv'[s].ts[v] = t
        /\ \A w \in Users \ {v} : /\ srv'[s].nick[w] = W.nick[w]
                                  /\ srv'[s].ts[w] = W.ts[w]
    BY <2>1, <2>2, GivenMoves
  <2>5. u \notin X
    <3>. SUFFICES ASSUME u \in X PROVE FALSE
      OBVIOUS
    <3>1. u \in unreg /\ Home[u] = s
      BY <1>0, <2>1, <2>3, UnregLocal
    <3>2. fate'[u] = "overridden"
      BY <2>1, <3>1 DEF Exited
    <3>. QED
      BY <3>2 DEF Dooms
  <2>6. u \in unreg' <=> u \in unreg
    BY <2>1, <2>5 DEF Exited
  <2>7. \A x \in Servers : x # s \/ u # v => Shown(u, x)' = Shown(u, x)
    BY <2>1, <2>2, <2>4, <2>5, <2>6, ShownSame
  <2>8. u = v => Shown(u, s)' = [nick |-> n, ts |-> t] /\ Shown(u, s) # Gone
    <3>1. u = v => Shown(u, s)' = [nick |-> n, ts |-> t]
      BY <2>1, <2>3, <2>4, <2>6 DEF Shown, Known
    <3>2. u = v => Shown(u, s) # Gone
      BY <2>1, ShownGone
    <3>. QED
      BY <3>1, <3>2
  <2>. DEFINE m == Nick(v, n, t)
  <2>9. m \in Messages /\ m.type = "nick" /\ m.who = v /\ m.nick = n /\ m.ts = t
    BY <1>2, LineTypes DEF Refs, Nick
  <2>10. chan' = Sent(chan, s, up[s], <<m>>)
    BY <2>1
  <2>. HIDE DEF m
  <2>11. Turns(u, m, Shown(u, s), Shown(u, s)')
    BY <1>0, <2>7, <2>8, <2>9 DEF Turns, Heard, About
  <2>12. Reports(u, s, chan, chan')
    BY <1>0, <2>9, <2>10, <2>11, LocalReports
  <2>13. \A x \in Servers : x # s \/ Home[u] # s => Shown(u, x)' = Shown(u, x)
    BY <2>7
  <2>. QED
    BY <1>0, <2>1, <2>12, <2>13, LocalTold
<1>3. CASE Register(v)
  <2>1. /\ srv' = srv /\ v \in Known(s) /\ v \in unreg /\ unreg' = unreg \ {v}
        /\ chan' = Sent(chan, s, up[s], <<Uid(v, srv[s].nick[v], srv[s].ts[v])>>)
        /\ up' = up
    BY <1>3 DEF Register
  <2>2. srv[s].nick[v] \in Nicks /\ srv[s].ts[v] \in TSs
    BY <1>0, <2>1 DEF Known, Table
  <2>. DEFINE m == Uid(v, srv[s].nick[v], srv[s].ts[v])
  <2>3. /\ m \in Messages /\ m.type = "uid" /\ m.user = v
        /\ m.nick = srv[s].nick[v] /\ m.ts = srv[s].ts[v]
    BY <2>2 DEF Uid, Messages
  <2>4. ASSUME NEW x \in Servers, x # s \/ u # v
        PROVE  Shown(u, x)' = Shown(u, x)
    <3>1. CASE u = v
      <4>1. u \notin Known(x)
        BY <2>1, <2>4, <3>1, UnregLocal
      <4>. QED
        BY <2>1, <4>1 DEF Shown, Known
    <3>2. CASE u # v
      BY <2>1, <3>2, ShownSame
    <3>. QED
      BY <3>1, <3>2
  <2>5. u = v => Shown(u, s) = Gone /\ Shown(u, s)' = [nick |-> m.nick, ts |-> m.ts]
    BY <2>1, <2>3 DEF Shown, Known
  <2>6. chan' = Sent(chan, s, up[s], <<m>>)
    BY <2>1
  <2>. HIDE DEF m
  <2>7. Turns(u, m, Shown(u, s), Shown(u, s)')
    BY <1>0, <2>3, <2>4, <2>5 DEF Turns, Heard, About
  <2>8. Reports(u, s, chan, chan')
    BY <1>0, <2>3, <2>6, <2>7, LocalReports
  <2>9. \A x \in Servers : x # s \/ Home[u] # s => Shown(u, x)' = Shown(u, x)
    BY <2>4
  <2>. QED
    BY <1>0, <2>1, <2>8, <2>9, LocalTold
<1>4. CASE Disconnect(v)
  <2>1. /\ srv'[s] = Without(srv[s], {v})
        /\ \A x \in Servers \ {s} : srv'[x] = srv[x]
        /\ chan' = chan \/ chan' = Sent(chan, s, up[s], <<Quit(v)>>)
        /\ unreg' = unreg \ {v} /\ fate'[v] = "quit" /\ up' = up
    BY <1>0, <1>4 DEF Disconnect, Ref, TypeOK
  <2>2. u # v
    BY <2>1 DEF Dooms
  <2>3. srv'[s].nick[u] = srv[s].nick[u] /\ srv'[s].ts[u] = srv[s].ts[u]
    BY <2>1, <2>2 DEF Without
  <2>4. \A x \in Servers : Shown(u, x)' = Shown(u, x)
    BY <2>1, <2>2, <2>3, ShownSame
  <2>5. Quit(v) \in Messages
    BY LineTypes DEF Refs
  <2>6. Turns(u, Quit(v), Shown(u, s), Shown(u, s)')
    BY <1>0, <2>4 DEF Turns, Quit
  <2>7. Reports(u, s, chan, Sent(chan, s, up[s], <<Quit(v)>>))
    BY <1>0, <2>5, <2>6, LocalReports
  <2>8. Reports(u, s, chan, chan)
    BY <1>0, <2>4, EndsNone, ReportsEnds
  <2>9. Reports(u, s, chan, chan')
    BY <2>1, <2>7, <2>8
  <2>. QED
    BY <1>0, <2>1, <2>4, <2>9, LocalTold
<1>. QED
  BY <1>1, <1>2, <1>3, <1>4

\* Losing a link and bursting on a new one keep everybody followed.
LEMMA LinkTold ==
    ASSUME TypeOK, Routed, NEW s \in Servers, NEW t \in Neighbours(s),
           LoseLink(s, t) \/ Link(s, t),
           NEW u \in Users, NEW e \in Edges, Away(u, e), Told(u, e)
    PROVE  Told(u, e)'
<1>0. /\ t \in Servers /\ t # s /\ s # t /\ srv[s] \in Table
      /\ chan \in [Edges -> Seq(Messages)] /\ chan[e] \in Seq(Messages)
  BY DEF Neighbours, TypeOK
<1>1. /\ e[1] \in Servers /\ e[2] \in Servers /\ e[1] # e[2] /\ e[2] # Home[u]
      /\ e = <<e[1], e[2]>> /\ Route[e[2]][Home[u]] = e[1]
  BY AwayNotHome DEF Edges, Away
<1>2. <<>> \in Seq(Messages)
  OBVIOUS
<1>3. CASE LoseLink(s, t)
  <2>. DEFINE X == {v \in Known(s) : Home[v] \in Behind(s, t)}
              base == [chan EXCEPT ![<<t, s>>] = <<>>]
  <2>1. /\ srv'[s] = Without(srv[s], X)
        /\ \A x \in Servers \ {s} : srv'[x] = srv[x]
        /\ up' = [up EXCEPT ![s] = @ \ {t}] /\ unreg' = unreg
        /\ chan' = Sent(base, s, up[s] \ {t}, <<Squit(s, t)>>)
    BY <1>0, <1>3 DEF LoseLink, TypeOK
  <2>2. /\ Shown(u, s)' = IF Route[s][Home[u]] = t THEN Gone ELSE Shown(u, s)
        /\ \A x \in Servers \ {s} : Shown(u, x)' = Shown(u, x)
    <3>1. u \in Known(s) => (u \in X <=> Route[s][Home[u]] = t)
      BY ConstantsAssumption DEF Behind
    <3>. HIDE DEF X
    <3>2. \A x \in Servers \ {s} : Shown(u, x)' = Shown(u, x)
      BY <2>1, ShownSame
    <3>3. Shown(u, s)' = IF Route[s][Home[u]] = t THEN Gone ELSE Shown(u, s)
      <4>1. CASE u \in X
        <5>1. ~(u \in Known(s))'
          BY <2>1, <4>1, WithoutNick DEF Known
        <5>2. u \in Known(s)
          BY <4>1 DEF X
        <5>. QED
          BY <3>1, <4>1, <5>1, <5>2 DEF Shown
      <4>2. CASE u \notin X
        <5>1. /\ Without(srv[s], X).nick[u] = srv[s].nick[u]
              /\ Without(srv[s], X).ts[u] = srv[s].ts[u]
          BY <4>2 DEF Without
        <5>2. Shown(u, s)' = Shown(u, s)
          BY <2>1, <5>1, ShownSame
        <5>3. Route[s][Home[u]] = t => Shown(u, s) = Gone
          BY <3>1, <4>2 DEF Shown
        <5>. QED
          BY <5>2, <5>3
      <4>. QED
        BY <4>1, <4>2
    <3>. QED
      BY <3>2, <3>3
  <2>3. \A x, y \in Servers : /\ (y \in Open(x))' => y \in Open(x)
                              /\ {x, y} # {s, t} => (y \in Open(x) => (y \in Open(x))')
    BY <1>0, <2>1 DEF Open, TypeOK
  <2>4. ~(s \in Open(t))' /\ ~(t \in Open(s))'
    BY <1>0, <2>1 DEF Open, TypeOK
  <2>5. CASE e = <<t, s>>
    <3>0. e[1] = t /\ e[2] = s
      BY <2>5
    <3>1. chan'[e] = <<>>
      BY <1>0, <2>1, <2>5, <3>0 DEF Sent
    <3>2. Shown(u, e[2])' = Gone
      BY <1>1, <2>2, <3>0
    <3>3. Tells(u, chan'[e], Gone, Gone)
      BY <3>1, TellsNone
    <3>. QED
      BY <2>4, <3>0, <3>2, <3>3, ToldAnew
  <2>6. CASE e # <<t, s>>
    <3>1. base[e] = chan[e]
      BY <1>0, <2>6
    <3>. HIDE DEF base, X
    <3>2. Shown(u, e[2])' = Shown(u, e[2])
      <4>1. e[2] = s => e[1] # t
        BY <1>1, <2>6
      <4>. QED
        BY <1>1, <2>2, <4>1
    <3>3. CASE e[1] = s /\ e[2] \in (up[s] \ {t}) \cap Open(s)
      <4>. DEFINE m == Squit(s, t)
      <4>1. m \in Messages /\ m.type = "squit" /\ m.edge[1] = s /\ m.edge[2] = t
        BY <1>0 DEF Squit, Messages, Edges
      <4>2. chan'[e] = chan[e] \o <<m>>
        BY <2>1, <3>1, <3>3 DEF Sent
      <4>. HIDE DEF m
      <4>3. Heard(u, m) <=> Route[s][Home[u]] = t
        BY <4>1, ConstantsAssumption DEF Heard, About, Behind
      <4>4. Shown(u, s)' = IF Heard(u, m) THEN Gone ELSE Shown(u, s)
        BY <2>2, <4>3
      <4>5. Turns(u, m, Shown(u, s), Shown(u, s)')
        BY <4>1, <4>4 DEF Turns, Heard
      <4>6. Tells(u, <<m>>, Shown(u, s), Shown(u, s)') /\ <<m>> \in Seq(Messages)
        BY <4>1, <4>5, TellsOne
      <4>7. PICK M \in Seq(Messages) : M = <<m>>
        BY <4>6
      <4>8. Tells(u, M, Shown(u, e[1]), Shown(u, e[1])')
        BY <3>3, <4>6, <4>7
      <4>9. (e[2] \in Open(e[1]))' <=> e[2] \in Open(e[1])
        <5>1. {e[1], e[2]} # {s, t}
          BY <1>1, <3>3
        <5>. QED
          BY <1>1, <2>3, <5>1
      <4>10. chan'[e] = chan[e] \o M
        BY <4>2, <4>7
      <4>11. ~(e[2] \in Open(e[1]))' => M = <<>>
        BY <3>3, <4>9
      <4>. QED
        BY <3>2, <4>8, <4>9, <4>10, <4>11, ToldKept
    <3>4. CASE ~(e[1] = s /\ e[2] \in (up[s] \ {t}) \cap Open(s))
      <4>1. PICK M \in Seq(Messages) : M = <<>>
        BY <1>2
      <4>2. chan'[e] = chan[e] \o M
        BY <1>0, <2>1, <3>1, <3>4, <4>1 DEF Sent
      <4>3. (e[2] \in Open(e[1]))' => e[2] \in Open(e[1])
        BY <1>1, <2>3
      <4>4. (e[2] \in Open(e[1]))' => e[1] # s
        BY <2>4, <3>4, <4>3 DEF Open
      <4>5. e[1] # s => Shown(u, e[1])' = Shown(u, e[1])
        BY <1>1, <2>2
      <4>6. (e[2] \in Open(e[1]))' =>
               Tells(u, M, Shown(u, e[1]), Shown(u, e[1])')
        BY <4>1, <4>4, <4>5, TellsNone
      <4>. QED
        BY <3>2, <4>1, <4>2, <4>3, <4>6, ToldKept
    <3>. QED
      BY <3>3, <3>4
  <2>. QED
    BY <2>5, <2>6
<1>4. CASE Link(s, t)
  <2>1. PICK b \in Bursts(s), c \in Bursts(t) :
          chan' = [chan EXCEPT ![<<s, t>>] = b, ![<<t, s>>] = c]
    BY <1>4 DEF Link
  <2>2. /\ srv' = srv /\ unreg' = unreg /\ t \notin up[s] /\ s \notin up[t]
        /\ up' = [up EXCEPT ![s] = @ \cup {t}, ![t] = @ \cup {s}]
    BY <1>4 DEF Link
  <2>3. \A x \in Servers : Shown(u, x)' = Shown(u, x)
    BY <2>2, ShownSame
  <2>4. CASE e \in {<<s, t>>, <<t, s>>}
    <3>1. chan'[e] \in Bursts(e[1]) /\ e[1] \notin up[e[2]]
      <4>1. CASE e = <<s, t>>
        <5>1. e[1] = s /\ e[2] = t
          BY <4>1
        <5>2. chan'[e] = b
          BY <1>0, <2>1, <4>1, <5>1
        <5>. QED
          BY <2>2, <5>1, <5>2
      <4>2. CASE e = <<t, s>>
        <5>1. e[1] = t /\ e[2] = s
          BY <4>2
        <5>2. chan'[e] = c
          BY <1>0, <2>1, <4>2, <5>1
        <5>. QED
          BY <2>2, <5>1, <5>2
      <4>. QED
        BY <2>4, <4>1, <4>2
    <3>2. Shown(u, e[2]) = Gone
      BY <1>1, <3>1 DEF Routed, Shown
    <3>3. Tells(u, chan'[e], Gone, Shown(u, e[1]))
      BY <1>1, <3>1, TellsBurst
    <3>. QED
      BY <1>1, <2>3, <3>2, <3>3, ToldAnew
  <2>5. CASE e \notin {<<s, t>>, <<t, s>>}
    <3>1. PICK M \in Seq(Messages) : M = <<>>
      BY <1>2
    <3>2. chan'[e] = chan[e] \o M
      BY <1>0, <2>1, <2>5, <3>1
    <3>3. (e[2] \in Open(e[1]))' => e[2] \in Open(e[1])
      BY <1>0, <1>1, <2>2, <2>5 DEF Open, TypeOK
    <3>4. Tells(u, M, Shown(u, e[1]), Shown(u, e[1])')
      BY <1>1, <2>3, <3>1, TellsNone
    <3>5. Shown(u, e[2])' = Shown(u, e[2])
      BY <1>1, <2>3
    <3>. QED
      BY <3>1, <3>2, <3>3, <3>4, <3>5, ToldKept
  <2>. QED
    BY <2>4, <2>5
<1>. QED
  BY <1>3, <1>4

\* A line parsed has its effects and keeps everybody followed: a UID line is
\* for a reader that has not got the user, a NICK line for one that has.
LEMMA ParseDone ==
    ASSUME TypeOK, TypeOK', Routed, Fates, Justified, Tracked, TS6,
           NEW r \in Servers, NEW s \in Neighbours(r), Parse(r, s)
    PROVE  /\ Effects
           /\ \A u \in Users : ~Dooms(u) =>
                 \A e \in Edges : Away(u, e) /\ Told(u, e) => Told(u, e)'
<1>. DEFINE f == <<r, s>>
            m == Line(r, s)
<1>1. PICK type : Arrives(r, s, type) /\ UNCHANGED <<clock, up, claims>>
  BY ParseLeaves
<1>2. /\ s \in Servers /\ f \in Edges /\ f[1] = r /\ f[2] = s
      /\ chan[f] \in Seq(Messages) /\ chan[f] # <<>>
      /\ 1 \in 1 .. Len(chan[f]) /\ chan[f][1] = m
  <2>1. s \in Servers /\ f \in Edges
    BY <1>1, ParsedType
  <2>2. chan[f] # <<>> /\ chan[f][1] = m
    BY <1>1 DEF Arrives, Line
  <2>. QED
    BY <2>1, <2>2, HeadFirst
<1>3. m.type \in {"nick", "quit", "kill"} => m.who \in Users
  BY <1>2 DEF Justified
<1>4. Fits(f, m)
  BY <1>2 DEF Routed
<1>. HIDE DEF m
<1>5. \A u \in Users : About(u, m) => u \notin unreg
  <2>1. \A u \in Users : About(u, Line(r, s)) =>
          Route[s][Home[u]] = r /\ Home[u] # s /\ u \notin unreg
    BY <1>1, HeadFits, Zenon
  <2>. QED
    BY <2>1 DEF m
<1>6. ASSUME NEW u \in Users, About(u, m)
      PROVE  Doomed(u) \/ (m.type = "nick" <=> u \in Known(s))
  <2>. SUFFICES ASSUME ~Doomed(u) PROVE m.type = "nick" <=> u \in Known(s)
    OBVIOUS
  <2>1. Told(u, f)
    BY <1>2, <1>4, <1>6 DEF Tracked, Fits
  <2>2. PICK c : Tells(u, chan[f], Shown(u, f[2]), c)
    BY <2>1 DEF Told
  <2>3. chan[f][1].type = "nick" <=> Shown(u, f[2]) # Gone
    BY <1>2, <1>6, <2>2, TellsFirst
  <2>4. Shown(u, f[2]) # Gone <=> u \in Known(s)
    BY <1>2, <1>5, <1>6, ShownGone
  <2>. QED
    BY <1>2, <2>3, <2>4
<1>7. Dropped(r, s) \/ Passed(r, s) \/ RemoteSquit(r, s)
  BY <1>6, ParseForms DEF m
<1>8. Effects
  BY <1>1, <1>3, <1>7, DroppedEffects, PassedEffects, SquitEffects DEF m
<1>9. ASSUME NEW u \in Users, ~Dooms(u), NEW e \in Edges, Away(u, e), Told(u, e)
      PROVE  Told(u, e)'
  BY <1>1, <1>7, <1>9, DroppedTold, PassedTold, SquitTold
<1>. QED
  BY <1>8, <1>9

\* So does every step.
LEMMA NextDone ==
    ASSUME TypeOK, TypeOK', Routed, Fates, Justified, Tracked, TS6, Next
    PROVE  Effects /\ Tracked'
<1>. DEFINE Done == /\ Effects
                    /\ \A u \in Users : ~Dooms(u) =>
                          \A e \in Edges : Away(u, e) /\ Told(u, e) => Told(u, e)'
<1>1. Done
  <2>1. ASSUME NEW v \in Users, NEW n \in Nicks, NEW t \in TSs,
               SetInitialNick(v, n, t) \/ ChangeNick(v, n, t)
        PROVE  Done
    BY <2>1, CommandEffects, CommandTold
  <2>2. ASSUME NEW v \in Users, Register(v) \/ Disconnect(v) PROVE Done
    BY <2>2, CommandEffects, CommandTold
  <2>3. ASSUME NEW r \in Servers, NEW s \in Neighbours(r),
               LoseLink(r, s) \/ Link(r, s)
        PROVE  Done
    BY <2>3, LinkEffects, LinkTold
  <2>4. ASSUME NEW r \in Servers, NEW s \in Neighbours(r), Parse(r, s) PROVE Done
    BY <2>4, ParseDone
  <2>. QED
    BY <2>1, <2>2, <2>3, <2>4 DEF Next
<1>2. Tracked'
  <2>. SUFFICES ASSUME NEW u \in Users, ~Doomed(u)', NEW e \in Edges, Away(u, e)
                PROVE  Told(u, e)'
    BY DEF Tracked, Away
  <2>1. ~Dooms(u)
    BY DEF Doomed, Dooms, Lost
  <2>2. ~Doomed(u)
    BY <1>1, <2>1, DoomedStay
  <2>3. Told(u, e)
    BY <2>2 DEF Tracked
  <2>. QED
    BY <1>1, <2>1, <2>3
<1>. QED
  BY <1>1, <1>2

\* The invariant: the types, the way lines go, what becomes of a connection,
\* the reason for every nickname and every end, what the lines tell, and the
\* marks.
TSInv == IInv /\ (TS6 => Routed /\ Fates /\ Justified /\ Tracked /\ Marked)

\* Nobody has heard of anybody.
LEMMA InitTSInv == Init => TSInv
<1>. SUFFICES ASSUME Init PROVE TSInv
  OBVIOUS
<1>1. IInv /\ TypeOK
  BY InitIInv DEF IInv
<1>2. /\ \A e \in Edges : chan[e] = <<>> /\ e[1] \in Servers /\ e[2] \in Servers
      /\ \A x \in Servers : Known(x) = {} /\ up[x] = {}
      /\ \A x \in Servers, u \in Users : srv[x].nick[u] = NoNick
      /\ \A u \in Users : fate[u] = "connected" /\ Home[u] \in Servers
      /\ unreg = {}
  BY ConstantsAssumption DEF Init, Known, Edges
<1>3. \A e \in Edges : \A i \in 1 .. Len(chan[e]) : FALSE
  BY <1>2
<1>4. Routed /\ Fates /\ Justified
  BY <1>2, <1>3 DEF Routed, Fates, Justified, OnlyLosersKilled
<1>5. Tracked
  <2>. SUFFICES ASSUME NEW u \in Users, NEW e \in Edges PROVE Told(u, e)
    BY DEF Tracked
  <2>1. Shown(u, e[1]) = Gone /\ Shown(u, e[2]) = Gone /\ chan[e] = <<>>
    BY <1>2 DEF Shown
  <2>2. Tells(u, chan[e], Shown(u, e[2]), Gone)
    BY <2>1, TellsNone
  <2>. QED
    BY <2>1, <2>2 DEF Told
<1>6. ASSUME NEW u \in Users PROVE \E W \in [Servers -> Nat] : Marks(u, W)
  <2>. DEFINE W0 == [x \in Servers |-> 0]
  <2>1. W0 \in [Servers -> Nat] /\ \A x \in Servers : W0[x] = 0
    OBVIOUS
  <2>2. Home[u] \in Servers /\ clock[Home[u]] = 1
    BY ConstantsAssumption DEF Init
  <2>. HIDE DEF W0
  <2>3. Marks(u, W0)
    BY <1>2, <1>3, <2>1, <2>2 DEF Marks
  <2>. QED
    BY <2>1, <2>3
<1>. QED
  BY <1>1, <1>4, <1>5, <1>6 DEF TSInv, Marked

\* Every step preserves it.
LEMMA NextTSInv == TSInv /\ [Next]_vars => TSInv'
<1>. SUFFICES ASSUME TSInv, [Next]_vars PROVE TSInv'
  OBVIOUS
<1>1. IInv /\ IInv' /\ TypeOK /\ TypeOK'
  BY NextIInv DEF TSInv, IInv
<1>2. ASSUME TS6, Next PROVE Routed' /\ Fates' /\ Justified' /\ Tracked' /\ Marked'
  <2>1. Routed /\ Fates /\ Justified /\ Tracked /\ Effects /\ Tracked'
    BY <1>1, <1>2, NextDone DEF TSInv
  <2>2. ASSUME NEW u \in Users PROVE \E W2 \in [Servers -> Nat] : Marks(u, W2)'
    <3>1. PICK W \in [Servers -> Nat] : Marks(u, W)
      BY <1>2 DEF TSInv, Marked
    <3>. QED
      BY <1>1, <2>1, <3>1, MarksKept
  <2>3. Routed' /\ Fates' /\ Justified'
    BY <1>1, <2>1, EffectsRouted, EffectsFates, EffectsJustified
  <2>. QED
    BY <2>1, <2>2, <2>3 DEF Marked
<1>3. ASSUME TS6, UNCHANGED vars
      PROVE  Routed' /\ Fates' /\ Justified' /\ Tracked' /\ Marked'
  <2>1. Routed' /\ Fates'
    BY <1>3 DEF TSInv, Routed, Fates, Known, vars
  <2>2. Justified'
    BY <1>3 DEF TSInv, Justified, OnlyLosersKilled, Doomed, Lost, Known, vars
  <2>3. Tracked'
    BY <1>3 DEF TSInv, Tracked, Told, Shown, Doomed, Lost, Known, Open, vars
  <2>4. ASSUME NEW u \in Users PROVE \E W \in [Servers -> Nat] : Marks(u, W)'
    <3>1. PICK W \in [Servers -> Nat] : Marks(u, W)
      BY <1>3 DEF TSInv, Marked
    <3>2. Marks(u, W)'
      BY <1>3, <3>1 DEF Marks, Known, vars
    <3>. QED
      BY <3>2
  <2>. QED
    BY <2>1, <2>2, <2>3, <2>4 DEF Marked
<1>. QED
  BY <1>1, <1>2, <1>3 DEF TSInv

\* On servers that name users by UID, no line about a user is applied in
\* another order than its server sent it: a timestamp never goes back.
THEOREM TimestampsInOrder == Spec => (TS6 => TSNeverGoesBack)
<1>. SUFFICES ASSUME TS6 PROVE Spec => TSNeverGoesBack
  OBVIOUS
<1>1. ASSUME TSInv, TSInv', [Next]_vars
      PROVE  [\A s \in Servers : \A u \in Known(s) :
                srv'[s].nick[u] # NoNick => srv'[s].ts[u] >= srv[s].ts[u]]_vars
  <2>1. /\ TypeOK /\ TypeOK'
        /\ Routed /\ Fates /\ Justified /\ Tracked /\ Marked
    BY <1>1 DEF TSInv, IInv
  <2>2. ASSUME Next, NEW s \in Servers, NEW u \in Known(s), srv'[s].nick[u] # NoNick
        PROVE  srv'[s].ts[u] >= srv[s].ts[u]
    <3>1. Effects /\ u \in Users
      BY <1>1, <2>1, <2>2, NextDone DEF Known
    <3>2. PICK W \in [Servers -> Nat] : Marks(u, W)
      BY <2>1, <3>1 DEF Marked
    <3>3. Remarked(u, W)[s] \in Nat /\ W[s] <= Remarked(u, W)[s]
      BY <2>1, <3>1, <3>2, MarkGrows
    <3>4. srv[s].ts[u] = W[s] /\ Remarked(u, W)[s] = srv'[s].ts[u]
      BY <2>2, <3>2 DEF Marks, Remarked
    <3>. QED
      BY <3>2, <3>3, <3>4
  <2>. QED
    BY <1>1, <2>2
<1>. QED
  BY InitTSInv, NextTSInv, <1>1, PTL DEF Spec, TSNeverGoesBack

\* On servers that name users by UID, whoever a KILL or a collision ends has
\* lost a collision: some claim of it is beaten by another user's.
THEOREM LosersOnly == Spec => (TS6 => []OnlyLosersKilled)
<1>. SUFFICES ASSUME TS6 PROVE Spec => []OnlyLosersKilled
  OBVIOUS
<1>1. TSInv => OnlyLosersKilled
  BY DEF TSInv, Justified
<1>. QED
  BY InitTSInv, NextTSInv, <1>1, PTL DEF Spec

-----------------------------------------------------------------------------
(* What the servers know when the network is quiet *)

\* The routes are the ways of a tree, each step of which goes over a link.
LEMMA RoutesAreWays ==
    /\ TreeWays(Servers, Route)
    /\ \A s, h \in Servers : s # h =>
         <<s, Route[s][h]>> \in Edges /\ <<Route[s][h], s>> \in Edges
<1>1. \A s, x \in Servers : Route[s][x] \in Servers
  <2>1. ASSUME NEW s \in Servers PROVE Route[s] \in [Servers -> Servers]
    BY ConstantsAssumption
  <2>. QED
    BY <2>1
<1>2. \A s, x \in Servers : Route[s][x] = s <=> x = s
  BY TreeAssumption, Zenon
<1>3. ASSUME NEW r \in Servers, NEW s \in Servers, r # s,
             \E x \in Servers : Route[r][x] = s
      PROVE  /\ <<r, s>> \in Edges /\ <<s, r>> \in Edges
             /\ \A x \in Servers : Route[r][x] = s <=> Route[s][x] # r
  <2>1. PICK e \in Edges : e = <<r, s>>
    BY <1>3 DEF Edges, Neighbours
  <2>2. /\ <<s, r>> \in Edges
        /\ Behind(r, s) \cup Behind(s, r) = Servers
        /\ Behind(r, s) \cap Behind(s, r) = {}
    BY <2>1, TreeAssumption
  <2>3. \A x \in Servers : Route[r][x] = s <=> Route[s][x] # r
    BY <2>2 DEF Behind
  <2>. QED
    BY <2>1, <2>2, <2>3
<1>4. TreeWays(Servers, Route)
  BY <1>1, <1>2, <1>3, ConstantsAssumption DEF TreeWays
<1>5. ASSUME NEW s \in Servers, NEW h \in Servers, s # h
      PROVE  <<s, Route[s][h]>> \in Edges /\ <<Route[s][h], s>> \in Edges
  BY <1>1, <1>2, <1>3, <1>5
<1>. QED
  BY <1>4, <1>5

\* Over a link with nothing on it, the two ends show the same of who is not
\* doomed.
LEMMA QuietLink ==
    ASSUME TypeOK, Tracked, Quiet, NEW u \in Users, ~Doomed(u),
           NEW s \in Servers \ {Home[u]}
    PROVE  Shown(u, s) = Shown(u, Route[s][Home[u]])
<1>. DEFINE r == Route[s][Home[u]]
            e == <<r, s>>
            q == chan[e]
<1>1. /\ Home[u] \in Servers /\ e \in Edges /\ <<s, r>> \in Edges
      /\ e[1] = r /\ e[2] = s /\ Away(u, e)
  BY ConstantsAssumption, RoutesAreWays DEF Away
<1>2. q = <<>> /\ e[2] \in Open(e[1])
  BY <1>1 DEF Quiet, Open
<1>3. Tells(u, q, Shown(u, s), Shown(u, r))
  BY <1>1, <1>2 DEF Tracked, Told
<1>. HIDE DEF e, q, r
<1>4. PICK G : G[1] = Shown(u, s) /\ G[Len(q) + 1] = Shown(u, r)
  BY <1>3 DEF Tells
<1>5. Len(q) + 1 = 1
  BY <1>2
<1>. QED
  BY <1>4, <1>5 DEF r

\* So do all servers: a server shows what the next one towards the server of u
\* shows.
LEMMA QuietNetwork ==
    ASSUME TypeOK, Tracked, Quiet, NEW u \in Users, ~Doomed(u)
    PROVE  \A s \in Servers : Shown(u, s) = Shown(u, Home[u])
<1>. DEFINE h == Home[u]
            G == {s \in Servers : Shown(u, s) = Shown(u, h)}
<1>1. h \in Servers /\ h \in G
  BY ConstantsAssumption
<1>2. ASSUME NEW s \in Servers \ {h}, Route[s][h] \in G PROVE s \in G
  <2>1. Shown(u, s) = Shown(u, Route[s][h])
    BY QuietLink
  <2>. QED
    BY <1>2, <2>1
<1>. HIDE DEF G, h
<1>3. \A s \in Servers \ {h} : Route[s][h] \in G => s \in G
  BY <1>2
<1>4. Servers \subseteq G
  BY <1>1, <1>3, RoutesAreWays, AllAlongTheWay
<1>. QED
  BY <1>4 DEF G, h

\* Once the network is quiet, every server has every registered user that has
\* lost no collision, under the nickname and timestamp it has at home.
WinnersKnown ==
    Quiet => \A u \in Online : ~Lost(u) => \A s \in Servers :
               /\ srv[s].nick[u] = srv[Home[u]].nick[u]
               /\ srv[s].ts[u] = srv[Home[u]].ts[u]

\* A collision never costs a user that lost none anything: on servers that
\* name users by UID, every server has it when the network is quiet, under the
\* nickname and timestamp its own server has (IntroductionWins, RenameWins and
\* every QUIT and KILL spare it wherever they are handled).
THEOREM WinnersAgreed == Spec => (TS6 => []WinnersKnown)
<1>. SUFFICES ASSUME TS6 PROVE Spec => []WinnersKnown
  OBVIOUS
<1>1. ASSUME TSInv PROVE WinnersKnown
  <2>. SUFFICES ASSUME Quiet, NEW u \in Online, ~Lost(u), NEW s \in Servers
                PROVE  /\ srv[s].nick[u] = srv[Home[u]].nick[u]
                       /\ srv[s].ts[u] = srv[Home[u]].ts[u]
    BY DEF WinnersKnown
  <2>1. u \in Users /\ u \in Known(Home[u]) \ unreg /\ Home[u] \in Servers
    BY ConstantsAssumption DEF Online
  <2>2. TypeOK /\ Fates /\ Tracked
    BY <1>1 DEF TSInv, IInv
  <2>3. ~Doomed(u)
    BY <2>1, <2>2 DEF Doomed, Fates, Known
  <2>4. Shown(u, s) = Shown(u, Home[u])
    BY <2>1, <2>2, <2>3, QuietNetwork
  <2>5. Shown(u, Home[u]) =
          [nick |-> srv[Home[u]].nick[u], ts |-> srv[Home[u]].ts[u]]
    BY <2>1 DEF Shown
  <2>6. u \in Known(s) \ unreg
    BY <2>1, <2>4, ShownGone
  <2>7. Shown(u, s) = [nick |-> srv[s].nick[u], ts |-> srv[s].ts[u]]
    BY <2>6 DEF Shown
  <2>. QED
    BY <2>4, <2>5, <2>7
<1>. QED
  BY InitTSInv, NextTSInv, <1>1, PTL DEF Spec
=============================================================================
