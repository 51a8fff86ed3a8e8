-------------------------- MODULE ChannelTSProofs --------------------------
(***************************************************************************)
(* Theorems of ChannelTS for every tree of servers, every set of users and *)
(* every bound: the variables keep their types; between TS6 servers nobody *)
(* is an operator on any server by virtue of a younger channel; a channel  *)
(* somebody is on never becomes younger; and in a quiet network whoever is *)
(* on the channel at home is on it everywhere.                             *)
(*                                                                         *)
(* OpsGranted is not inductive: an operator may come from an SJOIN or a    *)
(* TMODE that is still on a link.  The invariant Inv below says the same   *)
(* of those lines, with the timestamp each of them carries.                *)
(*                                                                         *)
(* MembersKnownEverywhere speaks of quiet networks only.  The invariant    *)
(* OnInv says of every link what the lines on it will make of the members  *)
(* on its far side: whoever is behind the near side and on the channel     *)
(* there will be on it, or a KICK is on its way back.                      *)
(***************************************************************************)
EXTENDS ChannelTS, ListLemmas

\* GrantedBy, of a given history.
Granted(G, u, ts) == \E k \in 1 .. ts : <<u, k>> \in G

\* Channels whose operators were made such on that channel or an older one.
SoundChannels(G) ==
    {L \in Channels : TS6 => \A u \in L.op : Granted(G, u, L.ts)}

\* Lines that make nobody operator who is not one by the timestamp they carry.
SoundLines(G) ==
    {m \in Messages : TS6 =>
        /\ m.type = "sjoin" => \A u \in m.ops : Granted(G, u, m.ts)
        /\ m.type = "op" /\ m.add => Granted(G, m.target, m.ts)}

\* The inductive invariant.
Inv ==
    /\ srv \in [Servers -> SoundChannels(grants)]
    /\ chan \in [Edges -> Seq(SoundLines(grants))]
    /\ clock \in [Servers -> TSs]
    /\ up \in [Servers -> SUBSET Servers]
    /\ grants \subseteq Users \X TSs
    /\ banned \subseteq Users \X TSs
    /\ commands \in Nat
    /\ splits \in Nat

-----------------------------------------------------------------------------
(* What was granted stays granted *)

\* A member made operator of a channel is one of any younger channel too.
LEMMA GrantedYounger ==
    ASSUME NEW G, NEW u, NEW t \in Nat, NEW ts \in Nat, t <= ts, Granted(G, u, t)
    PROVE  Granted(G, u, ts)
  BY DEF Granted

\* A longer history grants more.
LEMMA GrantedMonotone ==
    ASSUME NEW G, NEW H, G \subseteq H
    PROVE  /\ SoundChannels(G) \subseteq SoundChannels(H)
           /\ SoundLines(G) \subseteq SoundLines(H)
           /\ Seq(SoundLines(G)) \subseteq Seq(SoundLines(H))
<1>1. \A u, ts : Granted(G, u, ts) => Granted(H, u, ts)
  BY DEF Granted
<1>2. SoundChannels(G) \subseteq SoundChannels(H)
  BY <1>1 DEF SoundChannels
<1>3. SoundLines(G) \subseteq SoundLines(H)
  BY <1>1 DEF SoundLines
<1>. QED
  BY <1>2, <1>3, SeqMonotonic

-----------------------------------------------------------------------------
(* The operators on a channel *)

\* The fields of a channel.
LEMMA ChannelFields ==
    ASSUME NEW L \in Channels
    PROVE  /\ L.on \subseteq Users /\ L.op \subseteq L.on
           /\ L.deopped \subseteq L.on \ L.op
           /\ L.ts \in 0 .. MaxTS /\ (L.on # {} => L.ts # 0)
           /\ L.modes \subseteq Modes /\ L.bans \subseteq Users
  BY DEF Channels

\* A record with those fields is a channel.
LEMMA ChannelMade ==
    ASSUME NEW on \in SUBSET Users, NEW op \in SUBSET on,
           NEW deopped \in SUBSET (on \ op), NEW ts \in 0 .. MaxTS,
           on # {} => ts # 0,
           NEW modes \in SUBSET Modes, NEW bans \in SUBSET Users
    PROVE  [on |-> on, op |-> op, deopped |-> deopped, ts |-> ts,
            modes |-> modes, bans |-> bans] \in Channels
  BY DEF Channels

\* The first member of a channel is its operator.
LEMMA MadeChannel ==
    ASSUME NEW L \in Channels, L.on = {}, NEW u \in Users, NEW ts \in TSs
    PROVE  /\ Made(L, u, ts) \in Channels
           /\ Made(L, u, ts).op = {u} /\ Made(L, u, ts).ts = ts
<1>. DEFINE R == Made(L, u, ts)
<1>1. L.op = {} /\ L.deopped = {}
  BY ChannelFields
<1>2. ts \in 0 .. MaxTS /\ ts # 0
  BY ConstantsAssumption DEF TSs
<1>3. R.on = {u} /\ R.op = {u} /\ R.deopped = {} /\ R.ts = ts
  BY <1>1 DEF Made, Channels
<1>4. L.modes \cup NewModes \in SUBSET Modes /\ {u} \in SUBSET Users
  BY ChannelFields, ConstantsAssumption
<1>5. R \in [on : SUBSET Users, op : SUBSET Users, deopped : SUBSET Users,
             ts : 0 .. MaxTS, modes : SUBSET Modes, bans : SUBSET Users]
  BY <1>2, <1>4 DEF Made, Channels
<1>. HIDE DEF R
<1>6. R \in Channels
  BY <1>2, <1>3, <1>5 DEF Channels
<1>. QED
  BY <1>3, <1>6 DEF R

\* A channel nobody is on can be given any timestamp.
LEMMA StampedChannel ==
    ASSUME NEW L \in Channels, L.on = {}, NEW ts \in TSs
    PROVE  /\ [L EXCEPT !.ts = ts] \in Channels
           /\ [L EXCEPT !.ts = ts].op = {}
<1>. DEFINE R == [L EXCEPT !.ts = ts]
<1>1. L.op = {} /\ L.deopped = {}
  BY ChannelFields
<1>2. ts \in 0 .. MaxTS /\ ts # 0
  BY ConstantsAssumption DEF TSs
<1>3. R.on = {} /\ R.op = {} /\ R.deopped = {} /\ R.ts = ts
  BY <1>1 DEF Channels
<1>4. R \in [on : SUBSET Users, op : SUBSET Users, deopped : SUBSET Users,
             ts : 0 .. MaxTS, modes : SUBSET Modes, bans : SUBSET Users]
  BY <1>2 DEF Channels
<1>. HIDE DEF R
<1>5. R \in Channels
  BY <1>2, <1>3, <1>4 DEF Channels
<1>. QED
  BY <1>3, <1>5 DEF R

\* The channel nobody has is sound.
LEMMA NoChannelSound ==
    ASSUME NEW G
    PROVE  NoChannel \in SoundChannels(G)
  BY ConstantsAssumption DEF NoChannel, SoundChannels, Channels

\* Members who leave take nothing but their own status with them.
LEMMA LeftSound ==
    ASSUME NEW G, NEW L \in SoundChannels(G), NEW X
    PROVE  Left(L, X) \in SoundChannels(G)
<1>1. L \in Channels
  BY DEF SoundChannels
<1>2. CASE L.on \cap X # {} /\ L.on \subseteq X
  BY <1>2, NoChannelSound DEF Left
<1>3. CASE ~ (L.on \cap X # {} /\ L.on \subseteq X)
  <2>. DEFINE R == [L EXCEPT !.on = @ \ X, !.op = @ \ X, !.deopped = @ \ X]
  <2>1. Left(L, X) = R
    BY <1>3 DEF Left
  <2>2. R \in Channels
    BY <1>1 DEF Channels
  <2>3. R.op \subseteq L.op /\ R.ts = L.ts
    BY <1>1 DEF Channels
  <2>. QED
    BY <2>1, <2>2, <2>3 DEF SoundChannels
<1>. QED
  BY <1>2, <1>3

\* A member can be given op if he is an operator of the channel's timestamp,
\* and can lose it always.
LEMMA SetOpSound ==
    ASSUME NEW G, NEW L \in SoundChannels(G), NEW v \in L.on,
           NEW add \in BOOLEAN, TS6 /\ add => Granted(G, v, L.ts)
    PROVE  SetOp(L, v, add) \in SoundChannels(G)
<1>1. L \in Channels
  BY DEF SoundChannels
<1>2. SetOp(L, v, add) \in Channels
  BY <1>1 DEF Channels, SetOp
<1>3. /\ SetOp(L, v, add).ts = L.ts
      /\ \A u \in SetOp(L, v, add).op : u \in L.op \/ (add /\ u = v)
  BY <1>1 DEF Channels, SetOp
<1>. QED
  BY <1>2, <1>3 DEF SoundChannels

\* Simple modes and bans touch no operator.
LEMMA SetModeSound ==
    ASSUME NEW G, NEW L \in SoundChannels(G), NEW md \in Modes,
           NEW add \in BOOLEAN
    PROVE  SetMode(L, md, add) \in SoundChannels(G)
  BY DEF SetMode, SoundChannels, Channels

LEMMA SetBanSound ==
    ASSUME NEW G, NEW L \in SoundChannels(G), NEW b \in Users,
           NEW add \in BOOLEAN
    PROVE  SetBan(L, b, add) \in SoundChannels(G)
  BY DEF SetBan, SoundChannels, Channels

\* Bans can be replaced by any others.
LEMMA BansSound ==
    ASSUME NEW G, NEW L \in SoundChannels(G), NEW B \in SUBSET Users
    PROVE  [L EXCEPT !.bans = B] \in SoundChannels(G)
  BY DEF SoundChannels, Channels

\* The timestamp rules: merging a channel with a line whose operators are
\* such by the line's timestamp gives a sound channel.
LEMMA MergedSound ==
    ASSUME NEW G, NEW L \in SoundChannels(G), NEW ts \in TSs,
           NEW modes \in SUBSET Modes, NEW members \in SUBSET Users,
           NEW ops \in SUBSET members,
           TS6 => \A u \in ops : Granted(G, u, ts)
    PROVE  Merged(L, ts, modes, members, ops) \in SoundChannels(G)
<1>. DEFINE R == Merged(L, ts, modes, members, ops)
<1>1. L \in Channels
  BY DEF SoundChannels
<1>2. L.ts \in 0 .. MaxTS /\ ts \in 1 .. MaxTS /\ MaxTS \in Nat
  BY <1>1, ChannelFields, ConstantsAssumption DEF TSs
<1>3. R.ts \in 1 .. MaxTS /\ R.ts = IF Younger(L, ts) THEN L.ts ELSE ts
  BY <1>2 DEF Merged, Younger
<1>4. R \in Channels
  <2>1. /\ R.on \in SUBSET Users
        /\ R.modes \in SUBSET Modes /\ R.bans \in SUBSET Users
    BY <1>1, ChannelFields DEF Merged
  <2>2. R.op \in SUBSET R.on
    BY <1>1, ChannelFields DEF Merged
  <2>3. R.deopped \in SUBSET (R.on \ R.op)
    <3>1. /\ L.op \subseteq L.on /\ L.deopped \subseteq L.on \ L.op
      BY <1>1, ChannelFields
    <3>. QED
      BY <3>1 DEF Merged
  <2>4. R.ts \in 0 .. MaxTS /\ R.ts # 0
    BY <1>2, <1>3
  <2>5. R = [on |-> R.on, op |-> R.op, deopped |-> R.deopped, ts |-> R.ts,
             modes |-> R.modes, bans |-> R.bans]
    BY DEF Merged
  <2>. HIDE DEF R
  <2>6. [on |-> R.on, op |-> R.op, deopped |-> R.deopped, ts |-> R.ts,
         modes |-> R.modes, bans |-> R.bans] \in Channels
    BY <2>1, <2>2, <2>3, <2>4, ChannelMade
  <2>. QED
    BY <2>5, <2>6
<1>5. ASSUME TS6, NEW u \in R.op PROVE Granted(G, u, R.ts)
  <2>1. CASE u \in L.op /\ ~ Older(L, ts)
    <3>1. Granted(G, u, L.ts)
      BY <1>5, <2>1 DEF SoundChannels
    <3>2. L.ts # 0
      BY <1>1, <2>1, ChannelFields
    <3>3. L.ts <= R.ts
      BY <1>2, <1>3, <2>1, <3>2 DEF Older, Younger
    <3>. QED
      BY <1>2, <1>3, <3>1, <3>3, GrantedYounger
  <2>2. CASE u \in ops /\ ~ Younger(L, ts)
    BY <1>3, <1>5, <2>2
  <2>3. (u \in L.op /\ ~ Older(L, ts)) \/ (u \in ops /\ ~ Younger(L, ts))
    BY <1>5 DEF Merged
  <2>. QED
    BY <2>1, <2>2, <2>3
<1>. QED
  BY <1>4, <1>5 DEF SoundChannels

-----------------------------------------------------------------------------
(* Lines and links *)

\* Sending appends lines of a kind to links of that kind.
LEMMA SentSeq ==
    ASSUME NEW S, NEW ch \in [Edges -> Seq(S)], NEW s, NEW To,
           NEW msgs \in Seq(S)
    PROVE  Sent(ch, s, To, msgs) \in [Edges -> Seq(S)]
  BY DEF Sent

\* The same, of one line.
LEMMA SentLine ==
    ASSUME NEW S, NEW ch \in [Edges -> Seq(S)], NEW s, NEW To, NEW m \in S
    PROVE  Sent(ch, s, To, <<m>>) \in [Edges -> Seq(S)]
<1>1. <<m>> \in Seq(S)
  OBVIOUS
<1>. QED
  BY <1>1, SentSeq

\* The fields of a line, by its kind.
LEMMA LineFields ==
    ASSUME NEW m \in Messages
    PROVE  /\ m.type = "sjoin" =>
                /\ m.ts \in TSs /\ m.modes \subseteq Modes /\ m.zero \in BOOLEAN
                /\ m.members \subseteq Users /\ m.ops \subseteq Users
           /\ m.type = "join" => m.who \in Users /\ m.ts \in TSs
           /\ m.type = "part" \/ m.type = "kick" => m.who \in Users
           /\ m.type = "op" => /\ m.who \in Users /\ m.ts \in Stamps
                               /\ m.target \in Users /\ m.add \in BOOLEAN
           /\ m.type = "mode" => /\ m.who \in Users /\ m.ts \in Stamps
                                 /\ m.mode \in Modes /\ m.add \in BOOLEAN
           /\ m.type = "ban" => /\ m.who \in Users /\ m.ts \in Stamps
                                /\ m.mask \in Users /\ m.add \in BOOLEAN
           /\ m.type = "bmask" => m.ts \in Stamps /\ m.masks \subseteq Users
           /\ m.type = "squit" => m.edge \in Edges
  BY DEF Messages

\* An SJOIN is sound when its operators are such by its timestamp.
LEMMA SjoinSound ==
    ASSUME NEW G, NEW ts \in TSs, NEW modes \in SUBSET Modes,
           NEW zero \in BOOLEAN, NEW members \in SUBSET Users,
           NEW ops \in SUBSET Users, TS6 => \A u \in ops : Granted(G, u, ts)
    PROVE  Sjoin(ts, modes, zero, members, ops) \in SoundLines(G)
<1>1. Sjoin(ts, modes, zero, members, ops) \in Messages
  BY DEF Sjoin, Messages
<1>2. /\ Sjoin(ts, modes, zero, members, ops).type = "sjoin"
      /\ Sjoin(ts, modes, zero, members, ops).ops = ops
      /\ Sjoin(ts, modes, zero, members, ops).ts = ts
  BY DEF Sjoin
<1>. QED
  BY <1>1, <1>2 DEF SoundLines

\* A user who joins a channel that exists is announced without status.
LEMMA JoinLineSound ==
    ASSUME NEW G, NEW u \in Users, NEW ts \in TSs
    PROVE  JoinLine(u, ts) \in SoundLines(G)
<1>1. Sjoin(ts, {}, FALSE, {u}, {}) \in SoundLines(G)
  BY SjoinSound
<1>2. [type |-> "join", who |-> u, ts |-> ts] \in SoundLines(G)
  BY DEF SoundLines, Messages
<1>. QED
  BY <1>1, <1>2 DEF JoinLine

\* A mode change that goes out has the timestamp of the sender's channel.
LEMMA StampType ==
    ASSUME NEW ts \in TSs
    PROVE  Stamp(ts) \in Stamps /\ (TS6 => Stamp(ts) = ts)
  BY DEF Stamp, Stamps

\* The remaining lines; only +o has to be granted.
LEMMA LineSound ==
    ASSUME NEW G
    PROVE  /\ \A u \in Users :
                /\ [type |-> "part", who |-> u] \in SoundLines(G)
                /\ [type |-> "kick", who |-> u] \in SoundLines(G)
           /\ \A u, v \in Users, ts \in Stamps, add \in BOOLEAN :
                (TS6 /\ add => Granted(G, v, ts)) =>
                  [type |-> "op", who |-> u, ts |-> ts,
                   target |-> v, add |-> add] \in SoundLines(G)
           /\ \A u \in Users, md \in Modes, ts \in Stamps, add \in BOOLEAN :
                [type |-> "mode", who |-> u, ts |-> ts,
                 mode |-> md, add |-> add] \in SoundLines(G)
           /\ \A u, b \in Users, ts \in Stamps, add \in BOOLEAN :
                [type |-> "ban", who |-> u, ts |-> ts,
                 mask |-> b, add |-> add] \in SoundLines(G)
           /\ \A ts \in Stamps, B \in SUBSET Users :
                [type |-> "bmask", ts |-> ts, masks |-> B] \in SoundLines(G)
           /\ \A e \in Edges : [type |-> "squit", edge |-> e] \in SoundLines(G)
<1>1. \A u \in Users :
        /\ [type |-> "part", who |-> u] \in SoundLines(G)
        /\ [type |-> "kick", who |-> u] \in SoundLines(G)
  BY DEF SoundLines, Messages
<1>2. ASSUME NEW u \in Users, NEW v \in Users, NEW ts \in Stamps,
             NEW add \in BOOLEAN, TS6 /\ add => Granted(G, v, ts)
      PROVE  [type |-> "op", who |-> u, ts |-> ts,
              target |-> v, add |-> add] \in SoundLines(G)
  <2>1. [type |-> "op", who |-> u, ts |-> ts, target |-> v, add |-> add] \in Messages
    BY DEF Messages
  <2>. QED
    BY <1>2, <2>1 DEF SoundLines
<1>3. ASSUME NEW u \in Users, NEW md \in Modes, NEW ts \in Stamps,
             NEW add \in BOOLEAN
      PROVE  [type |-> "mode", who |-> u, ts |-> ts,
              mode |-> md, add |-> add] \in SoundLines(G)
  BY DEF SoundLines, Messages
<1>4. ASSUME NEW u \in Users, NEW b \in Users, NEW ts \in Stamps,
             NEW add \in BOOLEAN
      PROVE  [type |-> "ban", who |-> u, ts |-> ts,
              mask |-> b, add |-> add] \in SoundLines(G)
  BY DEF SoundLines, Messages
<1>5. ASSUME NEW ts \in Stamps, NEW B \in SUBSET Users
      PROVE  [type |-> "bmask", ts |-> ts, masks |-> B] \in SoundLines(G)
  BY DEF SoundLines, Messages
<1>6. \A e \in Edges : [type |-> "squit", edge |-> e] \in SoundLines(G)
  BY DEF SoundLines, Messages
<1>. QED
  BY <1>1, <1>2, <1>3, <1>4, <1>5, <1>6

\* What a server parses is a sound line, and the rest of its links is sound.
LEMMA ParsedSound ==
    ASSUME Inv, NEW r \in Servers, NEW s \in Neighbours(r), NEW type,
           Arrives(r, s, type)
    PROVE  /\ s \in Servers /\ srv[s] \in SoundChannels(grants)
           /\ Line(r, s) \in SoundLines(grants)
           /\ Line(r, s) \in Messages
           /\ Line(r, s).type = type
           /\ Parsed(r, s) \in [Edges -> Seq(SoundLines(grants))]
<1>1. s \in Servers /\ <<r, s>> \in Edges
  BY DEF Neighbours, Edges
<1>2. chan[<<r, s>>] \in Seq(SoundLines(grants)) /\ chan[<<r, s>>] # <<>>
  BY <1>1 DEF Inv, Arrives
<1>3. Line(r, s) \in SoundLines(grants)
      /\ Tail(chan[<<r, s>>]) \in Seq(SoundLines(grants))
  BY <1>2 DEF Line
<1>4. Parsed(r, s) \in [Edges -> Seq(SoundLines(grants))]
  BY <1>1, <1>3 DEF Parsed, Inv
<1>. QED
  BY <1>1, <1>3, <1>4 DEF Inv, SoundLines, Arrives, Line

-----------------------------------------------------------------------------
(* The handlers keep the invariant: one lemma for each *)

\* A handler keeps the invariant when the channel it leaves on its server and
\* the links are sound.
LEMMA HandledKeeps ==
    ASSUME Inv, NEW s \in Servers, Handled,
           NEW L \in SoundChannels(grants), srv' = [srv EXCEPT ![s] = L],
           chan' \in [Edges -> Seq(SoundLines(grants))]
    PROVE  Inv'
  BY DEF Inv, Handled

\* ms_sjoin.
LEMMA SjoinKeeps ==
    ASSUME Inv, NEW r \in Servers, NEW s \in Neighbours(r), RemoteSjoin(r, s)
    PROVE  Inv'
<1>. DEFINE G == grants
            m == Line(r, s)
            L == srv[s]
            names == {u \in m.members : From(s, u) = r}
            ops == m.ops \cap names
            new == Merged(L, m.ts, m.modes, names, ops)
            zero == m.zero \/ Younger(L, m.ts)
            relayed == Sjoin(new.ts, IF zero THEN {} ELSE new.modes, zero, names,
                             IF Younger(L, m.ts) THEN {} ELSE ops)
<1>1. /\ s \in Servers /\ L \in SoundChannels(G)
      /\ m \in SoundLines(G) /\ m \in Messages /\ m.type = "sjoin"
      /\ Parsed(r, s) \in [Edges -> Seq(SoundLines(G))]
  BY ParsedSound DEF RemoteSjoin
<1>2. /\ m.ts \in TSs /\ m.modes \in SUBSET Modes /\ m.zero \in BOOLEAN
      /\ names \in SUBSET Users /\ ops \in SUBSET names
      /\ TS6 => \A u \in ops : Granted(G, u, m.ts)
  BY <1>1, LineFields DEF SoundLines
<1>3. new \in SoundChannels(G)
  <2>. HIDE DEF L, m, names, ops
  <2>. QED
    BY <1>1, <1>2, MergedSound
<1>4. [new EXCEPT !.bans = {}] \in SoundChannels(G)
  <2>. HIDE DEF new
  <2>. QED
    BY <1>3, BansSound
<1>5. relayed \in SoundLines(G)
  <2>1. new.ts = IF Younger(L, m.ts) THEN L.ts ELSE m.ts
    BY DEF Merged
  <2>2. L.ts \in 0 .. MaxTS /\ (Younger(L, m.ts) => L.ts # 0)
    BY <1>1, ChannelFields DEF SoundChannels, Younger
  <2>3. new.ts \in TSs
    BY <1>2, <2>1, <2>2, ConstantsAssumption DEF TSs
  <2>4. (IF zero THEN {} ELSE new.modes) \in SUBSET Modes
    <3>1. new \in Channels
      BY <1>3 DEF SoundChannels
    <3>. HIDE DEF new, zero
    <3>. QED
      BY <3>1, ChannelFields
  <2>5. zero \in BOOLEAN
    BY <1>2 DEF Younger
  <2>6. /\ (IF Younger(L, m.ts) THEN {} ELSE ops) \in SUBSET Users
        /\ TS6 => \A u \in (IF Younger(L, m.ts) THEN {} ELSE ops) :
                    Granted(G, u, new.ts)
    <3>. HIDE DEF L, m, names, ops, new, G
    <3>. QED
      BY <1>2, <2>1
  <2>. HIDE DEF L, m, names, ops, new, zero, G
  <2>. QED
    BY <1>2, <2>3, <2>4, <2>5, <2>6, SjoinSound
<1>6. Sent(Parsed(r, s), s, Others(s, r), <<relayed>>)
        \in [Edges -> Seq(SoundLines(G))]
  <2>. HIDE DEF relayed
  <2>. QED
    BY <1>1, <1>5, SentLine
<1>7. /\ srv' = [srv EXCEPT ![s] = IF TS6 /\ Older(L, m.ts)
                                   THEN [new EXCEPT !.bans = {}] ELSE new]
      /\ chan' = IF names = {} THEN Parsed(r, s)
                 ELSE Sent(Parsed(r, s), s, Others(s, r), <<relayed>>)
      /\ Handled
  BY DEF RemoteSjoin
<1>. HIDE DEF L, m, names, ops, new, relayed
<1>. QED
  BY <1>1, <1>3, <1>4, <1>6, <1>7, HandledKeeps

\* ms_join.
LEMMA JoinKeeps ==
    ASSUME Inv, NEW r \in Servers, NEW s \in Neighbours(r), RemoteJoin(r, s)
    PROVE  Inv'
<1>. DEFINE G == grants
            m == Line(r, s)
            L == srv[s]
            new == Merged(L, m.ts, {}, {m.who}, {})
<1>1. /\ s \in Servers /\ L \in SoundChannels(G)
      /\ m \in Messages /\ m.type = "join"
      /\ Parsed(r, s) \in [Edges -> Seq(SoundLines(G))]
  BY ParsedSound DEF RemoteJoin
<1>2. m.ts \in TSs /\ m.who \in Users
  BY <1>1, LineFields
<1>3. new \in SoundChannels(G)
  <2>. HIDE DEF L, m
  <2>. QED
    BY <1>1, <1>2, MergedSound
<1>4. new.ts \in TSs
  <2>1. L.ts \in 0 .. MaxTS /\ (Younger(L, m.ts) => L.ts # 0)
    BY <1>1, ChannelFields DEF SoundChannels, Younger
  <2>. QED
    BY <1>2, <2>1, ConstantsAssumption DEF Merged, TSs
<1>5. JoinLine(m.who, new.ts) \in SoundLines(G)
  <2>. HIDE DEF m, new
  <2>. QED
    BY <1>2, <1>4, JoinLineSound
<1>6. Sent(Parsed(r, s), s, Others(s, r), <<JoinLine(m.who, new.ts)>>)
        \in [Edges -> Seq(SoundLines(G))]
  BY <1>1, <1>5, SentLine
<1>7. /\ srv' = [srv EXCEPT ![s] = new]
      /\ chan' = Sent(Parsed(r, s), s, Others(s, r), <<JoinLine(m.who, new.ts)>>)
      /\ Handled
  BY DEF RemoteJoin
<1>. HIDE DEF L, m, new
<1>. QED
  BY <1>1, <1>3, <1>6, <1>7, HandledKeeps

\* part_one_client, m_kick.
LEMMA RemovesKeeps ==
    ASSUME Inv, NEW r \in Servers, NEW s \in Neighbours(r), NEW type,
           Removes(r, s, type)
    PROVE  Inv'
<1>1. /\ s \in Servers /\ srv[s] \in SoundChannels(grants)
      /\ Line(r, s) \in SoundLines(grants)
      /\ Parsed(r, s) \in [Edges -> Seq(SoundLines(grants))]
  BY ParsedSound DEF Removes
<1>2. Left(srv[s], {Line(r, s).who}) \in SoundChannels(grants)
  BY <1>1, LeftSound
<1>3. Sent(Parsed(r, s), s, Others(s, r), <<Line(r, s)>>)
        \in [Edges -> Seq(SoundLines(grants))]
  BY <1>1, SentLine
<1>4. /\ srv' = [srv EXCEPT ![s] = Left(srv[s], {Line(r, s).who})]
      /\ chan' = Sent(Parsed(r, s), s, Others(s, r), <<Line(r, s)>>)
      /\ Handled
  BY DEF Removes
<1>. QED
  BY <1>1, <1>2, <1>3, <1>4, HandledKeeps

\* A server that heeds a mode change has the channel, and with TS6 one that is
\* not older than the line.
LEMMA HeededMeans ==
    ASSUME Inv, NEW r \in Servers, NEW s \in Neighbours(r), NEW type,
           Arrives(r, s, type), Exists(s), Line(r, s).ts <= srv[s].ts
    PROVE  /\ srv[s].ts \in TSs
           /\ Stamp(srv[s].ts) \in Stamps
           /\ TS6 => Stamp(srv[s].ts) = srv[s].ts
<1>1. srv[s] \in Channels
  BY ParsedSound DEF SoundChannels
<1>2. srv[s].ts \in TSs
  BY <1>1, ChannelFields, ConstantsAssumption DEF TSs, Exists
<1>. QED
  BY <1>2, StampType

\* chm_op.
LEMMA OpKeeps ==
    ASSUME Inv, NEW r \in Servers, NEW s \in Neighbours(r), RemoteOp(r, s)
    PROVE  Inv'
<1>. DEFINE G == grants
            m == Line(r, s)
            relayed == [m EXCEPT !.ts = Stamp(srv[s].ts)]
<1>1. /\ s \in Servers /\ srv[s] \in SoundChannels(G)
      /\ m \in SoundLines(G) /\ m \in Messages /\ m.type = "op"
      /\ Parsed(r, s) \in [Edges -> Seq(SoundLines(G))]
  BY ParsedSound DEF RemoteOp
<1>2. /\ srv[s].ts \in TSs
      /\ Stamp(srv[s].ts) \in Stamps
      /\ TS6 => Stamp(srv[s].ts) = srv[s].ts
  BY HeededMeans DEF RemoteOp, Heeded
<1>3. /\ m.who \in Users /\ m.ts \in Stamps
      /\ m.target \in Users /\ m.add \in BOOLEAN
  BY <1>1, LineFields
<1>4. TS6 /\ m.add => Granted(G, m.target, srv[s].ts)
  <2>1. SUFFICES ASSUME TS6, m.add PROVE Granted(G, m.target, srv[s].ts)
    OBVIOUS
  <2>2. Granted(G, m.target, m.ts)
    BY <1>1, <2>1 DEF SoundLines
  <2>3. m.ts \in Nat /\ srv[s].ts \in Nat /\ m.ts <= srv[s].ts
    BY <1>2, <1>3, <2>1 DEF Stamps, TSs, RemoteOp, Heeded
  <2>. QED
    BY <2>2, <2>3, GrantedYounger
<1>5. SetOp(srv[s], m.target, m.add) \in SoundChannels(G)
  BY <1>1, <1>3, <1>4, SetOpSound DEF RemoteOp
<1>6. relayed \in SoundLines(G)
  <2>1. relayed = [type |-> "op", who |-> m.who, ts |-> Stamp(srv[s].ts),
                   target |-> m.target, add |-> m.add]
    BY <1>1 DEF Messages
  <2>. QED
    BY <1>2, <1>3, <1>4, <2>1, LineSound
<1>7. Relayed(r, s) \in [Edges -> Seq(SoundLines(G))]
  <2>. HIDE DEF relayed
  <2>1. Sent(Parsed(r, s), s, Others(s, r), <<relayed>>)
          \in [Edges -> Seq(SoundLines(G))]
    BY <1>1, <1>6, SentLine
  <2>. QED
    BY <2>1 DEF Relayed, relayed
<1>8. /\ srv' = [srv EXCEPT ![s] = SetOp(srv[s], m.target, m.add)]
      /\ chan' = Relayed(r, s)
      /\ Handled
  BY DEF RemoteOp
<1>. QED
  BY <1>1, <1>5, <1>7, <1>8, HandledKeeps

\* chm_simple and chm_ban, on a line from another server.
LEMMA ModeKeeps ==
    ASSUME Inv, NEW r \in Servers, NEW s \in Neighbours(r),
           RemoteMode(r, s) \/ RemoteBan(r, s)
    PROVE  Inv'
<1>. DEFINE G == grants
            m == Line(r, s)
            relayed == [m EXCEPT !.ts = Stamp(srv[s].ts)]
<1>1. /\ s \in Servers /\ srv[s] \in SoundChannels(G)
      /\ m \in Messages /\ m.type \in {"mode", "ban"}
      /\ Parsed(r, s) \in [Edges -> Seq(SoundLines(G))]
  BY ParsedSound DEF RemoteMode, RemoteBan
<1>2. Stamp(srv[s].ts) \in Stamps
  BY HeededMeans DEF RemoteMode, RemoteBan, Heeded
<1>3. relayed \in SoundLines(G)
  <2>1. CASE m.type = "mode"
    <3>1. /\ m.who \in Users /\ m.mode \in Modes /\ m.add \in BOOLEAN
      BY <1>1, <2>1, LineFields
    <3>2. relayed = [type |-> "mode", who |-> m.who, ts |-> Stamp(srv[s].ts),
                     mode |-> m.mode, add |-> m.add]
      BY <1>1, <2>1 DEF Messages
    <3>. QED
      BY <1>2, <3>1, <3>2, LineSound
  <2>2. CASE m.type = "ban"
    <3>1. /\ m.who \in Users /\ m.mask \in Users /\ m.add \in BOOLEAN
      BY <1>1, <2>2, LineFields
    <3>2. relayed = [type |-> "ban", who |-> m.who, ts |-> Stamp(srv[s].ts),
                     mask |-> m.mask, add |-> m.add]
      BY <1>1, <2>2 DEF Messages
    <3>. QED
      BY <1>2, <3>1, <3>2, LineSound
  <2>. QED
    BY <1>1, <2>1, <2>2
<1>4. Relayed(r, s) \in [Edges -> Seq(SoundLines(G))]
  <2>. HIDE DEF relayed
  <2>1. Sent(Parsed(r, s), s, Others(s, r), <<relayed>>)
          \in [Edges -> Seq(SoundLines(G))]
    BY <1>1, <1>3, SentLine
  <2>. QED
    BY <2>1 DEF Relayed, relayed
<1>5. CASE RemoteMode(r, s)
  <2>1. m.mode \in Modes /\ m.add \in BOOLEAN
    BY <1>5, ParsedSound, LineFields DEF RemoteMode
  <2>2. SetMode(srv[s], m.mode, m.add) \in SoundChannels(G)
    BY <1>1, <2>1, SetModeSound
  <2>3. srv' = [srv EXCEPT ![s] = SetMode(srv[s], m.mode, m.add)] /\ Handled
        /\ chan' = Relayed(r, s)
    BY <1>5 DEF RemoteMode
  <2>. QED
    BY <1>1, <1>4, <2>2, <2>3, HandledKeeps
<1>6. CASE RemoteBan(r, s)
  <2>1. m.mask \in Users /\ m.add \in BOOLEAN
    BY <1>6, ParsedSound, LineFields DEF RemoteBan
  <2>2. SetBan(srv[s], m.mask, m.add) \in SoundChannels(G)
    BY <1>1, <2>1, SetBanSound
  <2>3. srv' = [srv EXCEPT ![s] = SetBan(srv[s], m.mask, m.add)] /\ Handled
        /\ chan' = Relayed(r, s)
    BY <1>6 DEF RemoteBan
  <2>. QED
    BY <1>1, <1>4, <2>2, <2>3, HandledKeeps
<1>. QED
  BY <1>5, <1>6

\* ms_bmask.
LEMMA BmaskKeeps ==
    ASSUME Inv, NEW r \in Servers, NEW s \in Neighbours(r), RemoteBmask(r, s)
    PROVE  Inv'
<1>. DEFINE G == grants
            m == Line(r, s)
            on == IF TS6 THEN m.masks ELSE m.masks \ srv[s].bans
            relayed == [type |-> "bmask", ts |-> Stamp(srv[s].ts), masks |-> on]
<1>1. /\ s \in Servers /\ srv[s] \in SoundChannels(G)
      /\ m \in Messages /\ m.type = "bmask"
      /\ Parsed(r, s) \in [Edges -> Seq(SoundLines(G))]
  BY ParsedSound DEF RemoteBmask
<1>2. m.masks \in SUBSET Users /\ on \in SUBSET Users
  BY <1>1, LineFields
<1>3. Stamp(srv[s].ts) \in Stamps
  BY HeededMeans DEF RemoteBmask
<1>4. [srv[s] EXCEPT !.bans = srv[s].bans \cup m.masks] \in SoundChannels(G)
  <2>1. srv[s].bans \cup m.masks \in SUBSET Users
    BY <1>1, <1>2, ChannelFields DEF SoundChannels
  <2>. QED
    BY <1>1, <2>1, BansSound
<1>5. relayed \in SoundLines(G)
  <2>. HIDE DEF on
  <2>. QED
    BY <1>2, <1>3, LineSound
<1>6. Sent(Parsed(r, s), s, Others(s, r), <<relayed>>)
        \in [Edges -> Seq(SoundLines(G))]
  <2>. HIDE DEF relayed
  <2>. QED
    BY <1>1, <1>5, SentLine
<1>7. /\ srv' = [srv EXCEPT ![s] =
                   [srv[s] EXCEPT !.bans = srv[s].bans \cup m.masks]]
      /\ chan' = IF on = {} THEN Parsed(r, s)
                 ELSE Sent(Parsed(r, s), s, Others(s, r), <<relayed>>)
      /\ Handled
  <2>1. srv[s] = [srv[s] EXCEPT !.bans = srv[s].bans] /\ DOMAIN srv = Servers
    BY <1>1 DEF Inv, SoundChannels, Channels
  <2>. QED
    BY <1>1, <2>1 DEF RemoteBmask
<1>. HIDE DEF m, on, relayed
<1>. QED
  BY <1>1, <1>4, <1>6, <1>7, HandledKeeps

\* A line that is returned from without a change.
LEMMA IgnoredKeeps ==
    ASSUME Inv, NEW r \in Servers, NEW s \in Neighbours(r), Ignored(r, s)
    PROVE  Inv'
<1>1. PICK type : Arrives(r, s, type)
  BY DEF Ignored
<1>2. Parsed(r, s) \in [Edges -> Seq(SoundLines(grants))]
  BY <1>1, ParsedSound
<1>3. chan' = Parsed(r, s) /\ srv' = srv /\ Handled
  BY DEF Ignored
<1>. QED
  BY <1>2, <1>3 DEF Inv, Handled

\* ms_squit.
LEMMA SquitKeeps ==
    ASSUME Inv, NEW r \in Servers, NEW s \in Neighbours(r), RemoteSquit(r, s)
    PROVE  Inv'
<1>. DEFINE gone == {u \in srv[s].on :
                       Home[u] \in Behind(Line(r, s).edge[1], Line(r, s).edge[2])}
<1>1. /\ s \in Servers /\ srv[s] \in SoundChannels(grants)
      /\ Line(r, s) \in SoundLines(grants)
      /\ Parsed(r, s) \in [Edges -> Seq(SoundLines(grants))]
  BY ParsedSound DEF RemoteSquit
<1>2. Left(srv[s], gone) \in SoundChannels(grants)
  BY <1>1, LeftSound
<1>3. Sent(Parsed(r, s), s, Others(s, r), <<Line(r, s)>>)
        \in [Edges -> Seq(SoundLines(grants))]
  BY <1>1, SentLine
<1>4. /\ srv' = [srv EXCEPT ![s] = Left(srv[s], gone)]
      /\ chan' = Sent(Parsed(r, s), s, Others(s, r), <<Line(r, s)>>)
      /\ Handled
  BY <1>1 DEF RemoteSquit, Inv
<1>. QED
  BY <1>1, <1>2, <1>3, <1>4, HandledKeeps

\* dead_link_on_read: members behind the link leave, the rest is told.
LEMMA LoseKeeps ==
    ASSUME Inv, NEW s \in Servers, NEW t \in Neighbours(s), LoseLink(s, t)
    PROVE  Inv'
<1>. DEFINE gone == {u \in srv[s].on : Home[u] \in Behind(s, t)}
            dropped == [chan EXCEPT ![<<t, s>>] = <<>>]
<1>1. t \in Servers /\ <<s, t>> \in Edges /\ srv[s] \in SoundChannels(grants)
  BY DEF Neighbours, Edges, Inv
<1>2. Left(srv[s], gone) \in SoundChannels(grants)
  BY <1>1, LeftSound
<1>3. Squit(s, t) \in SoundLines(grants)
  BY <1>1, LineSound DEF Squit
<1>4. dropped \in [Edges -> Seq(SoundLines(grants))]
  <2>1. <<>> \in Seq(SoundLines(grants))
    OBVIOUS
  <2>. QED
    BY <2>1 DEF Inv
<1>5. Sent(dropped, s, up[s] \ {t}, <<Squit(s, t)>>)
        \in [Edges -> Seq(SoundLines(grants))]
  <2>. HIDE DEF dropped
  <2>. QED
    BY <1>3, <1>4, SentLine
<1>6. /\ srv' = [srv EXCEPT ![s] = Left(srv[s], gone)]
      /\ chan' = Sent(dropped, s, up[s] \ {t}, <<Squit(s, t)>>)
      /\ up' = [up EXCEPT ![s] = @ \ {t}]
      /\ splits' \in Nat
      /\ UNCHANGED <<clock, grants, banned, commands>>
  BY DEF LoseLink, Inv
<1>7. up' \in [Servers -> SUBSET Servers]
  BY <1>6 DEF Inv
<1>. HIDE DEF gone, dropped
<1>. QED
  BY <1>2, <1>5, <1>6, <1>7 DEF Inv

\* send_channel_modes: a sound channel is sent as sound lines.
LEMMA BurstSound ==
    ASSUME Inv, NEW s \in Servers
    PROVE  Burst(s) \in Seq(SoundLines(grants))
<1>. DEFINE L == srv[s]
            sjoin == Sjoin(L.ts, L.modes, FALSE, L.on, L.op)
            bmask == [type |-> "bmask", ts |-> Stamp(L.ts), masks |-> L.bans]
<1>1. L \in SoundChannels(grants) /\ L \in Channels
  BY DEF Inv, SoundChannels
<1>2. CASE L.on = {}
  BY <1>2 DEF Burst
<1>3. CASE L.on # {}
  <2>1. /\ L.ts \in TSs /\ L.modes \in SUBSET Modes /\ L.bans \in SUBSET Users
        /\ L.on \in SUBSET Users /\ L.op \in SUBSET Users
    BY <1>1, <1>3, ChannelFields, ConstantsAssumption DEF TSs
  <2>2. TS6 => \A u \in L.op : Granted(grants, u, L.ts)
    BY <1>1 DEF SoundChannels
  <2>3. sjoin \in SoundLines(grants)
    BY <2>1, <2>2, SjoinSound
  <2>4. bmask \in SoundLines(grants)
    BY <2>1, StampType, LineSound
  <2>5. Burst(s) = <<sjoin>> \o (IF L.bans = {} THEN <<>> ELSE <<bmask>>)
    BY <1>3 DEF Burst
  <2>. HIDE DEF sjoin, bmask
  <2>. QED
    BY <2>3, <2>4, <2>5
<1>. QED
  BY <1>2, <1>3

\* server_estab.
LEMMA LinkKeeps ==
    ASSUME Inv, NEW s \in Servers, NEW t \in Neighbours(s), Link(s, t)
    PROVE  Inv'
<1>1. t \in Servers
  BY DEF Neighbours
<1>2. /\ Burst(s) \in Seq(SoundLines(grants))
      /\ Burst(t) \in Seq(SoundLines(grants))
  BY <1>1, BurstSound
<1>3. chan' \in [Edges -> Seq(SoundLines(grants))]
  BY <1>2 DEF Link, Inv
<1>4. up' \in [Servers -> SUBSET Servers]
  BY <1>1 DEF Link, Inv
<1>. QED
  BY <1>3, <1>4 DEF Link, Inv

-----------------------------------------------------------------------------
(* The commands of local clients keep the invariant *)

\* A command keeps the invariant when the channel it leaves on the user's
\* server is sound, and the line it sends, by a history that only grew.
LEMMA CommandKeeps ==
    ASSUME Inv, NEW s \in Servers, NEW kind, Command(kind),
           grants \subseteq grants', grants' \subseteq Users \X TSs,
           banned' \subseteq Users \X TSs,
           clock' \in [Servers -> TSs], UNCHANGED <<up, splits>>,
           NEW L \in SoundChannels(grants'), srv' = [srv EXCEPT ![s] = L],
           NEW m \in SoundLines(grants'),
           chan' \in {chan, Sent(chan, s, up[s], <<m>>)}
    PROVE  Inv'
<1>1. /\ SoundChannels(grants) \subseteq SoundChannels(grants')
      /\ Seq(SoundLines(grants)) \subseteq Seq(SoundLines(grants'))
  BY GrantedMonotone
<1>2. srv' \in [Servers -> SoundChannels(grants')]
  BY <1>1 DEF Inv
<1>3. chan \in [Edges -> Seq(SoundLines(grants'))]
  BY <1>1 DEF Inv
<1>4. chan' \in [Edges -> Seq(SoundLines(grants'))]
  <2>1. Sent(chan, s, up[s], <<m>>) \in [Edges -> Seq(SoundLines(grants'))]
    BY <1>3, SentLine
  <2>. QED
    BY <1>3, <2>1
<1>5. commands' \in Nat
  BY DEF Command, Inv
<1>. QED
  BY <1>2, <1>4, <1>5 DEF Inv

\* m_join that makes the channel: the only new timestamp there is.
LEMMA CreateKeeps ==
    ASSUME Inv, NEW u \in Users, NEW t \in TSs, Create(u, t)
    PROVE  Inv'
<1>. DEFINE s == Home[u]
            L == Made(srv[s], u, t)
            m == Sjoin(t, NewModes, FALSE, {u}, {u})
<1>1. s \in Servers /\ NewModes \in SUBSET Modes /\ t \in Nat /\ t >= 1 /\ t <= MaxTS
  BY ConstantsAssumption DEF TSs
<1>2. srv[s] \in Channels /\ srv[s].on = {}
  BY <1>1 DEF Create, Inv, SoundChannels
<1>3. Granted(grants', u, t)
  BY <1>1 DEF Granted, Create
<1>4. L \in SoundChannels(grants')
  <2>1. L \in Channels /\ L.op = {u} /\ L.ts = t
    BY <1>2, MadeChannel
  <2>. HIDE DEF L
  <2>. QED
    BY <1>3, <2>1 DEF SoundChannels
<1>5. m \in SoundLines(grants')
  BY <1>1, <1>3, SjoinSound
<1>6. /\ Command("join")
      /\ srv' = [srv EXCEPT ![s] = L]
      /\ chan' = Sent(chan, s, up[s], <<m>>)
      /\ clock' = [clock EXCEPT ![s] = t]
      /\ grants' = grants \cup {<<u, t>>}
      /\ UNCHANGED <<up, banned, splits>>
  BY DEF Create, Stamped
<1>7. clock' \in [Servers -> TSs]
  BY <1>6 DEF Inv
<1>8. /\ grants \subseteq grants' /\ grants' \subseteq Users \X TSs
      /\ banned' \subseteq Users \X TSs
  BY <1>6 DEF Inv
<1>. HIDE DEF s, L, m
<1>. QED
  BY <1>1, <1>4, <1>5, <1>6, <1>7, <1>8, CommandKeeps DEF s

\* The commands on a channel the user's server has, and JOIN with 0.
LEMMA OldChannelKeeps ==
    ASSUME Inv, NEW u \in Users,
           \/ Join(u) \/ Part(u)
           \/ \E t \in TSs : JoinZero(u, t)
           \/ \E v \in Users : Kick(u, v)
           \/ \E v \in Users, add \in BOOLEAN : ModeOp(u, v, add)
           \/ \E md \in Modes, add \in BOOLEAN : ModeSimple(u, md, add)
           \/ \E b \in Masks, add \in BOOLEAN : ModeBan(u, b, add)
    PROVE  Inv'
<1>. DEFINE s == Home[u]
            L == srv[s]
<1>1. /\ s \in Servers /\ L \in SoundChannels(grants) /\ L \in Channels
      /\ srv = [srv EXCEPT ![s] = L]
      /\ grants \subseteq Users \X TSs /\ banned \subseteq Users \X TSs
      /\ clock \in [Servers -> TSs]
  BY ConstantsAssumption DEF Inv, SoundChannels
<1>2. L.on # {} => L.ts \in TSs
  BY <1>1, ChannelFields, ConstantsAssumption DEF TSs
<1>3. L.on # {} => Stamp(L.ts) \in Stamps /\ (TS6 => Stamp(L.ts) = L.ts)
  BY <1>2, StampType
<1>4. L.op \subseteq L.on
  BY <1>1, ChannelFields
<1>5. \A v \in Users :
        /\ [type |-> "part", who |-> v] \in SoundLines(grants)
        /\ [type |-> "kick", who |-> v] \in SoundLines(grants)
  BY LineSound
<1>6. \A X : Left(L, X) \in SoundChannels(grants)
  BY <1>1, LeftSound
<1>7. CASE Join(u)
  <2>. DEFINE R == [L EXCEPT !.on = L.on \cup {u}]
  <2>1. /\ Command("join") /\ L.on # {} /\ u \notin L.on
        /\ srv' = [srv EXCEPT ![s] = R]
        /\ chan' = Sent(chan, s, up[s], <<JoinLine(u, L.ts)>>)
        /\ UNCHANGED <<clock, up, grants, banned, splits>>
    BY <1>1, <1>7 DEF Join, Inv
  <2>2. R \in SoundChannels(grants)
    <3>1. R \in Channels
      BY <1>1, <2>1 DEF Channels
    <3>2. R.op = L.op /\ R.ts = L.ts
      BY <1>1 DEF Channels
    <3>. HIDE DEF R
    <3>. QED
      BY <1>1, <3>1, <3>2 DEF SoundChannels
  <2>3. JoinLine(u, L.ts) \in SoundLines(grants)
    BY <1>2, <2>1, JoinLineSound
  <2>. HIDE DEF s, L, R
  <2>. QED
    BY <1>1, <2>1, <2>2, <2>3, CommandKeeps DEF s
<1>8. CASE Part(u)
  <2>1. /\ Command("part")
        /\ srv' = [srv EXCEPT ![s] = Left(L, {u})]
        /\ chan' = Sent(chan, s, up[s], <<[type |-> "part", who |-> u]>>)
        /\ UNCHANGED <<clock, up, grants, banned, splits>>
    BY <1>8 DEF Part
  <2>. HIDE DEF s, L
  <2>. QED
    BY <1>1, <1>5, <1>6, <2>1, CommandKeeps
<1>9. ASSUME NEW t \in TSs, JoinZero(u, t) PROVE Inv'
  <2>. DEFINE R == [L EXCEPT !.ts = t]
  <2>1. /\ Command("zero") /\ L.ts = 0
        /\ srv' = [srv EXCEPT ![s] = R]
        /\ clock' = [clock EXCEPT ![s] = t]
        /\ UNCHANGED <<up, chan, grants, banned, splits>>
    BY <1>1, <1>9 DEF JoinZero, Stamped, Exists, Inv
  <2>2. L.on = {} /\ L.op = {}
    BY <1>1, <2>1, ChannelFields
  <2>3. R \in SoundChannels(grants)
    <3>1. R \in Channels /\ R.op = {}
      BY <1>1, <1>9, <2>2, StampedChannel
    <3>. HIDE DEF R
    <3>. QED
      BY <3>1 DEF SoundChannels
  <2>4. clock' \in [Servers -> TSs]
    BY <1>1, <2>1
  <2>. HIDE DEF s, L, R
  <2>. QED
    BY <1>1, <1>5, <2>1, <2>3, <2>4, CommandKeeps DEF s
<1>10. ASSUME NEW v \in Users, Kick(u, v) PROVE Inv'
  <2>1. /\ Command("kick")
        /\ srv' = [srv EXCEPT ![s] = Left(L, {v})]
        /\ chan' = Sent(chan, s, up[s], <<[type |-> "kick", who |-> v]>>)
        /\ UNCHANGED <<clock, up, grants, banned, splits>>
    BY <1>10 DEF Kick
  <2>. HIDE DEF s, L
  <2>. QED
    BY <1>1, <1>5, <1>6, <2>1, CommandKeeps
<1>11. ASSUME NEW v \in Users, NEW add \in BOOLEAN, ModeOp(u, v, add) PROVE Inv'
  <2>. DEFINE m == [type |-> "op", who |-> u, ts |-> Stamp(L.ts),
                    target |-> v, add |-> add]
  <2>1. /\ Command("op") /\ u \in L.op /\ v \in L.on
        /\ srv' = [srv EXCEPT ![s] = SetOp(L, v, add)]
        /\ chan' = Sent(chan, s, up[s], <<m>>)
        /\ grants' = IF add THEN grants \cup {<<v, L.ts>>} ELSE grants
        /\ UNCHANGED <<clock, up, banned, splits>>
    BY <1>11 DEF ModeOp
  <2>2. L.ts \in TSs /\ Stamp(L.ts) \in Stamps /\ (TS6 => Stamp(L.ts) = L.ts)
    BY <1>2, <1>3, <2>1
  <2>3. grants \subseteq grants' /\ grants' \subseteq Users \X TSs
    BY <1>1, <2>1, <2>2
  <2>4. add => Granted(grants', v, L.ts)
    BY <2>1, <2>2 DEF Granted, TSs
  <2>5. L \in SoundChannels(grants')
    BY <1>1, <2>3, GrantedMonotone
  <2>6. SetOp(L, v, add) \in SoundChannels(grants')
    BY <2>1, <2>4, <2>5, SetOpSound
  <2>7. m \in SoundLines(grants')
    BY <2>2, <2>4, LineSound
  <2>. HIDE DEF s, L, m
  <2>. QED
    BY <1>1, <2>1, <2>3, <2>6, <2>7, CommandKeeps
<1>12. ASSUME NEW md \in Modes, NEW add \in BOOLEAN, ModeSimple(u, md, add)
       PROVE  Inv'
  <2>. DEFINE m == [type |-> "mode", who |-> u, ts |-> Stamp(L.ts),
                    mode |-> md, add |-> add]
  <2>1. /\ Command("mode") /\ u \in L.op
        /\ srv' = [srv EXCEPT ![s] = SetMode(L, md, add)]
        /\ chan' = Sent(chan, s, up[s], <<m>>)
        /\ UNCHANGED <<clock, up, grants, banned, splits>>
    BY <1>12 DEF ModeSimple
  <2>2. SetMode(L, md, add) \in SoundChannels(grants)
    BY <1>1, SetModeSound
  <2>3. m \in SoundLines(grants)
    BY <1>3, <1>4, <2>1, LineSound
  <2>. HIDE DEF s, L, m
  <2>. QED
    BY <1>1, <2>1, <2>2, <2>3, CommandKeeps
<1>13. ASSUME NEW b \in Masks, NEW add \in BOOLEAN, ModeBan(u, b, add)
       PROVE  Inv'
  <2>. DEFINE m == [type |-> "ban", who |-> u, ts |-> Stamp(L.ts),
                    mask |-> b, add |-> add]
  <2>1. /\ Command("ban") /\ u \in L.op
        /\ srv' = [srv EXCEPT ![s] = SetBan(L, b, add)]
        /\ chan' = Sent(chan, s, up[s], <<m>>)
        /\ banned' = IF add THEN banned \cup {<<b, L.ts>>} ELSE banned
        /\ UNCHANGED <<clock, up, grants, splits>>
    BY <1>13 DEF ModeBan
  <2>2. b \in Users /\ L.on # {}
    BY <1>4, <2>1, ConstantsAssumption
  <2>3. SetBan(L, b, add) \in SoundChannels(grants)
    BY <1>1, <2>2, SetBanSound
  <2>4. m \in SoundLines(grants)
    BY <1>3, <2>2, LineSound
  <2>5. banned' \subseteq Users \X TSs
    BY <1>1, <1>2, <2>1, <2>2
  <2>. HIDE DEF s, L, m
  <2>. QED
    BY <1>1, <2>1, <2>3, <2>4, <2>5, CommandKeeps
<1>. QED
  BY <1>7, <1>8, <1>9, <1>10, <1>11, <1>12, <1>13

-----------------------------------------------------------------------------
(* Timestamps *)

\* L can follow K on one server: nobody is on one of them, or L is not younger.
NotYounger(K, L) == K.on # {} /\ L.on # {} => L.ts <= K.ts

\* Neither the members who leave nor a merge make a channel younger.
LEMMA OperatorsNotYounger ==
    ASSUME NEW K \in Channels
    PROVE  /\ NotYounger(K, K)
           /\ \A X : NotYounger(K, Left(K, X))
           /\ \A ts \in TSs : \A modes, members, ops, B :
                /\ NotYounger(K, Merged(K, ts, modes, members, ops))
                /\ NotYounger(K, [Merged(K, ts, modes, members, ops)
                                    EXCEPT !.bans = B])
<1>1. K.ts \in 0 .. MaxTS /\ MaxTS \in Nat /\ (K.on # {} => K.ts # 0)
  BY ChannelFields, ConstantsAssumption
<1>2. NotYounger(K, K)
  BY <1>1 DEF NotYounger
<1>3. ASSUME NEW X PROVE NotYounger(K, Left(K, X))
  <2>1. NoChannel.on = {}
    BY DEF NoChannel
  <2>2. [K EXCEPT !.on = @ \ X, !.op = @ \ X, !.deopped = @ \ X].ts = K.ts
    BY DEF Channels
  <2>. QED
    BY <1>1, <2>1, <2>2 DEF NotYounger, Left
<1>4. ASSUME NEW ts \in TSs, NEW modes, NEW members, NEW ops, NEW B
      PROVE  /\ NotYounger(K, Merged(K, ts, modes, members, ops))
             /\ NotYounger(K, [Merged(K, ts, modes, members, ops)
                                 EXCEPT !.bans = B])
  <2>. DEFINE M == Merged(K, ts, modes, members, ops)
  <2>1. M.ts = IF Younger(K, ts) THEN K.ts ELSE ts
    BY DEF Merged
  <2>2. K.on # {} => M.ts <= K.ts
    BY <1>1, <1>4, <2>1 DEF Younger, TSs
  <2>3. [M EXCEPT !.bans = B].ts = M.ts
    BY DEF Merged
  <2>. QED
    BY <2>2, <2>3 DEF NotYounger
<1>. QED
  BY <1>2, <1>3, <1>4

\* Nor do a member more, or changes of status, modes and bans.
LEMMA ChangesNotYounger ==
    ASSUME NEW K \in Channels
    PROVE  /\ \A X : NotYounger(K, [K EXCEPT !.on = X])
           /\ \A X : NotYounger(K, [K EXCEPT !.bans = X])
           /\ \A v, add : NotYounger(K, SetOp(K, v, add))
           /\ \A md, add : NotYounger(K, SetMode(K, md, add))
           /\ \A b, add : NotYounger(K, SetBan(K, b, add))
<1>1. K.ts <= K.ts
  BY ChannelFields, ConstantsAssumption
<1>2. ASSUME NEW X
      PROVE  [K EXCEPT !.on = X].ts = K.ts /\ [K EXCEPT !.bans = X].ts = K.ts
  BY DEF Channels
<1>3. ASSUME NEW v, NEW add
      PROVE  /\ SetOp(K, v, add).ts = K.ts
             /\ SetMode(K, v, add).ts = K.ts
             /\ SetBan(K, v, add).ts = K.ts
  BY DEF Channels, SetOp, SetMode, SetBan
<1>. QED
  BY <1>1, <1>2, <1>3 DEF NotYounger

\* A step changes the channel of one server, to one that is not younger.
LEMMA StepNotYounger ==
    ASSUME Inv, Next
    PROVE  \A s \in Servers : NotYounger(srv[s], srv'[s])
<1>1. \A s \in Servers : srv[s] \in Channels /\ NotYounger(srv[s], srv[s])
  BY OperatorsNotYounger DEF Inv, SoundChannels
<1>2. srv' = srv => \A s \in Servers : NotYounger(srv[s], srv'[s])
  BY <1>1
<1>3. ASSUME NEW s \in Servers, NEW L, srv' = [srv EXCEPT ![s] = L],
             NotYounger(srv[s], L)
      PROVE  \A t \in Servers : NotYounger(srv[t], srv'[t])
  BY <1>1, <1>3 DEF Inv
<1>4. \A s \in Servers : \A X : NotYounger(srv[s], Left(srv[s], X))
  BY <1>1, OperatorsNotYounger
<1>5. ASSUME NEW u \in Users, UserCommand(u)
      PROVE  \A t \in Servers : NotYounger(srv[t], srv'[t])
  <2>. DEFINE s == Home[u]
              L == srv[s]
  <2>1. s \in Servers /\ L \in Channels
    BY <1>1, ConstantsAssumption
  <2>2. PICK R : srv' = [srv EXCEPT ![s] = R] /\ NotYounger(L, R)
    <3>1. CASE \E t \in TSs : Create(u, t) \/ JoinZero(u, t)
      <4>1. PICK t \in TSs : Create(u, t) \/ JoinZero(u, t)
        BY <3>1
      <4>2. L.on = {}
        BY <2>1, <4>1, ChannelFields DEF Create, JoinZero, Exists
      <4>3. CASE Create(u, t)
        BY <4>2, <4>3 DEF Create, NotYounger
      <4>4. CASE JoinZero(u, t)
        <5>1. srv' = [srv EXCEPT ![s] = [L EXCEPT !.ts = t]]
          BY <2>1, <4>4 DEF JoinZero, Inv
        <5>. QED
          BY <4>2, <5>1 DEF NotYounger
      <4>. QED
        BY <4>1, <4>3, <4>4
    <3>2. CASE Join(u)
      <4>1. srv' = [srv EXCEPT ![s] = [L EXCEPT !.on = L.on \cup {u}]]
        BY <2>1, <3>2 DEF Join, Inv
      <4>2. NotYounger(L, [L EXCEPT !.on = L.on \cup {u}])
        BY <2>1, ChangesNotYounger
      <4>. HIDE DEF L
      <4>. QED
        BY <4>1, <4>2
    <3>3. CASE Part(u) \/ \E v \in Users : Kick(u, v)
      <4>1. PICK X : srv' = [srv EXCEPT ![s] = Left(L, X)]
        BY <3>3 DEF Part, Kick
      <4>. QED
        BY <1>4, <2>1, <4>1
    <3>4. CASE \E v \in Users, add \in BOOLEAN : ModeOp(u, v, add)
      <4>1. PICK v, add : srv' = [srv EXCEPT ![s] = SetOp(L, v, add)]
        BY <3>4 DEF ModeOp
      <4>. QED
        BY <2>1, <4>1, ChangesNotYounger
    <3>5. CASE \E md \in Modes, add \in BOOLEAN : ModeSimple(u, md, add)
      <4>1. PICK md, add : srv' = [srv EXCEPT ![s] = SetMode(L, md, add)]
        BY <3>5 DEF ModeSimple
      <4>. QED
        BY <2>1, <4>1, ChangesNotYounger
    <3>6. CASE \E b \in Masks, add \in BOOLEAN : ModeBan(u, b, add)
      <4>1. PICK b, add : srv' = [srv EXCEPT ![s] = SetBan(L, b, add)]
        BY <3>6 DEF ModeBan
      <4>. QED
        BY <2>1, <4>1, ChangesNotYounger
    <3>. QED
      BY <1>5, <3>1, <3>2, <3>3, <3>4, <3>5, <3>6 DEF UserCommand
  <2>. QED
    BY <1>3, <2>1, <2>2
<1>6. ASSUME NEW r \in Servers, NEW s \in Neighbours(r), Parse(r, s)
      PROVE  \A t \in Servers : NotYounger(srv[t], srv'[t])
  <2>. DEFINE m == Line(r, s)
              L == srv[s]
  <2>1. s \in Servers /\ L \in Channels
    BY <1>1 DEF Neighbours
  <2>2. CASE RemoteSjoin(r, s)
    <3>. DEFINE names == {u \in m.members : From(s, u) = r}
                new == Merged(L, m.ts, m.modes, names, m.ops \cap names)
    <3>1. m.ts \in TSs
      BY <2>2, ParsedSound, LineFields DEF RemoteSjoin
    <3>2. NotYounger(L, new) /\ NotYounger(L, [new EXCEPT !.bans = {}])
      BY <2>1, <3>1, OperatorsNotYounger
    <3>3. srv' = [srv EXCEPT ![s] = IF TS6 /\ Older(L, m.ts)
                                    THEN [new EXCEPT !.bans = {}] ELSE new]
      BY <2>2 DEF RemoteSjoin
    <3>. HIDE DEF new, L, m
    <3>. QED
      BY <1>3, <2>1, <3>2, <3>3 DEF L
  <2>3. CASE RemoteJoin(r, s)
    <3>1. m.ts \in TSs
      BY <2>3, ParsedSound, LineFields DEF RemoteJoin
    <3>2. srv' = [srv EXCEPT ![s] = Merged(L, m.ts, {}, {m.who}, {})]
      BY <2>3 DEF RemoteJoin
    <3>. QED
      BY <1>3, <2>1, <3>1, <3>2, OperatorsNotYounger
  <2>4. CASE RemotePart(r, s) \/ RemoteKick(r, s) \/ RemoteSquit(r, s)
    <3>1. PICK X : srv' = [srv EXCEPT ![s] = Left(L, X)]
      BY <2>4 DEF RemotePart, RemoteKick, Removes, RemoteSquit
    <3>. QED
      BY <1>3, <1>4, <2>1, <3>1
  <2>5. CASE RemoteOp(r, s) \/ RemoteMode(r, s) \/ RemoteBan(r, s)
    <3>1. \/ srv' = [srv EXCEPT ![s] = SetOp(L, m.target, m.add)]
          \/ srv' = [srv EXCEPT ![s] = SetMode(L, m.mode, m.add)]
          \/ srv' = [srv EXCEPT ![s] = SetBan(L, m.mask, m.add)]
      BY <2>5 DEF RemoteOp, RemoteMode, RemoteBan
    <3>. QED
      BY <1>3, <2>1, <3>1, ChangesNotYounger
  <2>6. CASE RemoteBmask(r, s)
    <3>1. srv' = [srv EXCEPT ![s] = [L EXCEPT !.bans = L.bans \cup m.masks]]
      BY <2>1, <2>6 DEF RemoteBmask, Inv
    <3>2. NotYounger(L, [L EXCEPT !.bans = L.bans \cup m.masks])
      BY <2>1, ChangesNotYounger
    <3>. QED
      BY <1>3, <2>1, <3>1, <3>2
  <2>7. CASE Ignored(r, s)
    BY <1>2, <2>7 DEF Ignored
  <2>. QED
    BY <1>6, <2>2, <2>3, <2>4, <2>5, <2>6, <2>7 DEF Parse
<1>7. ASSUME NEW r \in Servers, NEW s \in Neighbours(r), LoseLink(r, s)
      PROVE  \A t \in Servers : NotYounger(srv[t], srv'[t])
  <2>1. PICK X : srv' = [srv EXCEPT ![r] = Left(srv[r], X)]
    BY <1>7 DEF LoseLink, Inv
  <2>. QED
    BY <1>3, <1>4, <2>1
<1>8. ASSUME NEW r \in Servers, NEW s \in Neighbours(r), Link(r, s)
      PROVE  \A t \in Servers : NotYounger(srv[t], srv'[t])
  BY <1>2, <1>8 DEF Link
<1>. QED
  BY <1>5, <1>6, <1>7, <1>8 DEF Next

-----------------------------------------------------------------------------
(* The members: who is known where *)

\* The lines that put u on the channel, and those that take u off it.
Brings(u, m) ==
    \/ m.type = "sjoin" /\ u \in m.members
    \/ m.type = "join" /\ m.who = u
Takes(u, m) ==
    \/ m.type \in {"part", "kick"} /\ m.who = u
    \/ m.type = "squit" /\ Home[u] \in Behind(m.edge[1], m.edge[2])

\* Whoever parses the lines q has u on the channel afterwards, when it has u on
\* it before if had.
Comes(u, q, had) ==
    \E i \in 0 .. Len(q) :
       /\ IF i = 0 THEN had ELSE Brings(u, q[i])
       /\ \A j \in i + 1 .. Len(q) : ~ Takes(u, q[j])

Kicked(u, q) == \E i \in 1 .. Len(q) : q[i].type = "kick" /\ q[i].who = u

\* When u, who is behind r, is on the channel on r, it will be on s, unless a
\* KICK is on its way back.
Reaches(u, r, s) ==
    u \in srv[r].on =>
      \/ Comes(u, chan[<<r, s>>], u \in srv[s].on)
      \/ Kicked(u, chan[<<s, r>>])

Spread ==
    \A r \in Servers : \A s \in Neighbours(r) : \A u \in Users :
       s \in Open(r) /\ From(s, u) = r => Reaches(u, r, s)

\* A JOIN or PART comes over the link its user is behind, a SQUIT over a link
\* everybody it takes is behind.
Way(m, r, s) ==
    /\ m.type \in {"join", "part"} => From(s, m.who) = r
    /\ m.type = "squit" => Behind(m.edge[1], m.edge[2]) \subseteq Behind(s, r)

Routed ==
    \A r \in Servers : \A s \in Neighbours(r) :
       \A i \in 1 .. Len(chan[<<r, s>>]) : Way(chan[<<r, s>>][i], r, s)

\* The inductive invariant of MembersKnownEverywhere.
OnInv == Inv /\ Routed /\ Spread

-----------------------------------------------------------------------------
(* What a list of lines does to a member *)

\* It depends on who was there before in one direction only.
LEMMA ComesMore ==
    ASSUME NEW u, NEW q, NEW had, NEW has, had => has, Comes(u, q, had)
    PROVE  Comes(u, q, has)
  BY DEF Comes

\* More lines at the end, none of which takes u.
LEMMA ComesAfter ==
    ASSUME NEW u, NEW q \in Seq(Messages), NEW p \in Seq(Messages), NEW had,
           \A i \in 1 .. Len(p) : ~ Takes(u, p[i]),
           \/ Comes(u, q, had)
           \/ \E i \in 1 .. Len(p) : Brings(u, p[i])
    PROVE  Comes(u, q \o p, had)
<1>. DEFINE n == Len(q)
            o == q \o p
<1>1. /\ Len(o) = n + Len(p) /\ n \in Nat /\ Len(p) \in Nat
      /\ \A i \in 1 .. n : o[i] = q[i]
      /\ \A i \in n + 1 .. n + Len(p) : o[i] = p[i - n]
  OBVIOUS
<1>2. CASE Comes(u, q, had)
  <2>1. PICK i \in 0 .. n : /\ IF i = 0 THEN had ELSE Brings(u, q[i])
                            /\ \A j \in i + 1 .. n : ~ Takes(u, q[j])
    BY <1>2 DEF Comes
  <2>. HIDE DEF o
  <2>2. i \in 0 .. Len(o) /\ IF i = 0 THEN had ELSE Brings(u, o[i])
    BY <1>1, <2>1
  <2>3. ASSUME NEW j \in i + 1 .. Len(o) PROVE ~ Takes(u, o[j])
    <3>1. CASE j <= n
      BY <1>1, <2>1, <3>1
    <3>2. CASE ~ (j <= n)
      <4>1. j - n \in 1 .. Len(p) /\ o[j] = p[j - n]
        BY <1>1, <2>1, <2>3, <3>2
      <4>. QED
        BY <4>1
    <3>. QED
      BY <3>1, <3>2
  <2>. QED
    BY <2>2, <2>3 DEF Comes, o
<1>3. ASSUME NEW i \in 1 .. Len(p), Brings(u, p[i]) PROVE Comes(u, o, had)
  <2>. HIDE DEF o
  <2>1. n + i \in 0 .. Len(o) /\ n + i # 0 /\ o[n + i] = p[i]
    <3>1. n + i \in n + 1 .. n + Len(p) /\ (n + i) - n = i
      <4>1. n \in Nat /\ Len(p) \in Nat /\ i \in Nat /\ 1 <= i /\ i <= Len(p)
        BY <1>1
      <4>. HIDE DEF n
      <4>. QED
        BY <4>1
    <3>. QED
      BY <1>1, <3>1
  <2>2. ASSUME NEW j \in n + i + 1 .. Len(o) PROVE ~ Takes(u, o[j])
    <3>1. j - n \in 1 .. Len(p) /\ o[j] = p[j - n]
      BY <1>1
    <3>. QED
      BY <3>1
  <2>. QED
    BY <1>3, <2>1, <2>2 DEF Comes
<1>. QED
  BY <1>2, <1>3

\* One line less, when it is parsed as it should.
LEMMA ComesRest ==
    ASSUME NEW u, NEW q \in Seq(Messages), q # <<>>, NEW had, NEW has,
           Brings(u, q[1]) \/ (had /\ ~ Takes(u, q[1])) => has,
           Comes(u, q, had)
    PROVE  Comes(u, Tail(q), has)
<1>. DEFINE n == Len(q)
            p == Tail(q)
<1>1. /\ n \in Nat \ {0} /\ Len(p) = n - 1
      /\ \A i \in 1 .. n - 1 : p[i] = q[i + 1]
  OBVIOUS
<1>2. PICK i \in 0 .. n : /\ IF i = 0 THEN had ELSE Brings(u, q[i])
                          /\ \A j \in i + 1 .. n : ~ Takes(u, q[j])
  BY DEF Comes
<1>. HIDE DEF p, n
<1>3. ASSUME NEW j \in i .. n - 1, j # 0 PROVE ~ Takes(u, p[j])
  <2>1. j + 1 \in i + 1 .. n /\ p[j] = q[j + 1]
    BY <1>1, <1>3
  <2>. QED
    BY <1>2, <2>1
<1>4. CASE i \in {0, 1}
  <2>1. has
    <3>1. CASE i = 0
      BY <1>1, <1>2, <3>1
    <3>2. CASE i = 1
      BY <1>2, <3>2
    <3>. QED
      BY <1>4, <3>1, <3>2
  <2>2. \A j \in 0 + 1 .. Len(p) : ~ Takes(u, p[j])
    BY <1>1, <1>3, <1>4
  <2>. QED
    BY <1>1, <2>1, <2>2 DEF Comes, p
<1>5. CASE i \notin {0, 1}
  <2>1. i - 1 \in 0 .. Len(p) /\ i - 1 # 0 /\ p[i - 1] = q[i]
    <3>1. i - 1 \in 1 .. n - 1 /\ (i - 1) + 1 = i
      BY <1>1, <1>5
    <3>. QED
      BY <1>1, <3>1
  <2>2. \A j \in (i - 1) + 1 .. Len(p) : ~ Takes(u, p[j])
    BY <1>1, <1>3, <1>5
  <2>3. Brings(u, p[i - 1])
    BY <1>2, <1>5, <2>1
  <2>. QED
    BY <2>1, <2>2, <2>3 DEF Comes, p
<1>. QED
  BY <1>4, <1>5

\* A KICK stays on its way, until it is the first line.
LEMMA KickedStays ==
    ASSUME NEW u, NEW q \in Seq(Messages)
    PROVE  /\ \A p \in Seq(Messages) :
                Kicked(u, q) \/ Kicked(u, p) => Kicked(u, q \o p)
           /\ q # <<>> /\ Kicked(u, q) =>
                (q[1].type = "kick" /\ q[1].who = u) \/ Kicked(u, Tail(q))
           /\ ~ Kicked(u, <<>>)
<1>1. ASSUME NEW p \in Seq(Messages), Kicked(u, q) \/ Kicked(u, p)
      PROVE  Kicked(u, q \o p)
  <2>1. CASE Kicked(u, q)
    <3>1. PICK i \in 1 .. Len(q) : q[i].type = "kick" /\ q[i].who = u
      BY <2>1 DEF Kicked
    <3>2. i \in 1 .. Len(q \o p) /\ (q \o p)[i] = q[i]
      OBVIOUS
    <3>. QED
      BY <3>1, <3>2 DEF Kicked
  <2>2. CASE Kicked(u, p)
    <3>1. PICK i \in 1 .. Len(p) : p[i].type = "kick" /\ p[i].who = u
      BY <2>2 DEF Kicked
    <3>2. Len(q) + i \in 1 .. Len(q \o p) /\ (q \o p)[Len(q) + i] = p[i]
      OBVIOUS
    <3>. QED
      BY <3>1, <3>2 DEF Kicked
  <2>. QED
    BY <1>1, <2>1, <2>2
<1>2. ASSUME q # <<>>, Kicked(u, q)
      PROVE  (q[1].type = "kick" /\ q[1].who = u) \/ Kicked(u, Tail(q))
  <2>1. PICK i \in 1 .. Len(q) : q[i].type = "kick" /\ q[i].who = u
    BY <1>2 DEF Kicked
  <2>2. CASE i = 1
    BY <2>1, <2>2
  <2>3. CASE i # 1
    <3>1. i - 1 \in 1 .. Len(Tail(q)) /\ Tail(q)[i - 1] = q[i]
      BY <1>2, <2>3
    <3>. QED
      BY <2>1, <3>1 DEF Kicked
  <2>. QED
    BY <2>2, <2>3
<1>3. ~ Kicked(u, <<>>)
  BY DEF Kicked
<1>. QED
  BY <1>1, <1>2, <1>3

-----------------------------------------------------------------------------
(* The tree *)

\* A link joins the two sides of the tree.
LEMMA Sides ==
    ASSUME NEW r \in Servers, NEW s \in Neighbours(r)
    PROVE  /\ s \in Servers /\ s # r /\ r \in Neighbours(s)
           /\ <<r, s>> \in Edges /\ <<s, r>> \in Edges
           /\ \A x \in Servers : Route[r][x] = s <=> Route[s][x] # r
<1>1. s \in Servers /\ s # r
  BY DEF Neighbours
<1>2. PICK e \in Edges : e = <<r, s>>
  BY <1>1 DEF Edges
<1>3. /\ <<s, r>> \in Edges
      /\ Behind(r, s) \cup Behind(s, r) = Servers
      /\ Behind(r, s) \cap Behind(s, r) = {}
  BY <1>2, TreeAssumption
<1>4. r \in Neighbours(s)
  BY <1>3 DEF Edges
<1>5. \A x \in Servers : Route[r][x] = s <=> Route[s][x] # r
  BY <1>3 DEF Behind
<1>6. <<r, s>> \in Edges
  BY <1>2
<1>. QED
  BY <1>1, <1>3, <1>4, <1>5, <1>6

\* The routes are the ways of a tree.
LEMMA RoutesAreWays == TreeWays(Servers, Route)
<1>1. \A s, x \in Servers : Route[s][x] \in Servers
  <2>1. ASSUME NEW s \in Servers PROVE Route[s] \in [Servers -> Servers]
    BY ConstantsAssumption
  <2>. QED
    BY <2>1
<1>2. \A s, x \in Servers : Route[s][x] = s <=> x = s
  BY TreeAssumption, Zenon
<1>3. ASSUME NEW r \in Servers, NEW s \in Servers, r # s,
             \E x \in Servers : Route[r][x] = s
      PROVE  \A x \in Servers : Route[r][x] = s <=> Route[s][x] # r
  <2>1. s \in Neighbours(r)
    BY <1>3 DEF Neighbours
  <2>. QED
    BY <2>1, Sides
<1>. QED
  BY <1>1, <1>2, <1>3, ConstantsAssumption DEF TreeWays

\* A line that came to h from f, or from a user of h if f = h, may go on to any
\* other neighbour.
LEMMA WayOn ==
    ASSUME NEW f \in Servers, NEW h \in Servers, NEW t \in Neighbours(h), t # f,
           NEW m \in Messages, Way(m, f, h)
    PROVE  Way(m, h, t)
<1>1. t \in Servers /\ \A x \in Servers : Route[h][x] = f => Route[t][x] = h
  BY Sides
<1>2. ASSUME m.type \in {"join", "part"} PROVE From(t, m.who) = h
  <2>1. m.who \in Users /\ Home[m.who] \in Servers
    BY <1>2, LineFields, ConstantsAssumption
  <2>2. Route[h][Home[m.who]] = f
    BY <1>2 DEF Way, From
  <2>. QED
    BY <1>1, <2>1, <2>2 DEF From
<1>3. ASSUME m.type = "squit"
      PROVE  Behind(m.edge[1], m.edge[2]) \subseteq Behind(t, h)
  <2>1. Behind(m.edge[1], m.edge[2]) \subseteq Behind(h, f)
    BY <1>3 DEF Way
  <2>2. Behind(h, f) \subseteq Behind(t, h)
    BY <1>1 DEF Behind
  <2>. QED
    BY <2>1, <2>2
<1>. QED
  BY <1>2, <1>3 DEF Way

-----------------------------------------------------------------------------
(* What one server does *)

\* A server h that had the members old has the members new, and sends msgs to
\* every neighbour but f.  Whoever it adds or takes is told of, except that who
\* is behind f may leave without: f has sent the line that says so.
Fits(h, f, old, new, msgs) ==
    /\ \A u \in new \ old :
         From(h, u) = f /\ \E i \in 1 .. Len(msgs) : Brings(u, msgs[i])
    /\ \A u \in old \ new : From(h, u) = f \/ Kicked(u, msgs)
    /\ \A i \in 1 .. Len(msgs) :
         /\ \A u \in new : ~ Takes(u, msgs[i])
         /\ Way(msgs[i], f, h)

\* h does what the line m from f says of the users behind f, and takes whoever
\* is kicked.
Heeds(h, f, old, new, m) ==
    /\ \A u \in Users :
         /\ From(h, u) = f
         /\ Brings(u, m) \/ (u \in old /\ ~ Takes(u, m))
         => u \in new
    /\ m.type = "kick" => m.who \notin new

\* The links when h has read from f.  A line of one of its own users (f = h)
\* is on no link; a lost link is emptied.
ReadFrom(h, f, new, rest) ==
    \/ f = h /\ rest = chan
    \/ /\ h \in Neighbours(f)
       /\ chan[<<f, h>>] # <<>> /\ Heeds(h, f, srv[h].on, new, Line(f, h))
       /\ rest = Parsed(f, h)
    \/ /\ h \in Neighbours(f)
       /\ f \notin up'[h]
       /\ rest = [chan EXCEPT ![<<f, h>>] = <<>>]

\* A step of one server in which all this is so.
HandledAt(h, f, L, msgs) ==
    /\ srv' = [srv EXCEPT ![h] = L]
    /\ Fits(h, f, srv[h].on, L.on, msgs)
    /\ \E rest : ReadFrom(h, f, L.on, rest) /\ chan' = Sent(rest, h, Others(h, f), msgs)
    /\ \A s \in Servers : up'[s] \subseteq up[s]

\* The types, which Inv implies.
LEMMA OnTypes ==
    ASSUME Inv
    PROVE  /\ chan \in [Edges -> Seq(Messages)]
           /\ srv \in [Servers -> Channels]
           /\ up \in [Servers -> SUBSET Servers]
<1>1. Seq(SoundLines(grants)) \subseteq Seq(Messages)
  <2>1. SoundLines(grants) \subseteq Messages
    BY DEF SoundLines
  <2>. QED
    BY <2>1, SeqMonotonic
<1>2. SoundChannels(grants) \subseteq Channels
  BY DEF SoundChannels
<1>. QED
  BY <1>1, <1>2 DEF Inv

\* The links after such a step.
LinksAfter(h, f, L, msgs) ==
    /\ \A e \in Edges : e[1] # h /\ e # <<f, h>> => chan'[e] = chan[e]
    /\ \A e \in Edges : e[1] = h =>
         \/ e[2] # f /\ chan'[e] = chan[e] \o msgs
         \/ (e[2] = f \/ e[2] \notin Open(h)) /\ chan'[e] = chan[e]
    /\ f # h => /\ h \in Neighbours(f)
                /\ \/ /\ chan[<<f, h>>] # <<>>
                      /\ Heeds(h, f, srv[h].on, L.on, Line(f, h))
                      /\ chan'[<<f, h>>] = Tail(chan[<<f, h>>])
                   \/ f \notin up'[h] /\ chan'[<<f, h>>] = <<>>

\* h takes a line off the link from f, and adds msgs to those to the others.
LEMMA HandledLinks ==
    ASSUME Inv, NEW h \in Servers, NEW f \in Servers, NEW L, NEW msgs,
           HandledAt(h, f, L, msgs)
    PROVE  LinksAfter(h, f, L, msgs)
<1>1. PICK rest : /\ ReadFrom(h, f, L.on, rest)
                  /\ chan' = Sent(rest, h, Others(h, f), msgs)
  BY DEF HandledAt
<1>2. DOMAIN chan = Edges
  BY OnTypes
<1>3. \A e \in Edges : e # <<f, h>> => rest[e] = chan[e]
  BY <1>1, <1>2 DEF ReadFrom, Parsed
<1>4. \A e \in Edges :
        chan'[e] = IF e[1] = h /\ e[2] \in Others(h, f) \cap Open(h)
                   THEN rest[e] \o msgs ELSE rest[e]
  BY <1>1 DEF Sent
<1>5. ASSUME NEW e \in Edges, e[1] # h, e # <<f, h>> PROVE chan'[e] = chan[e]
  BY <1>3, <1>4, <1>5
<1>6. ASSUME NEW e \in Edges, e[1] = h
      PROVE  \/ e[2] # f /\ chan'[e] = chan[e] \o msgs
             \/ (e[2] = f \/ e[2] \notin Open(h)) /\ chan'[e] = chan[e]
  <2>1. e[2] # h
    BY <1>6 DEF Edges, Neighbours
  <2>2. rest[e] = chan[e]
    BY <1>3, <1>6, <2>1
  <2>3. e[2] \in Others(h, f) \cap Open(h) <=> e[2] # f /\ e[2] \in Open(h)
    BY DEF Others, Open
  <2>. QED
    BY <1>4, <1>6, <2>2, <2>3
<1>7. ASSUME f # h
      PROVE  /\ h \in Neighbours(f)
             /\ \/ /\ chan[<<f, h>>] # <<>>
                   /\ Heeds(h, f, srv[h].on, L.on, Line(f, h))
                   /\ chan'[<<f, h>>] = Tail(chan[<<f, h>>])
                \/ f \notin up'[h] /\ chan'[<<f, h>>] = <<>>
  <2>1. h \in Neighbours(f)
    BY <1>1, <1>7 DEF ReadFrom
  <2>2. <<f, h>> \in Edges
    BY <2>1, Sides
  <2>3. chan'[<<f, h>>] = rest[<<f, h>>]
    BY <1>4, <1>7, <2>2
  <2>. QED
    BY <1>1, <1>2, <1>7, <2>1, <2>2, <2>3 DEF ReadFrom, Parsed
<1>. QED
  BY <1>5, <1>6, <1>7 DEF LinksAfter

\* What h sends goes on the right way, whoever it came from.
LEMMA HandledRouted ==
    ASSUME Inv, Routed, NEW h \in Servers, NEW f \in Servers, NEW L,
           NEW msgs \in Seq(Messages), HandledAt(h, f, L, msgs)
    PROVE  Routed'
<1>1. SUFFICES ASSUME NEW r \in Servers, NEW s \in Neighbours(r),
                      NEW i \in 1 .. Len(chan'[<<r, s>>])
               PROVE  Way(chan'[<<r, s>>][i], r, s)
  BY DEF Routed
<1>. DEFINE e == <<r, s>>
            q == chan[e]
<1>2. e \in Edges /\ s \in Servers /\ s # r /\ q \in Seq(Messages)
  BY Sides, OnTypes
<1>3. \A j \in 1 .. Len(q) : Way(q[j], r, s)
  BY DEF Routed
<1>4. CASE chan'[e] = q \/ chan'[e] = <<>>
  <2>1. chan'[e] # <<>>
    BY <1>1
  <2>. QED
    BY <1>1, <1>3, <1>4, <2>1
<1>5. CASE q # <<>> /\ chan'[e] = Tail(q)
  <2>1. i \in 1 .. Len(Tail(q))
    BY <1>1, <1>5
  <2>. HIDE DEF q
  <2>2. i + 1 \in 1 .. Len(q) /\ Tail(q)[i] = q[i + 1]
    BY <1>2, <1>5, <2>1
  <2>. QED
    BY <1>3, <1>5, <2>2
<1>6. CASE r = h /\ s # f /\ chan'[e] = q \o msgs
  <2>1. CASE i <= Len(q)
    <3>1. i \in 1 .. Len(q) /\ (q \o msgs)[i] = q[i]
      BY <1>1, <1>2, <2>1
    <3>. QED
      BY <1>3, <1>6, <3>1
  <2>2. CASE ~ (i <= Len(q))
    <3>1. i - Len(q) \in 1 .. Len(msgs) /\ (q \o msgs)[i] = msgs[i - Len(q)]
      BY <1>1, <1>2, <1>6, <2>2
    <3>2. Way(msgs[i - Len(q)], f, h) /\ msgs[i - Len(q)] \in Messages
      BY <3>1 DEF HandledAt, Fits
    <3>. QED
      BY <1>6, <3>1, <3>2, WayOn
  <2>. QED
    BY <2>1, <2>2
<1>7. /\ r # h /\ e # <<f, h>> => chan'[e] = q
      /\ r = h => (s # f /\ chan'[e] = q \o msgs) \/ chan'[e] = q
      /\ e = <<f, h>> => \/ q # <<>> /\ chan'[e] = Tail(q)
                         \/ chan'[e] = <<>>
  <2>1. LinksAfter(h, f, L, msgs)
    BY HandledLinks
  <2>. QED
    BY <1>2, <2>1 DEF LinksAfter
<1>. HIDE DEF e, q
<1>. QED
  BY <1>4, <1>5, <1>6, <1>7

\* On every link, what h sends makes up for what it did to its members.
LEMMA HandledSpread ==
    ASSUME Inv, Spread, NEW h \in Servers, NEW f \in Servers, NEW L,
           NEW msgs \in Seq(Messages), HandledAt(h, f, L, msgs)
    PROVE  Spread'
<1>1. SUFFICES ASSUME NEW r \in Servers, NEW s \in Neighbours(r),
                      NEW u \in Users, s \in Open(r)', From(s, u) = r,
                      u \in srv'[r].on
               PROVE  \/ Comes(u, chan'[<<r, s>>], u \in srv'[s].on)
                      \/ Kicked(u, chan'[<<s, r>>])
  BY DEF Spread, Reaches, From
<1>. DEFINE e == <<r, s>>
            b == <<s, r>>
            q == chan[e]
            k == chan[b]
<1>2. /\ s \in Servers /\ s # r /\ e \in Edges /\ b \in Edges
      /\ q \in Seq(Messages) /\ k \in Seq(Messages)
      /\ e[1] = r /\ e[2] = s /\ b[1] = s /\ b[2] = r
      /\ Home[u] \in Servers /\ From(r, u) # s
  BY <1>1, Sides, OnTypes, ConstantsAssumption DEF From
<1>3. s \in Open(r) /\ r \in Open(s) /\ s \in up'[r] /\ r \in up'[s]
  <2>1. \A x \in Servers : up'[x] \subseteq up[x]
    BY DEF HandledAt
  <2>. QED
    BY <1>1, <1>2, <2>1 DEF Open
<1>4. u \in srv[r].on => Comes(u, q, u \in srv[s].on) \/ Kicked(u, k)
  BY <1>1, <1>3 DEF Spread, Reaches
<1>5. srv'[h] = L /\ \A x \in Servers : x # h => srv'[x] = srv[x]
  BY OnTypes DEF HandledAt
<1>6. Fits(h, f, srv[h].on, L.on, msgs)
  BY DEF HandledAt
<1>7. LinksAfter(h, f, L, msgs)
  BY HandledLinks
<1>. HIDE DEF e, b, q, k
<1>8. CASE r = h
  <2>1. srv'[s] = srv[s] /\ u \in L.on
    BY <1>1, <1>2, <1>5, <1>8
  <2>2. CASE f # s
    <3>1. chan'[e] = q \o msgs /\ chan'[b] = k
      BY <1>2, <1>3, <1>8, <2>2, <1>7 DEF LinksAfter, e, b, q, k
    <3>2. \A i \in 1 .. Len(msgs) : ~ Takes(u, msgs[i])
      BY <1>6, <2>1 DEF Fits
    <3>3. u \notin srv[r].on => \E i \in 1 .. Len(msgs) : Brings(u, msgs[i])
      BY <1>6, <1>8, <2>1 DEF Fits
    <3>4. Comes(u, q, u \in srv[s].on) \/ Kicked(u, k)
          \/ \E i \in 1 .. Len(msgs) : Brings(u, msgs[i])
      BY <1>4, <3>3
    <3>5. Comes(u, q \o msgs, u \in srv[s].on) \/ Kicked(u, k)
      BY <1>2, <3>2, <3>4, ComesAfter
    <3>. QED
      BY <2>1, <3>1, <3>5 DEF e, b
  <2>3. CASE f = s
    <3>1. chan'[e] = q /\ k # <<>> /\ chan'[b] = Tail(k)
          /\ Heeds(h, f, srv[h].on, L.on, k[1])
      <4>1. chan'[e] = q
        BY <1>2, <1>8, <2>3, <1>7 DEF LinksAfter, e, q
      <4>2. \/ /\ chan[<<f, h>>] # <<>>
               /\ Heeds(h, f, srv[h].on, L.on, Line(f, h))
               /\ chan'[<<f, h>>] = Tail(chan[<<f, h>>])
            \/ f \notin up'[h] /\ chan'[<<f, h>>] = <<>>
        BY <1>2, <1>8, <2>3, <1>7 DEF LinksAfter
      <4>. QED
        BY <1>3, <1>8, <2>3, <4>1, <4>2 DEF b, k, Line
    <3>2. u \in srv[r].on
      BY <1>2, <1>6, <1>8, <2>1, <2>3 DEF Fits
    <3>3. ~ (k[1].type = "kick" /\ k[1].who = u)
      BY <2>1, <3>1 DEF Heeds
    <3>4. Kicked(u, k) => Kicked(u, Tail(k))
      BY <1>2, <3>1, <3>3, KickedStays
    <3>. QED
      BY <1>4, <2>1, <3>1, <3>2, <3>4 DEF e, b
  <2>. QED
    BY <2>2, <2>3
<1>9. CASE s = h
  <2>1. srv'[r] = srv[r] /\ srv'[s] = L
    BY <1>2, <1>5, <1>9
  <2>2. Comes(u, q, u \in srv[s].on) \/ Kicked(u, k)
    BY <1>1, <1>4, <2>1
  <2>3. CASE f = r
    <3>1. chan'[b] = k /\ q # <<>> /\ chan'[e] = Tail(q)
          /\ Heeds(h, f, srv[h].on, L.on, q[1])
      <4>1. chan'[b] = k
        BY <1>2, <1>9, <2>3, <1>7 DEF LinksAfter, b, k
      <4>2. \/ /\ chan[<<f, h>>] # <<>>
               /\ Heeds(h, f, srv[h].on, L.on, Line(f, h))
               /\ chan'[<<f, h>>] = Tail(chan[<<f, h>>])
            \/ f \notin up'[h] /\ chan'[<<f, h>>] = <<>>
        BY <1>2, <1>9, <2>3, <1>7 DEF LinksAfter
      <4>. QED
        BY <1>3, <1>9, <2>3, <4>1, <4>2 DEF e, q, Line
    <3>2. Brings(u, q[1]) \/ (u \in srv[s].on /\ ~ Takes(u, q[1])) => u \in L.on
      BY <1>1, <1>9, <2>3, <3>1 DEF Heeds
    <3>3. Comes(u, q, u \in srv[s].on) => Comes(u, Tail(q), u \in L.on)
      BY <1>2, <3>1, <3>2, ComesRest
    <3>. QED
      BY <2>1, <2>2, <3>1, <3>3 DEF e, b
  <2>4. CASE f # r
    <3>1. chan'[e] = q /\ chan'[b] = k \o msgs
      <4>1. e # <<f, h>> /\ e[1] # h
        BY <1>2, <1>9, <2>4 DEF e
      <4>2. chan'[e] = q
        BY <1>2, <4>1, <1>7 DEF LinksAfter, q
      <4>3. chan'[b] = k \o msgs
        BY <1>2, <1>3, <1>9, <2>4, <1>7 DEF LinksAfter, k
      <4>. QED
        BY <4>2, <4>3
    <3>2. Kicked(u, k) \/ Kicked(u, msgs) => Kicked(u, k \o msgs)
      BY <1>2, KickedStays
    <3>3. (u \in srv[s].on => u \in L.on) \/ Kicked(u, msgs)
      BY <1>1, <1>6, <1>9, <2>4 DEF Fits
    <3>4. (u \in srv[s].on => u \in L.on) /\ Comes(u, q, u \in srv[s].on)
            => Comes(u, q, u \in L.on)
      BY ComesMore
    <3>. QED
      BY <2>1, <2>2, <3>1, <3>2, <3>3, <3>4 DEF e, b
  <2>. QED
    BY <2>3, <2>4
<1>10. CASE r # h /\ s # h
  <2>1. e # <<f, h>> /\ b # <<f, h>>
    BY <1>10 DEF e, b
  <2>2. chan'[e] = q /\ chan'[b] = k
    BY <1>2, <1>10, <2>1, <1>7 DEF LinksAfter, q, k
  <2>3. srv'[r] = srv[r] /\ srv'[s] = srv[s]
    BY <1>2, <1>5, <1>10
  <2>. QED
    BY <1>1, <1>4, <2>2, <2>3 DEF e, b
<1>. QED
  BY <1>8, <1>9, <1>10

-----------------------------------------------------------------------------
(* The handlers, as such steps *)

\* Lines that say nothing of who is on the channel.
Silent == {m \in Messages : m.type \in {"op", "mode", "ban", "bmask"}}

\* A server that keeps its members may send such lines.
LEMMA SilentFits ==
    ASSUME NEW h, NEW f, NEW on, NEW m,
           m.type \in {"op", "mode", "ban", "bmask"}
    PROVE  Fits(h, f, on, on, <<m>>) /\ Fits(h, f, on, on, <<>>)
<1>1. \A i \in 1 .. Len(<<m>>) : <<m>>[i] = m
  OBVIOUS
<1>2. \A u : ~ Takes(u, m)
  BY DEF Takes
<1>3. Way(m, f, h)
  BY DEF Way
<1>. QED
  BY <1>1, <1>2, <1>3 DEF Fits

\* Who is on a channel after the operators on it.
LEMMA OnAfter ==
    ASSUME NEW L \in Channels
    PROVE  /\ \A X : Left(L, X).on = L.on \ X
           /\ \A v, add : SetOp(L, v, add).on = L.on
           /\ \A md, add : SetMode(L, md, add).on = L.on
           /\ \A b, add : SetBan(L, b, add).on = L.on
           /\ \A B : [L EXCEPT !.bans = B].on = L.on
           /\ \A t : [L EXCEPT !.ts = t].on = L.on
           /\ \A X : [L EXCEPT !.on = X].on = X
           /\ \A ts, modes, members, ops, B :
                /\ Merged(L, ts, modes, members, ops).on = L.on \cup members
                /\ [Merged(L, ts, modes, members, ops) EXCEPT !.bans = B].on
                     = L.on \cup members
<1>1. ASSUME NEW X PROVE Left(L, X).on = L.on \ X
  <2>1. NoChannel.on = {}
    BY DEF NoChannel
  <2>2. [L EXCEPT !.on = @ \ X, !.op = @ \ X, !.deopped = @ \ X].on = L.on \ X
    BY DEF Channels
  <2>. QED
    BY <2>1, <2>2 DEF Left
<1>2. \A v, add : SetOp(L, v, add).on = L.on
  BY DEF SetOp, Channels
<1>3. \A md, add : SetMode(L, md, add).on = L.on
  BY DEF SetMode, Channels
<1>4. \A b, add : SetBan(L, b, add).on = L.on
  BY DEF SetBan, Channels
<1>5. /\ \A B : [L EXCEPT !.bans = B].on = L.on
      /\ \A t : [L EXCEPT !.ts = t].on = L.on
      /\ \A X : [L EXCEPT !.on = X].on = X
  BY DEF Channels
<1>6. ASSUME NEW ts, NEW modes, NEW members, NEW ops, NEW B
      PROVE  /\ Merged(L, ts, modes, members, ops).on = L.on \cup members
             /\ [Merged(L, ts, modes, members, ops) EXCEPT !.bans = B].on
                  = L.on \cup members
  BY DEF Merged
<1>. QED
  BY <1>1, <1>2, <1>3, <1>4, <1>5, <1>6

\* The lines about one user, and what they do.
LEMMA LinesAbout ==
    ASSUME NEW u \in Users
    PROVE  /\ \A ts \in TSs : JoinLine(u, ts) \in Messages
           /\ \A ts, v : Brings(v, JoinLine(u, ts)) <=> v = u
           /\ \A ts, v : ~ Takes(v, JoinLine(u, ts))
           /\ \A ts, r, s : From(s, u) = r => Way(JoinLine(u, ts), r, s)
<1>1. \A ts \in TSs : JoinLine(u, ts) \in Messages
  BY JoinLineSound DEF SoundLines
<1>2. ASSUME NEW ts
      PROVE  /\ \A v : Brings(v, JoinLine(u, ts)) <=> v = u
             /\ \A v : ~ Takes(v, JoinLine(u, ts))
             /\ \A r, s : From(s, u) = r => Way(JoinLine(u, ts), r, s)
  BY DEF JoinLine, Sjoin, Brings, Takes, Way
<1>. QED
  BY <1>1, <1>2

\* A line that brings the users X, and adds exactly them.
LEMMA BringsFits ==
    ASSUME NEW h, NEW f, NEW old, NEW new, NEW m,
           new = old \cup {u \in new : Brings(u, m)},
           \A u \in new \ old : From(h, u) = f,
           \A u : ~ Takes(u, m), Way(m, f, h)
    PROVE  Fits(h, f, old, new, <<m>>)
<1>1. 1 \in 1 .. Len(<<m>>) /\ \A i \in 1 .. Len(<<m>>) : <<m>>[i] = m
  OBVIOUS
<1>. QED
  BY <1>1 DEF Fits

\* A line that takes the users X, when exactly they leave.
LEMMA TakesFits ==
    ASSUME NEW h, NEW f, NEW old, NEW new, NEW X, NEW m, new = old \ X,
           \A u : Takes(u, m) => u \notin new,
           \A u \in X : From(h, u) = f \/ (m.type = "kick" /\ m.who = u),
           Way(m, f, h)
    PROVE  Fits(h, f, old, new, <<m>>)
<1>1. 1 \in 1 .. Len(<<m>>) /\ \A i \in 1 .. Len(<<m>>) : <<m>>[i] = m
  OBVIOUS
<1>. QED
  BY <1>1 DEF Fits, Kicked

\* A command of a user of h.
LEMMA LocalHandled ==
    ASSUME Inv, NEW h \in Servers, NEW L, NEW msgs \in Seq(Messages),
           srv' = [srv EXCEPT ![h] = L], UNCHANGED up,
           chan' = Sent(chan, h, up[h], msgs) \/ (msgs = <<>> /\ chan' = chan),
           Fits(h, h, srv[h].on, L.on, msgs)
    PROVE  HandledAt(h, h, L, msgs)
<1>1. DOMAIN chan = Edges /\ chan \in [Edges -> Seq(Messages)]
  BY OnTypes
<1>2. \A e \in Edges : e[1] = h => e[2] # h
  BY DEF Edges, Neighbours
<1>3. CASE chan' = Sent(chan, h, up[h], msgs)
  <2>1. \A e \in Edges : e[1] = h /\ e[2] \in up[h] \cap Open(h)
                     <=> e[1] = h /\ e[2] \in Others(h, h) \cap Open(h)
    BY <1>2 DEF Others
  <2>2. chan' = Sent(chan, h, Others(h, h), msgs)
    BY <1>3, <2>1 DEF Sent
  <2>. QED
    BY <2>2 DEF HandledAt, ReadFrom
<1>4. CASE msgs = <<>> /\ chan' = chan
  <2>1. Sent(chan, h, Others(h, h), <<>>) = chan
    <3>1. \A e \in Edges : chan[e] \o <<>> = chan[e]
      BY <1>1
    <3>. QED
      BY <1>1, <3>1 DEF Sent
  <2>. QED
    BY <1>4, <2>1 DEF HandledAt, ReadFrom
<1>. QED
  BY <1>3, <1>4

\* The commands.
LEMMA CommandHandled ==
    ASSUME Inv, NEW u \in Users, UserCommand(u)
    PROVE  \E L : \E msgs \in Seq(Messages) : HandledAt(Home[u], Home[u], L, msgs)
<1>. DEFINE h == Home[u]
            K == srv[h]
<1>1. /\ h \in Servers /\ K \in Channels /\ From(h, u) = h
      /\ srv = [srv EXCEPT ![h] = K]
  BY ConstantsAssumption, TreeAssumption, OnTypes DEF From
<1>2. <<>> \in Seq(Messages) /\ \A m \in Messages : <<m>> \in Seq(Messages)
  OBVIOUS
<1>3. K.on # {} => K.ts \in TSs /\ Stamp(K.ts) \in Stamps
  <2>1. K.on # {} => K.ts \in TSs
    BY <1>1, ChannelFields, ConstantsAssumption DEF TSs
  <2>. QED
    BY <2>1, StampType
<1>4. K.op \subseteq K.on /\ K.on \subseteq Users
  BY <1>1, ChannelFields
<1>5. SoundLines(grants) \subseteq Messages
  BY DEF SoundLines
<1>. HIDE DEF h
<1>6. ASSUME NEW t \in TSs, Create(u, t)
      PROVE  \E L : \E msgs \in Seq(Messages) : HandledAt(h, h, L, msgs)
  <2>. DEFINE L == Made(K, u, t)
              m == Sjoin(t, NewModes, FALSE, {u}, {u})
  <2>1. /\ K.on = {} /\ srv' = [srv EXCEPT ![h] = L]
        /\ chan' = Sent(chan, h, up[h], <<m>>) /\ UNCHANGED up
    BY <1>6 DEF Create, h
  <2>2. L.on = {u}
    BY <1>1 DEF Made, Channels
  <2>3. m \in Messages
    BY ConstantsAssumption DEF Messages, Sjoin
  <2>4. /\ \A v : Brings(v, m) <=> v = u
        /\ \A v : ~ Takes(v, m)
        /\ Way(m, h, h)
    BY DEF Sjoin, Brings, Takes, Way
  <2>. HIDE DEF L, m
  <2>5. Fits(h, h, K.on, L.on, <<m>>)
    BY <1>1, <2>1, <2>2, <2>4, BringsFits
  <2>6. HandledAt(h, h, L, <<m>>)
    BY <1>1, <1>2, <2>1, <2>3, <2>5, LocalHandled
  <2>. QED
    BY <1>2, <2>3, <2>6
<1>7. ASSUME NEW t \in TSs, JoinZero(u, t)
      PROVE  \E L : \E msgs \in Seq(Messages) : HandledAt(h, h, L, msgs)
  <2>. DEFINE L == [K EXCEPT !.ts = t]
  <2>1. srv' = [srv EXCEPT ![h] = L] /\ UNCHANGED <<up, chan>>
    BY <1>1, <1>7, OnTypes DEF JoinZero, h
  <2>2. L.on = K.on
    BY <1>1, OnAfter
  <2>. HIDE DEF L
  <2>3. Fits(h, h, K.on, L.on, <<>>)
    BY <2>2 DEF Fits, Kicked
  <2>4. HandledAt(h, h, L, <<>>)
    BY <1>1, <1>2, <2>1, <2>3, LocalHandled
  <2>. QED
    BY <1>2, <2>4
<1>8. ASSUME Join(u)
      PROVE  \E L : \E msgs \in Seq(Messages) : HandledAt(h, h, L, msgs)
  <2>. DEFINE L == [K EXCEPT !.on = K.on \cup {u}]
              m == JoinLine(u, K.ts)
  <2>1. /\ K.on # {} /\ srv' = [srv EXCEPT ![h] = L]
        /\ chan' = Sent(chan, h, up[h], <<m>>) /\ UNCHANGED up
    BY <1>1, <1>8, OnTypes DEF Join, h
  <2>2. L.on = K.on \cup {u}
    BY <1>1, OnAfter
  <2>3. m \in Messages
    BY <1>3, <2>1, LinesAbout
  <2>4. /\ \A v : Brings(v, m) <=> v = u
        /\ \A v : ~ Takes(v, m)
        /\ Way(m, h, h)
    BY <1>1, LinesAbout
  <2>. HIDE DEF L, m
  <2>5. Fits(h, h, K.on, L.on, <<m>>)
    BY <1>1, <2>2, <2>4, BringsFits
  <2>6. HandledAt(h, h, L, <<m>>)
    BY <1>1, <1>2, <2>1, <2>3, <2>5, LocalHandled
  <2>. QED
    BY <1>2, <2>3, <2>6
<1>9. ASSUME NEW v \in Users, (Part(u) /\ v = u) \/ Kick(u, v)
      PROVE  \E L : \E msgs \in Seq(Messages) : HandledAt(h, h, L, msgs)
  <2>. DEFINE L == Left(K, {v})
  <2>1. PICK m \in {[type |-> "part", who |-> v], [type |-> "kick", who |-> v]} :
          /\ m.type = "part" => v = u
          /\ srv' = [srv EXCEPT ![h] = L]
          /\ chan' = Sent(chan, h, up[h], <<m>>) /\ UNCHANGED up
    BY <1>9 DEF Part, Kick, h
  <2>2. L.on = K.on \ {v}
    BY <1>1, OnAfter
  <2>3. m \in Messages
    BY DEF Messages
  <2>4. /\ \A x : Takes(x, m) <=> x = v
        /\ From(h, v) = h \/ (m.type = "kick" /\ m.who = v)
        /\ Way(m, h, h)
    BY <1>1, <2>1 DEF Takes, Way
  <2>. HIDE DEF L
  <2>5. Fits(h, h, K.on, L.on, <<m>>)
    BY <2>2, <2>4, TakesFits
  <2>6. HandledAt(h, h, L, <<m>>)
    BY <1>1, <1>2, <2>1, <2>3, <2>5, LocalHandled
  <2>. QED
    BY <1>2, <2>3, <2>6
<1>10. ASSUME NEW L, NEW m \in Silent, L.on = K.on,
              srv' = [srv EXCEPT ![h] = L], UNCHANGED up,
              chan' = Sent(chan, h, up[h], <<m>>)
       PROVE  \E M : \E msgs \in Seq(Messages) : HandledAt(h, h, M, msgs)
  <2>1. m \in Messages /\ Fits(h, h, K.on, L.on, <<m>>)
    BY <1>10, SilentFits DEF Silent
  <2>2. HandledAt(h, h, L, <<m>>)
    BY <1>1, <1>2, <1>10, <2>1, LocalHandled
  <2>. QED
    BY <1>2, <2>1, <2>2
<1>11. ASSUME \/ \E v \in Users, add \in BOOLEAN : ModeOp(u, v, add)
              \/ \E md \in Modes, add \in BOOLEAN : ModeSimple(u, md, add)
              \/ \E b \in Masks, add \in BOOLEAN : ModeBan(u, b, add)
       PROVE  \E L : \E m \in Silent :
                /\ L.on = K.on /\ srv' = [srv EXCEPT ![h] = L] /\ UNCHANGED up
                /\ chan' = Sent(chan, h, up[h], <<m>>)
  <2>1. ASSUME NEW v \in Users, NEW add \in BOOLEAN, ModeOp(u, v, add)
        PROVE  \E L : \E m \in Silent :
                 /\ L.on = K.on /\ srv' = [srv EXCEPT ![h] = L] /\ UNCHANGED up
                 /\ chan' = Sent(chan, h, up[h], <<m>>)
    <3>. DEFINE m == [type |-> "op", who |-> u, ts |-> Stamp(K.ts),
                      target |-> v, add |-> add]
    <3>1. /\ u \in K.op /\ srv' = [srv EXCEPT ![h] = SetOp(K, v, add)]
          /\ chan' = Sent(chan, h, up[h], <<m>>) /\ UNCHANGED up
      BY <2>1 DEF ModeOp, h
    <3>2. m \in Silent
      BY <1>3, <1>4, <3>1 DEF Silent, Messages
    <3>3. SetOp(K, v, add).on = K.on
      BY <1>1, OnAfter
    <3>. HIDE DEF m, K
    <3>. QED
      BY <3>1, <3>2, <3>3
  <2>2. ASSUME NEW md \in Modes, NEW add \in BOOLEAN, ModeSimple(u, md, add)
        PROVE  \E L : \E m \in Silent :
                 /\ L.on = K.on /\ srv' = [srv EXCEPT ![h] = L] /\ UNCHANGED up
                 /\ chan' = Sent(chan, h, up[h], <<m>>)
    <3>. DEFINE m == [type |-> "mode", who |-> u, ts |-> Stamp(K.ts),
                      mode |-> md, add |-> add]
    <3>1. /\ u \in K.op /\ srv' = [srv EXCEPT ![h] = SetMode(K, md, add)]
          /\ chan' = Sent(chan, h, up[h], <<m>>) /\ UNCHANGED up
      BY <2>2 DEF ModeSimple, h
    <3>2. m \in Silent
      BY <1>3, <1>4, <3>1 DEF Silent, Messages
    <3>3. SetMode(K, md, add).on = K.on
      BY <1>1, OnAfter
    <3>. HIDE DEF m, K
    <3>. QED
      BY <3>1, <3>2, <3>3
  <2>3. ASSUME NEW b \in Masks, NEW add \in BOOLEAN, ModeBan(u, b, add)
        PROVE  \E L : \E m \in Silent :
                 /\ L.on = K.on /\ srv' = [srv EXCEPT ![h] = L] /\ UNCHANGED up
                 /\ chan' = Sent(chan, h, up[h], <<m>>)
    <3>. DEFINE m == [type |-> "ban", who |-> u, ts |-> Stamp(K.ts),
                      mask |-> b, add |-> add]
    <3>1. /\ u \in K.op /\ srv' = [srv EXCEPT ![h] = SetBan(K, b, add)]
          /\ chan' = Sent(chan, h, up[h], <<m>>) /\ UNCHANGED up
      BY <2>3 DEF ModeBan, h
    <3>2. m \in Silent
      BY <1>3, <1>4, <3>1, ConstantsAssumption DEF Silent, Messages
    <3>3. SetBan(K, b, add).on = K.on
      BY <1>1, OnAfter
    <3>. HIDE DEF m, K
    <3>. QED
      BY <3>1, <3>2, <3>3
  <2>. QED
    BY <1>11, <2>1, <2>2, <2>3
<1>12. \/ \E t \in TSs : Create(u, t) \/ JoinZero(u, t)
       \/ Join(u)
       \/ \E v \in Users : (Part(u) /\ v = u) \/ Kick(u, v)
       \/ \E v \in Users, add \in BOOLEAN : ModeOp(u, v, add)
       \/ \E md \in Modes, add \in BOOLEAN : ModeSimple(u, md, add)
       \/ \E b \in Masks, add \in BOOLEAN : ModeBan(u, b, add)
  BY DEF UserCommand
<1>. HIDE DEF K
<1>. QED
  BY <1>6, <1>7, <1>8, <1>9, <1>10, <1>11, <1>12 DEF h

\* A mode change with another timestamp is one still.
LEMMA StampedAgain ==
    ASSUME NEW m \in Messages, m.type \in {"op", "mode", "ban"}, NEW ts \in Stamps
    PROVE  [m EXCEPT !.ts = ts] \in Silent
<1>. DEFINE n == [m EXCEPT !.ts = ts]
<1>1. CASE m.type = "op"
  <2>1. /\ m.who \in Users /\ m.target \in Users /\ m.add \in BOOLEAN
    BY <1>1, LineFields
  <2>2. n = [type |-> "op", who |-> m.who, ts |-> ts, target |-> m.target,
             add |-> m.add]
    BY <1>1 DEF Messages
  <2>. HIDE DEF n
  <2>. QED
    BY <2>1, <2>2 DEF Silent, Messages
<1>2. CASE m.type = "mode"
  <2>1. /\ m.who \in Users /\ m.mode \in Modes /\ m.add \in BOOLEAN
    BY <1>2, LineFields
  <2>2. n = [type |-> "mode", who |-> m.who, ts |-> ts, mode |-> m.mode,
             add |-> m.add]
    BY <1>2 DEF Messages
  <2>. HIDE DEF n
  <2>. QED
    BY <2>1, <2>2 DEF Silent, Messages
<1>3. CASE m.type = "ban"
  <2>1. /\ m.who \in Users /\ m.mask \in Users /\ m.add \in BOOLEAN
    BY <1>3, LineFields
  <2>2. n = [type |-> "ban", who |-> m.who, ts |-> ts, mask |-> m.mask,
             add |-> m.add]
    BY <1>3 DEF Messages
  <2>. HIDE DEF n
  <2>. QED
    BY <2>1, <2>2 DEF Silent, Messages
<1>. QED
  BY <1>1, <1>2, <1>3

\* The first line of a link came the right way.
LEMMA HeadRouted ==
    ASSUME Inv, Routed, NEW r \in Servers, NEW s \in Neighbours(r), NEW type,
           Arrives(r, s, type)
    PROVE  Way(Line(r, s), r, s)
<1>1. <<r, s>> \in Edges
  BY Sides
<1>2. chan[<<r, s>>] \in Seq(Messages) /\ chan[<<r, s>>] # <<>>
  BY <1>1, OnTypes DEF Arrives
<1>3. 1 \in 1 .. Len(chan[<<r, s>>])
  BY <1>2
<1>. QED
  BY <1>3 DEF Routed, Line

\* A server s has parsed a line of its neighbour r.
LEMMA ParsedHandled ==
    ASSUME Inv, NEW r \in Servers, NEW s \in Neighbours(r), NEW type,
           Arrives(r, s, type), Handled,
           NEW L, NEW msgs \in Seq(Messages), srv' = [srv EXCEPT ![s] = L],
           \/ chan' = Sent(Parsed(r, s), s, Others(s, r), msgs)
           \/ msgs = <<>> /\ chan' = Parsed(r, s),
           Fits(s, r, srv[s].on, L.on, msgs),
           Heeds(s, r, srv[s].on, L.on, Line(r, s))
    PROVE  HandledAt(s, r, L, msgs)
<1>1. Parsed(r, s) \in [Edges -> Seq(Messages)]
  <2>1. Parsed(r, s) \in [Edges -> Seq(SoundLines(grants))]
    BY ParsedSound
  <2>2. Seq(SoundLines(grants)) \subseteq Seq(Messages)
    BY SeqMonotonic DEF SoundLines
  <2>. QED
    BY <2>1, <2>2
<1>2. Sent(Parsed(r, s), s, Others(s, r), <<>>) = Parsed(r, s)
  <2>. DEFINE P == Parsed(r, s)
  <2>1. \A e \in Edges : P[e] \o <<>> = P[e]
    BY <1>1
  <2>2. P \in [Edges -> Seq(Messages)]
    BY <1>1
  <2>. HIDE DEF P
  <2>3. Sent(P, s, Others(s, r), <<>>) = P
    BY <2>1, <2>2 DEF Sent
  <2>. QED
    BY <2>3 DEF P
<1>3. chan' = Sent(Parsed(r, s), s, Others(s, r), msgs)
  BY <1>2
<1>4. chan[<<r, s>>] # <<>>
  BY DEF Arrives
<1>5. ReadFrom(s, r, L.on, Parsed(r, s))
  BY <1>4 DEF ReadFrom
<1>. QED
  BY <1>3, <1>5 DEF HandledAt, Handled

\* The lines, all but those about operators, modes and bans.
LEMMA MembersHandled ==
    ASSUME Inv, Routed, NEW r \in Servers, NEW s \in Neighbours(r),
           \/ RemoteSjoin(r, s) \/ RemoteJoin(r, s) \/ RemotePart(r, s)
           \/ RemoteKick(r, s) \/ RemoteSquit(r, s)
    PROVE  \E L : \E msgs \in Seq(Messages) : HandledAt(s, r, L, msgs)
<1>. DEFINE K == srv[s]
            m == Line(r, s)
<1>1. <<>> \in Seq(Messages) /\ \A n \in Messages : <<n>> \in Seq(Messages)
  OBVIOUS
<1>2. s \in Servers
  BY Sides
<1>3. K \in Channels
  BY <1>2, OnTypes
<1>4. ASSUME NEW type, Arrives(r, s, type)
      PROVE  m \in Messages /\ m.type = type /\ Way(m, r, s)
  BY <1>4, ParsedSound, HeadRouted
<1>5. ASSUME NEW ts \in TSs
      PROVE  (IF Younger(K, ts) THEN K.ts ELSE ts) \in TSs
  <2>1. K.ts \in 0 .. MaxTS
    BY <1>3, ChannelFields
  <2>. HIDE DEF K
  <2>. QED
    BY <1>5, <2>1, ConstantsAssumption DEF Younger, TSs
<1>6. CASE RemoteSjoin(r, s)
  <2>. DEFINE names == {u \in m.members : From(s, u) = r}
              ops == m.ops \cap names
              new == Merged(K, m.ts, m.modes, names, ops)
              zero == m.zero \/ Younger(K, m.ts)
              n == Sjoin(new.ts, IF zero THEN {} ELSE new.modes, zero, names,
                         IF Younger(K, m.ts) THEN {} ELSE ops)
              L == IF TS6 /\ Older(K, m.ts) THEN [new EXCEPT !.bans = {}] ELSE new
  <2>1. /\ Arrives(r, s, "sjoin") /\ Handled
        /\ srv' = [srv EXCEPT ![s] = L]
        /\ chan' = IF names = {} THEN Parsed(r, s)
                   ELSE Sent(Parsed(r, s), s, Others(s, r), <<n>>)
    BY <1>6 DEF RemoteSjoin
  <2>2. /\ m.type = "sjoin" /\ m.ts \in TSs /\ m.modes \subseteq Modes
        /\ m.zero \in BOOLEAN /\ m.members \subseteq Users /\ m.ops \subseteq Users
    BY <1>4, <2>1, LineFields
  <2>3. L.on = K.on \cup names
    BY <1>3, OnAfter
  <2>4. n \in Messages
    <3>1. new.ts \in TSs
      BY <1>5, <2>2 DEF Merged
    <3>2. new.modes \in SUBSET Modes
      <4>1. K.modes \subseteq Modes
        BY <1>3, ChannelFields
      <4>. HIDE DEF K, m, names, ops
      <4>. QED
        BY <2>2, <4>1 DEF Merged
    <3>3. names \in SUBSET Users /\ ops \in SUBSET Users /\ zero \in BOOLEAN
      BY <2>2 DEF Younger
    <3>. HIDE DEF new, names, ops, zero, m, K
    <3>. QED
      BY <3>1, <3>2, <3>3 DEF Sjoin, Messages
  <2>5. /\ \A u : Brings(u, n) <=> u \in names
        /\ \A u : ~ Takes(u, n)
        /\ Way(n, r, s)
    <3>. HIDE DEF new, names, ops, zero, m, K
    <3>. QED
      BY DEF Sjoin, Brings, Takes, Way
  <2>6. \A u : u \in names <=> u \in m.members /\ From(s, u) = r
    OBVIOUS
  <2>7. \A u : Brings(u, m) <=> u \in m.members
    BY <2>2 DEF Brings
  <2>. HIDE DEF L, n, names, m, K
  <2>8. Heeds(s, r, K.on, L.on, m)
    BY <2>2, <2>3, <2>6, <2>7 DEF Heeds
  <2>9. CASE names = {}
    <3>1. Fits(s, r, K.on, L.on, <<>>)
      BY <2>3, <2>9 DEF Fits
    <3>2. HandledAt(s, r, L, <<>>)
      BY <1>1, <2>1, <2>8, <2>9, <3>1, ParsedHandled DEF K, m
    <3>. QED
      BY <1>1, <3>2
  <2>10. CASE names # {}
    <3>1. Fits(s, r, K.on, L.on, <<n>>)
      BY <2>3, <2>5, <2>6, BringsFits
    <3>2. HandledAt(s, r, L, <<n>>)
      BY <1>1, <2>1, <2>4, <2>8, <2>10, <3>1, ParsedHandled DEF K, m
    <3>. QED
      BY <1>1, <2>4, <3>2
  <2>. QED
    BY <2>9, <2>10
<1>7. CASE RemoteJoin(r, s)
  <2>. DEFINE L == Merged(K, m.ts, {}, {m.who}, {})
              n == JoinLine(m.who, L.ts)
  <2>1. /\ Arrives(r, s, "join") /\ Handled
        /\ srv' = [srv EXCEPT ![s] = L]
        /\ chan' = Sent(Parsed(r, s), s, Others(s, r), <<n>>)
    BY <1>7 DEF RemoteJoin
  <2>2. /\ m.type = "join" /\ m.ts \in TSs /\ m.who \in Users
        /\ From(s, m.who) = r
    BY <1>4, <2>1, LineFields DEF Way
  <2>3. L.on = K.on \cup {m.who}
    BY <1>3, OnAfter
  <2>4. L.ts \in TSs
    BY <1>5, <2>2 DEF Merged
  <2>. HIDE DEF L, m, K
  <2>5. /\ n \in Messages
        /\ \A v : Brings(v, n) <=> v = m.who
        /\ \A v : ~ Takes(v, n)
        /\ Way(n, r, s)
    BY <2>2, <2>4, LinesAbout
  <2>. HIDE DEF n
  <2>6. \A u : Brings(u, m) <=> u = m.who
    BY <2>2 DEF Brings
  <2>7. Heeds(s, r, K.on, L.on, m)
    BY <2>2, <2>3, <2>6 DEF Heeds
  <2>8. Fits(s, r, K.on, L.on, <<n>>)
    BY <2>2, <2>3, <2>5, BringsFits
  <2>9. HandledAt(s, r, L, <<n>>)
    BY <1>1, <2>1, <2>5, <2>7, <2>8, ParsedHandled DEF K, m
  <2>. QED
    BY <1>1, <2>5, <2>9
<1>8. ASSUME NEW type \in {"part", "kick"}, Removes(r, s, type)
      PROVE  \E L : \E msgs \in Seq(Messages) : HandledAt(s, r, L, msgs)
  <2>. DEFINE L == Left(K, {m.who})
  <2>1. /\ Arrives(r, s, type) /\ Handled
        /\ srv' = [srv EXCEPT ![s] = L]
        /\ chan' = Sent(Parsed(r, s), s, Others(s, r), <<m>>)
    BY <1>8 DEF Removes
  <2>2. m.type = type /\ m \in Messages /\ Way(m, r, s)
    BY <1>4, <2>1
  <2>3. L.on = K.on \ {m.who}
    BY <1>3, OnAfter
  <2>. HIDE DEF L, m, K
  <2>4. \A u : Takes(u, m) <=> u = m.who
    BY <1>8, <2>2 DEF Takes
  <2>5. \A u : ~ Brings(u, m)
    BY <1>8, <2>2 DEF Brings
  <2>6. \A u \in {m.who} : From(s, u) = r \/ (m.type = "kick" /\ m.who = u)
    BY <1>8, <2>2 DEF Way
  <2>7. Heeds(s, r, K.on, L.on, m)
    BY <2>3, <2>4, <2>5 DEF Heeds
  <2>8. Fits(s, r, K.on, L.on, <<m>>)
    <3>. DEFINE X == {m.who}
    <3>1. /\ L.on = K.on \ X
          /\ \A u : Takes(u, m) => u \notin L.on
          /\ \A u \in X : From(s, u) = r \/ (m.type = "kick" /\ m.who = u)
      BY <2>3, <2>4, <2>6
    <3>. HIDE DEF X
    <3>. QED
      BY <2>2, <3>1, TakesFits
  <2>9. HandledAt(s, r, L, <<m>>)
    BY <1>1, <2>1, <2>2, <2>7, <2>8, ParsedHandled DEF K, m
  <2>. QED
    BY <1>1, <2>2, <2>9
<1>9. CASE RemoteSquit(r, s)
  <2>. DEFINE gone == {u \in K.on : Home[u] \in Behind(m.edge[1], m.edge[2])}
              L == Left(K, gone)
  <2>1. /\ Arrives(r, s, "squit") /\ Handled
        /\ srv' = [srv EXCEPT ![s] = L]
        /\ chan' = Sent(Parsed(r, s), s, Others(s, r), <<m>>)
    BY <1>2, <1>9, OnTypes DEF RemoteSquit
  <2>2. m.type = "squit" /\ m \in Messages /\ Way(m, r, s)
    BY <1>4, <2>1
  <2>3. L.on = K.on \ gone
    BY <1>3, OnAfter
  <2>4. /\ \A u : u \in gone <=> u \in K.on /\ Takes(u, m)
        /\ \A u : ~ Brings(u, m)
    BY <2>2 DEF Takes, Brings
  <2>5. \A u \in gone : From(s, u) = r
    BY <2>2 DEF Way, Behind, From
  <2>. HIDE DEF L, m, K, gone
  <2>6. Heeds(s, r, K.on, L.on, m)
    BY <2>2, <2>3, <2>4 DEF Heeds
  <2>7. Fits(s, r, K.on, L.on, <<m>>)
    BY <2>2, <2>3, <2>4, <2>5, TakesFits
  <2>8. HandledAt(s, r, L, <<m>>)
    BY <1>1, <2>1, <2>2, <2>6, <2>7, ParsedHandled DEF K, m
  <2>. QED
    BY <1>1, <2>2, <2>8
<1>. QED
  BY <1>6, <1>7, <1>8, <1>9 DEF RemotePart, RemoteKick

\* The other lines, and those that are returned from.
LEMMA SilentHandled ==
    ASSUME Inv, NEW r \in Servers, NEW s \in Neighbours(r),
           \/ RemoteOp(r, s) \/ RemoteMode(r, s) \/ RemoteBan(r, s)
           \/ RemoteBmask(r, s) \/ Ignored(r, s)
    PROVE  \E L : \E msgs \in Seq(Messages) : HandledAt(s, r, L, msgs)
<1>. DEFINE K == srv[s]
            m == Line(r, s)
<1>1. <<>> \in Seq(Messages) /\ \A n \in Messages : <<n>> \in Seq(Messages)
  OBVIOUS
<1>2. s \in Servers
  BY Sides
<1>3. K \in Channels
  BY <1>2, OnTypes
<1>4. ASSUME NEW type, Arrives(r, s, type)
      PROVE  m \in Messages /\ m.type = type
  BY <1>4, ParsedSound
<1>5. ASSUME NEW type, Arrives(r, s, type), Handled,
             NEW L, L.on = K.on, srv' = [srv EXCEPT ![s] = L],
             Heeds(s, r, K.on, K.on, m),
             \/ chan' = Parsed(r, s)
             \/ \E n \in Silent : chan' = Sent(Parsed(r, s), s, Others(s, r), <<n>>)
      PROVE  \E M : \E msgs \in Seq(Messages) : HandledAt(s, r, M, msgs)
  <2>. HIDE DEF K, m
  <2>1. CASE chan' = Parsed(r, s)
    <3>1. Fits(s, r, K.on, L.on, <<>>)
      BY <1>5 DEF Fits
    <3>2. HandledAt(s, r, L, <<>>)
      BY <1>1, <1>5, <2>1, <3>1, ParsedHandled DEF K, m
    <3>. QED
      BY <1>1, <3>2
  <2>2. ASSUME NEW n \in Silent, chan' = Sent(Parsed(r, s), s, Others(s, r), <<n>>)
        PROVE  \E M : \E msgs \in Seq(Messages) : HandledAt(s, r, M, msgs)
    <3>1. n \in Messages /\ Fits(s, r, K.on, L.on, <<n>>)
      BY <1>5, SilentFits DEF Silent
    <3>2. HandledAt(s, r, L, <<n>>)
      BY <1>1, <1>5, <2>2, <3>1, ParsedHandled DEF K, m
    <3>. QED
      BY <1>1, <3>1, <3>2
  <2>. QED
    BY <1>5, <2>1, <2>2
<1>6. m.type \in {"op", "mode", "ban", "bmask"} => Heeds(s, r, K.on, K.on, m)
  BY DEF Heeds, Brings
<1>7. ASSUME RemoteOp(r, s) \/ RemoteMode(r, s) \/ RemoteBan(r, s)
      PROVE  \E L : \E msgs \in Seq(Messages) : HandledAt(s, r, L, msgs)
  <2>. DEFINE n == [m EXCEPT !.ts = Stamp(K.ts)]
  <2>1. PICK type \in {"op", "mode", "ban"} : Arrives(r, s, type) /\ Heeded(r, s)
    BY <1>7 DEF RemoteOp, RemoteMode, RemoteBan
  <2>2. m \in Messages /\ m.type = type
    BY <1>4, <2>1
  <2>3. Stamp(K.ts) \in Stamps
    BY <2>1, HeededMeans DEF Heeded
  <2>4. n \in Silent
    BY <2>2, <2>3, StampedAgain
  <2>5. /\ Handled /\ chan' = Sent(Parsed(r, s), s, Others(s, r), <<n>>)
        /\ \/ srv' = [srv EXCEPT ![s] = SetOp(K, m.target, m.add)]
           \/ srv' = [srv EXCEPT ![s] = SetMode(K, m.mode, m.add)]
           \/ srv' = [srv EXCEPT ![s] = SetBan(K, m.mask, m.add)]
    BY <1>7 DEF RemoteOp, RemoteMode, RemoteBan, Relayed
  <2>6. PICK L : L.on = K.on /\ srv' = [srv EXCEPT ![s] = L]
    <3>1. /\ SetOp(K, m.target, m.add).on = K.on
          /\ SetMode(K, m.mode, m.add).on = K.on
          /\ SetBan(K, m.mask, m.add).on = K.on
      BY <1>3, OnAfter
    <3>. HIDE DEF K, m, n
    <3>. QED
      BY <2>5, <3>1
  <2>. HIDE DEF K, m, n
  <2>. QED
    BY <1>5, <1>6, <2>1, <2>2, <2>4, <2>5, <2>6
<1>8. ASSUME RemoteBmask(r, s)
      PROVE  \E L : \E msgs \in Seq(Messages) : HandledAt(s, r, L, msgs)
  <2>. DEFINE on == IF TS6 THEN m.masks ELSE m.masks \ K.bans
              n == [type |-> "bmask", ts |-> Stamp(K.ts), masks |-> on]
              L == [K EXCEPT !.bans = K.bans \cup m.masks]
  <2>1. /\ Arrives(r, s, "bmask") /\ Handled
        /\ Stamp(K.ts) \in Stamps
        /\ chan' = IF on = {} THEN Parsed(r, s)
                   ELSE Sent(Parsed(r, s), s, Others(s, r), <<n>>)
    BY <1>8, HeededMeans DEF RemoteBmask
  <2>2. m \in Messages /\ m.type = "bmask" /\ m.masks \subseteq Users
    BY <1>4, <2>1, LineFields
  <2>3. n \in Silent
    BY <2>1, <2>2 DEF Silent, Messages
  <2>4. srv' = [srv EXCEPT ![s] = L]
    BY <1>2, <1>8, OnTypes DEF RemoteBmask
  <2>5. L.on = K.on
    BY <1>3, OnAfter
  <2>. HIDE DEF K, m, n, on, L
  <2>. QED
    BY <1>5, <1>6, <2>1, <2>2, <2>3, <2>4, <2>5
<1>9. ASSUME Ignored(r, s)
      PROVE  \E L : \E msgs \in Seq(Messages) : HandledAt(s, r, L, msgs)
  <2>1. /\ Handled /\ chan' = Parsed(r, s) /\ srv' = [srv EXCEPT ![s] = K]
    BY <1>2, <1>9, OnTypes DEF Ignored
  <2>2. PICK type : Arrives(r, s, type)
    BY <1>9 DEF Ignored
  <2>3. m \in Messages /\ m.type = type
    BY <1>4, <2>2
  <2>4. \/ m.type = "sjoin" /\ {u \in m.members : From(s, u) = r} = {}
        \/ m.type \in {"part", "kick"} /\ m.who \notin K.on
        \/ m.type \in {"op", "mode", "ban", "bmask"}
    BY <1>9 DEF Ignored, Arrives, Line
  <2>. HIDE DEF K, m
  <2>5. CASE m.type = "sjoin" /\ {u \in m.members : From(s, u) = r} = {}
    BY <1>5, <2>1, <2>2, <2>5 DEF Heeds, Brings
  <2>6. CASE m.type \in {"part", "kick"} /\ m.who \notin K.on
    BY <1>5, <2>1, <2>2, <2>6 DEF Heeds, Brings
  <2>. QED
    BY <1>5, <1>6, <2>1, <2>2, <2>4, <2>5, <2>6
<1>. QED
  BY <1>7, <1>8, <1>9

\* A lost link.
LEMMA LoseHandled ==
    ASSUME Inv, NEW s \in Servers, NEW t \in Neighbours(s), LoseLink(s, t)
    PROVE  \E L : \E msgs \in Seq(Messages) : HandledAt(s, t, L, msgs)
<1>. DEFINE K == srv[s]
            gone == {u \in K.on : Home[u] \in Behind(s, t)}
            L == Left(K, gone)
            m == Squit(s, t)
            rest == [chan EXCEPT ![<<t, s>>] = <<>>]
<1>1. /\ t \in Servers /\ s \in Neighbours(t) /\ <<s, t>> \in Edges
      /\ K \in Channels
  BY Sides, OnTypes
<1>2. /\ srv' = [srv EXCEPT ![s] = L]
      /\ chan' = Sent(rest, s, Others(s, t), <<m>>)
      /\ up' = [up EXCEPT ![s] = up[s] \ {t}]
  BY OnTypes DEF LoseLink, Others
<1>3. t \notin up'[s] /\ \A x \in Servers : up'[x] \subseteq up[x]
  BY <1>2, OnTypes
<1>4. m \in Messages /\ <<m>> \in Seq(Messages)
  <2>1. m \in Messages
    BY <1>1 DEF Squit, Messages
  <2>. HIDE DEF m
  <2>. QED
    BY <2>1
<1>5. L.on = K.on \ gone
  BY <1>1, OnAfter
<1>6. /\ \A u : Takes(u, m) <=> Home[u] \in Behind(s, t)
      /\ Way(m, t, s)
  BY DEF Takes, Way, Squit
<1>7. \A u \in gone : From(s, u) = t
  BY DEF Behind, From
<1>8. \A u : Takes(u, m) => u \notin L.on
  BY <1>5, <1>6
<1>. HIDE DEF K, gone, L, m, rest
<1>9. Fits(s, t, K.on, L.on, <<m>>)
  BY <1>5, <1>6, <1>7, <1>8, TakesFits
<1>10. ReadFrom(s, t, L.on, rest)
  BY <1>1, <1>3 DEF ReadFrom, rest
<1>11. HandledAt(s, t, L, <<m>>)
  BY <1>2, <1>3, <1>9, <1>10 DEF HandledAt, K
<1>. QED
  BY <1>4, <1>11

\* A burst has all members, and takes none.
LEMMA BurstBrings ==
    ASSUME Inv, NEW s \in Servers
    PROVE  /\ \A i \in 1 .. Len(Burst(s)) : Burst(s)[i].type \in {"sjoin", "bmask"}
           /\ \A u \in srv[s].on :
                \E i \in 1 .. Len(Burst(s)) :
                   /\ Brings(u, Burst(s)[i])
                   /\ \A j \in i + 1 .. Len(Burst(s)) : ~ Takes(u, Burst(s)[j])
<1>. DEFINE K == srv[s]
            m == Sjoin(K.ts, K.modes, FALSE, K.on, K.op)
            n == [type |-> "bmask", ts |-> Stamp(K.ts), masks |-> K.bans]
            B == Burst(s)
<1>1. CASE K.on = {}
  BY <1>1 DEF Burst
<1>2. CASE K.on # {}
  <2>1. /\ m.type = "sjoin" /\ m.members = K.on
        /\ n.type = "bmask"
    BY DEF Sjoin
  <2>2. B = <<m>> \o (IF K.bans = {} THEN <<>> ELSE <<n>>)
    BY <1>2 DEF Burst
  <2>. HIDE DEF m, n, B, K
  <2>3. /\ Len(B) \in Nat /\ 1 \in 1 .. Len(B) /\ B[1] = m
        /\ \A i \in 1 .. Len(B) : B[i] \in {m, n}
    <3>1. CASE B = <<m>> \o <<>>
      <4>1. Len(B) = 1 /\ B[1] = m
        BY <3>1
      <4>. QED
        BY <4>1
    <3>2. CASE B = <<m>> \o <<n>>
      <4>1. Len(B) = 2 /\ B[1] = m /\ B[2] = n
        BY <3>2
      <4>2. \A i \in 1 .. 2 : i = 1 \/ i = 2
        OBVIOUS
      <4>3. 1 \in 1 .. 2
        OBVIOUS
      <4>. QED
        BY <4>1, <4>2, <4>3
    <3>. QED
      BY <2>2, <3>1, <3>2
  <2>4. \A i \in 1 .. Len(B) : B[i].type \in {"sjoin", "bmask"}
    BY <2>1, <2>3
  <2>5. \A u, j : j \in 1 + 1 .. Len(B) => ~ Takes(u, B[j])
    <3>1. \A j : j \in 1 + 1 .. Len(B) => j \in 1 .. Len(B)
      BY <2>3
    <3>. QED
      BY <2>4, <3>1 DEF Takes
  <2>6. \A u \in K.on : Brings(u, B[1])
    BY <2>1, <2>3 DEF Brings
  <2>. QED
    BY <2>3, <2>4, <2>5, <2>6 DEF K, B
<1>. QED
  BY <1>1, <1>2

\* Two servers meet.
LEMMA LinkSpreads ==
    ASSUME Inv, Routed, Spread, NEW s \in Servers, NEW t \in Neighbours(s),
           Link(s, t)
    PROVE  Routed' /\ Spread'
<1>1. t \in Servers /\ s # t /\ <<s, t>> \in Edges /\ <<t, s>> \in Edges
  BY Sides
<1>2. /\ srv' = srv
      /\ \A x \in Servers : \A y : y \in up'[x] =>
           y \in up[x] \/ (x = s /\ y = t) \/ (x = t /\ y = s)
      /\ \A e \in Edges : e # <<s, t>> /\ e # <<t, s>> => chan'[e] = chan[e]
      /\ chan'[<<s, t>>] = Burst(s) /\ chan'[<<t, s>>] = Burst(t)
  BY <1>1, OnTypes DEF Link
<1>3. ASSUME NEW x \in Servers, NEW y \in Neighbours(x)
      PROVE  \/ /\ {x, y} = {s, t} /\ chan'[<<x, y>>] = Burst(x)
             \/ /\ {x, y} # {s, t} /\ chan'[<<x, y>>] = chan[<<x, y>>]
                /\ chan'[<<y, x>>] = chan[<<y, x>>]
                /\ y \in Open(x)' => y \in Open(x)
  <2>1. y \in Servers /\ <<x, y>> \in Edges /\ <<y, x>> \in Edges /\ x # y
    BY Sides
  <2>2. CASE {x, y} = {s, t}
    BY <1>2, <2>1, <2>2
  <2>3. CASE {x, y} # {s, t}
    <3>1. <<x, y>> # <<s, t>> /\ <<x, y>> # <<t, s>>
      BY <2>3
    <3>2. <<y, x>> # <<s, t>> /\ <<y, x>> # <<t, s>>
      BY <2>3
    <3>3. y \in Open(x)' => y \in Open(x)
      BY <1>2, <2>1, <2>3 DEF Open
    <3>. QED
      BY <1>2, <2>1, <2>3, <3>1, <3>2, <3>3
  <2>. QED
    BY <2>2, <2>3
<1>4. Routed'
  <2>1. ASSUME NEW x \in Servers, NEW y \in Neighbours(x),
               NEW i \in 1 .. Len(chan'[<<x, y>>])
        PROVE  Way(chan'[<<x, y>>][i], x, y)
    <3>1. CASE chan'[<<x, y>>] = chan[<<x, y>>]
      BY <2>1, <3>1 DEF Routed
    <3>2. CASE chan'[<<x, y>>] = Burst(x)
      <4>1. chan'[<<x, y>>][i].type \in {"sjoin", "bmask"}
        BY <2>1, <3>2, BurstBrings
      <4>. QED
        BY <4>1 DEF Way
    <3>. QED
      BY <1>3, <3>1, <3>2
  <2>. QED
    BY <2>1 DEF Routed
<1>5. Spread'
  <2>1. ASSUME NEW x \in Servers, NEW y \in Neighbours(x), NEW u \in Users,
               y \in Open(x)', From(y, u) = x, u \in srv'[x].on
        PROVE  \/ Comes(u, chan'[<<x, y>>], u \in srv'[y].on)
               \/ Kicked(u, chan'[<<y, x>>])
    <3>1. CASE chan'[<<x, y>>] = Burst(x)
      <4>1. PICK i \in 1 .. Len(Burst(x)) :
              /\ Brings(u, Burst(x)[i])
              /\ \A j \in i + 1 .. Len(Burst(x)) : ~ Takes(u, Burst(x)[j])
        BY <1>2, <2>1, BurstBrings
      <4>2. i \in 0 .. Len(Burst(x)) /\ i # 0
        OBVIOUS
      <4>3. Comes(u, Burst(x), u \in srv'[y].on)
        BY <4>1, <4>2 DEF Comes
      <4>. QED
        BY <3>1, <4>3
    <3>2. CASE /\ chan'[<<x, y>>] = chan[<<x, y>>]
               /\ chan'[<<y, x>>] = chan[<<y, x>>]
               /\ y \in Open(x)
      BY <1>2, <2>1, <3>2 DEF Spread, Reaches
    <3>. QED
      BY <1>3, <2>1, <3>1, <3>2
  <2>. QED
    BY <2>1 DEF Spread, Reaches, From
<1>. QED
  BY <1>4, <1>5

-----------------------------------------------------------------------------
(* Every step *)

\* A command, a line, a lost link, a new one.
LEMMA StepSpreads ==
    ASSUME Inv, Routed, Spread, [Next]_vars
    PROVE  Routed' /\ Spread'
<1>1. ASSUME NEW h \in Servers, NEW f \in Servers,
             \E L : \E msgs \in Seq(Messages) : HandledAt(h, f, L, msgs)
      PROVE  Routed' /\ Spread'
  <2>1. PICK L : \E msgs \in Seq(Messages) : HandledAt(h, f, L, msgs)
    BY <1>1
  <2>2. PICK msgs \in Seq(Messages) : HandledAt(h, f, L, msgs)
    BY <2>1
  <2>. QED
    BY <2>2, HandledRouted, HandledSpread
<1>2. ASSUME NEW u \in Users, UserCommand(u) PROVE Routed' /\ Spread'
  <2>1. Home[u] \in Servers
    BY ConstantsAssumption
  <2>. QED
    BY <1>1, <1>2, <2>1, CommandHandled
<1>3. ASSUME NEW r \in Servers, NEW s \in Neighbours(r), Parse(r, s)
      PROVE  Routed' /\ Spread'
  <2>1. s \in Servers
    BY Sides
  <2>2. \E L : \E msgs \in Seq(Messages) : HandledAt(s, r, L, msgs)
    BY <1>3, MembersHandled, SilentHandled DEF Parse
  <2>. QED
    BY <1>1, <2>1, <2>2
<1>4. ASSUME NEW r \in Servers, NEW s \in Neighbours(r), LoseLink(r, s)
      PROVE  Routed' /\ Spread'
  <2>1. s \in Servers
    BY Sides
  <2>. QED
    BY <1>1, <1>4, <2>1, LoseHandled
<1>5. CASE UNCHANGED vars
  <2>1. Routed'
    BY <1>5 DEF vars, Routed
  <2>2. Spread'
    BY <1>5 DEF vars, Spread, Reaches, From, Open
  <2>. QED
    BY <2>1, <2>2
<1>. QED
  BY <1>2, <1>3, <1>4, <1>5, LinkSpreads DEF Next

\* In a quiet network nothing is on its way: who is behind a neighbour and on
\* the channel there is on it here.
LEMMA QuietMembers ==
    ASSUME Inv, Spread, Quiet, NEW u \in Users, u \in srv[Home[u]].on,
           NEW s \in Servers
    PROVE  u \in srv[s].on
<1>. DEFINE G == {t \in Servers : u \in srv[t].on}
            h == Home[u]
<1>1. h \in G
  BY ConstantsAssumption
<1>2. /\ \A r, x \in Servers : Route[r][x] \in Servers
      /\ \A r, x \in Servers : Route[r][x] = r <=> x = r
  BY RoutesAreWays DEF TreeWays
<1>3. ASSUME NEW t \in Servers \ {h}, Route[t][h] \in G
      PROVE  t \in G
  <2>. DEFINE r == Route[t][h]
  <2>1. r \in Servers /\ r # t
    BY <1>1, <1>2
  <2>2. r \in Neighbours(t)
    BY <1>1, <2>1 DEF Neighbours
  <2>3. t \in Neighbours(r) /\ <<r, t>> \in Edges /\ <<t, r>> \in Edges
    BY <2>1, <2>2, Sides
  <2>4. t \in up[r] /\ r \in up[t] /\ chan[<<r, t>>] = <<>> /\ chan[<<t, r>>] = <<>>
    BY <2>3 DEF Quiet
  <2>5. Reaches(u, r, t)
    BY <2>1, <2>3, <2>4 DEF Spread, Open, From
  <2>6. ~ Kicked(u, <<>>)
    BY DEF Kicked
  <2>7. Comes(u, <<>>, u \in srv[t].on)
    BY <1>3, <2>4, <2>5, <2>6 DEF Reaches
  <2>8. u \in srv[t].on
    BY <2>7 DEF Comes
  <2>. QED
    BY <2>8
<1>. QED
  <2>. HIDE DEF G, h
  <2>1. Servers \subseteq G
    <3>1. h \in Servers
      BY <1>1 DEF G
    <3>2. \A t \in Servers \ {h} : Route[t][h] \in G => t \in G
      BY <1>3
    <3>. QED
      BY <1>1, <3>1, <3>2, RoutesAreWays, AllAlongTheWay
  <2>. QED
    BY <2>1 DEF G

-----------------------------------------------------------------------------
(* The theorems *)

\* The invariant holds at the start, and every step keeps it.
THEOREM Invariance == Spec => []Inv
<1>1. Init => Inv
  <2>1. SUFFICES ASSUME Init PROVE Inv
    OBVIOUS
  <2>2. NoChannel \in SoundChannels(grants)
    BY NoChannelSound
  <2>3. <<>> \in Seq(SoundLines(grants))
    OBVIOUS
  <2>. QED
    BY <2>1, <2>2, <2>3, ConstantsAssumption DEF Init, Inv, TSs
<1>2. Inv /\ [Next]_vars => Inv'
  <2>. SUFFICES ASSUME Inv, [Next]_vars PROVE Inv'
    OBVIOUS
  <2>1. ASSUME NEW u \in Users, UserCommand(u) PROVE Inv'
    BY <2>1, CreateKeeps, OldChannelKeeps DEF UserCommand
  <2>2. ASSUME NEW r \in Servers, NEW s \in Neighbours(r), Parse(r, s) PROVE Inv'
    BY <2>2, SjoinKeeps, JoinKeeps, RemovesKeeps, OpKeeps, ModeKeeps,
       BmaskKeeps, IgnoredKeeps, SquitKeeps DEF Parse, RemotePart, RemoteKick
  <2>3. ASSUME NEW r \in Servers, NEW s \in Neighbours(r),
               LoseLink(r, s) \/ Link(r, s)
        PROVE  Inv'
    BY <2>3, LoseKeeps, LinkKeeps
  <2>4. CASE UNCHANGED vars
    BY <2>4 DEF vars, Inv
  <2>. QED
    BY <2>1, <2>2, <2>3, <2>4 DEF Next
<1>. QED
  BY <1>1, <1>2, PTL DEF Spec

\* Every variable keeps its type, in a TS6 and in a TS5 network: operators are
\* members, nobody is operator and deopped at once, and a channel with members
\* has a timestamp, whatever lines cross.
THEOREM TypeCorrect == Spec => []TypeOK
<1>1. SoundLines(grants) \subseteq Messages
  BY DEF SoundLines
<1>2. Inv => TypeOK
  BY <1>1, SeqMonotonic DEF Inv, TypeOK, SoundChannels
<1>. QED
  BY <1>2, Invariance, PTL

\* Between TS6 servers nobody is an operator on any server whom nobody made
\* operator of the channel of that timestamp or an older one: whatever SJOINs,
\* JOINs, TMODEs, KICKs, PARTs and SQUITs cross, the side that lost the
\* timestamp gets no operator back.
THEOREM OperatorsGranted == Spec => [](TS6 => OpsGranted)
<1>1. Inv => (TS6 => OpsGranted)
  BY DEF Inv, OpsGranted, SoundChannels, Granted, GrantedBy
<1>. QED
  BY <1>1, Invariance, PTL

\* No server ever makes a channel younger that somebody is on: ms_sjoin and
\* ms_join take a timestamp only when it is older.
THEOREM TimestampsNeverGrow == Spec => TSNeverGrows
<1>1. Inv /\ [Next]_vars
        => [\A s \in Servers : srv[s].on # {} /\ srv'[s].on # {}
              => srv'[s].ts <= srv[s].ts]_vars
  BY StepNotYounger DEF NotYounger
<1>. QED
  BY <1>1, Invariance, PTL DEF Spec, TSNeverGrows

\* Routed and Spread hold at the start, and every step keeps them.
THEOREM OnTheWay == Spec => []OnInv
<1>1. Init => Routed /\ Spread
  <2>1. SUFFICES ASSUME Init PROVE Routed /\ Spread
    OBVIOUS
  <2>2. \A r \in Servers : \A s \in Neighbours(r) :
          chan[<<r, s>>] = <<>> /\ Open(r) = {}
    BY <2>1, Sides DEF Init, Open
  <2>3. 1 .. Len(<<>>) = {}
    OBVIOUS
  <2>4. Routed
    BY <2>2, <2>3 DEF Routed
  <2>5. Spread
    BY <2>2 DEF Spread
  <2>. QED
    BY <2>4, <2>5
<1>2. Inv /\ (Routed /\ Spread) /\ [Next]_vars => (Routed /\ Spread)'
  BY StepSpreads
<1>. QED
  BY <1>1, <1>2, Invariance, PTL DEF Spec, OnInv

\* Once the network is quiet, whoever is on the channel at home is on it on
\* every server.
THEOREM MembersReachEveryone == Spec => []MembersKnownEverywhere
<1>1. OnInv => MembersKnownEverywhere
  BY QuietMembers DEF OnInv, MembersKnownEverywhere
<1>. QED
  BY <1>1, OnTheWay, PTL

=============================================================================
