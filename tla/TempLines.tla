------------------------------ MODULE TempLines ------------------------------
(***************************************************************************)
(* Temporary and permanent bans and reservations of one server: KLINE,     *)
(* XLINE and RESV, with and without a time, their removal, their expiry,   *)
(* and REHASH.                                                             *)
(*                                                                         *)
(* A line is in a table the bans are looked up in (the address table,      *)
(* xconf_items, nresv_items, resv_channel_list), a temporary one in a list *)
(* of temporary lines as well, a permanent one in a file that is read      *)
(* again at each REHASH and after each removal from it.  A freed line is   *)
(* kept apart from one that was never made; following a pointer to one is  *)
(* a fault, at which the model stops (src/s_conf.c, src/resv.c,            *)
(* src/hostmask.c, src/csvlib.c, modules/m_kline.c, m_xline.c, m_resv.c).  *)
(***************************************************************************)
EXTENDS Naturals, FiniteSets, Lists

CONSTANTS
    Masks,          \* what is banned or reserved
    Types,          \* of "kline", "xline", "nresv" and "cresv": D-lines are
                    \* kept like K-lines, RX-lines and RK-lines like X-lines
    MaxLines        \* bound on the lines made

VARIABLES
    made,           \* the lines made so far
    lines,          \* lines[i]: type, mask and CONF_FLAGS_TEMPORARY
    freed,          \* those that have been freed
    table,          \* the lines in the table of their type
    temporary,      \* the lines in the list of temporary ones of their type
    saved,          \* the files: <<type, mask>>
    fault           \* a freed line has been used

vars == <<made, lines, freed, table, temporary, saved, fault>>

TypeOK ==
    /\ made \in 0 .. MaxLines
    /\ lines \in [1 .. made -> [type : Types, mask : Masks, temp : BOOLEAN]]
    /\ freed \subseteq 1 .. made
    /\ table \subseteq 1 .. made
    /\ temporary \subseteq 1 .. made
    /\ saved \subseteq Types \X Masks
    /\ fault \in BOOLEAN

State == [made |-> made, lines |-> lines, freed |-> freed, table |-> table,
          temporary |-> temporary, saved |-> saved]

Become(S) ==
    /\ made' = S.made
    /\ lines' = S.lines
    /\ freed' = S.freed
    /\ table' = S.table
    /\ temporary' = S.temporary
    /\ saved' = S.saved

OfType(S, ids, type) == {i \in ids : S.lines[i].type = type}

\* Walking the table, or the temporary list, of a type meets freed memory.
TableBad(type) == OfType(State, table, type) \cap freed # {}
ListBad(type) == OfType(State, temporary, type) \cap freed # {}
AnyTableBad == \E type \in Types : TableBad(type)

Fails == fault' = TRUE /\ UNCHANGED <<made, lines, freed, table, temporary, saved>>

-----------------------------------------------------------------------------

\* make_conf_item, or create_channel_resv, and the table.
Made(S, type, mask, temp) ==
    LET i == S.made + 1 IN
    [S EXCEPT !.made = i,
              !.lines = [k \in 1 .. i |-> IF k = i
                            THEN [type |-> type, mask |-> mask, temp |-> temp]
                            ELSE @[k]],
              !.table = @ \cup {i}]

\* already_placed_kline, find_matching_name_conf and hash_find_resv.
Placed(S, type, mask) ==
    \E i \in S.table : S.lines[i].type = type /\ S.lines[i].mask = mask

\* delete_one_address_conf and delete_conf_item of the lines out: taken out of
\* the table and freed.  A channel's reservation is only taken out by
\* delete_channel_resv.
Deleted(S, out) ==
    [S EXCEPT !.freed = @ \cup out,
              !.table = @ \ {i \in out : S.lines[i].type # "cresv"}]
ChannelResvDeleted(S, out) ==
    [S EXCEPT !.freed = @ \cup out, !.table = @ \ out]

\* parse_conf_file and parse_csv_file: one line of a file.
Read(S, type, mask) ==
    IF type \in {"nresv", "cresv"} /\ Placed(S, type, mask) THEN S
    ELSE Made(S, type, mask, FALSE)

\* (mutant of Cleared: temporary K-lines go as well)
ClearedAll(S) == ChannelResvDeleted(S, S.table)

\* clear_out_old_conf, clear_out_address_conf and clear_conf_resv: temporary
\* K-lines and X-lines stay, all reservations go.
Cleared(S) ==
    ChannelResvDeleted(S, {i \in S.table : S.lines[i].type \in {"nresv", "cresv"}
                                           \/ ~S.lines[i].temp})

\* read_conf_files: the files from their first line to their last.
Rehashed(S) ==
    LET file == InOrder(S.saved)
        read[n \in 0 .. Cardinality(S.saved)] ==
            IF n = 0 THEN Cleared(S)
            ELSE Read(read[n - 1], file[n][1], file[n][2])
    IN read[Cardinality(S.saved)]

\* (MaxLines)
Room(n) == made + n <= MaxLines

-----------------------------------------------------------------------------

\* KLINE, XLINE and RESV (mo_kline, mo_xline, parse_resv): refused when there
\* is one already; with a time it is temporary (add_temp_line), without it is
\* written to the file (write_conf_line).
Add(type, mask, temp) ==
    /\ Room(1)
    /\ \/ TableBad(type) /\ Fails
       \/ /\ ~TableBad(type) /\ ~Placed(State, type, mask)
          /\ LET S == Made(State, type, mask, temp) IN
             Become([S EXCEPT
                        !.temporary = IF temp THEN @ \cup {S.made} ELSE @,
                        !.saved = IF temp THEN @ ELSE @ \cup {<<type, mask>>}])
          /\ UNCHANGED fault

\* remove_conf_line: the line goes from the file and everything is read again.
FileRemoved(S, type, mask) ==
    IF <<type, mask>> \in S.saved
    THEN Rehashed([S EXCEPT !.saved = @ \ {<<type, mask>>}])
    ELSE S

\* UNKLINE and UNXLINE: the first temporary line found (remove_tkline_match,
\* remove_txline_match), and when there is none a line of the file.
Unline(type, mask) ==
    LET found == {i \in temporary : lines[i].type = type /\ lines[i].mask = mask} IN
    /\ type \in {"kline", "xline"} /\ Room(Cardinality(saved))
    /\ IF ListBad(type) \/ (found = {} /\ <<type, mask>> \in saved /\ AnyTableBad)
       THEN Fails
       ELSE /\ IF found # {}
               THEN \E i \in found : Become(Deleted([State EXCEPT !.temporary = @ \ {i}], {i}))
               ELSE Become(FileRemoved(State, type, mask))
            /\ UNCHANGED fault

\* UNRESV (remove_resv): the reservation is deleted, whatever it is, and the
\* file changed.  temporary_resv is not looked at.
Unresv(type, mask) ==
    LET found == {i \in table : lines[i].type = type /\ lines[i].mask = mask} IN
    /\ type \in {"nresv", "cresv"} /\ Room(Cardinality(saved))
    /\ IF TableBad(type) \/ (found # {} /\ <<type, mask>> \in saved /\ AnyTableBad)
       THEN Fails
       ELSE \E i \in found :
              /\ Become(FileRemoved(ChannelResvDeleted(State, {i}), type, mask))
              /\ UNCHANGED fault

\* cleanup_tklines: the temporary lines whose time has come.  (A K-line is
\* freed before it is unlinked; what free() leaves of it still links.)
Expire(due) ==
    /\ due # {} /\ due \subseteq temporary
    /\ IF temporary \cap freed # {} THEN Fails
       ELSE /\ Become(Deleted([State EXCEPT !.temporary = @ \ due], due))
            /\ UNCHANGED fault

\* REHASH, or SIGHUP.
Rehash ==
    /\ Room(Cardinality(saved))
    /\ IF AnyTableBad THEN Fails
       ELSE Become(Rehashed(State)) /\ UNCHANGED fault

Init ==
    /\ made = 0
    /\ lines = [i \in {} |-> 0]
    /\ freed = {} /\ table = {} /\ temporary = {} /\ saved = {}
    /\ fault = FALSE

Next ==
    /\ ~fault
    /\ \/ \E type \in Types, mask \in Masks, temp \in BOOLEAN : Add(type, mask, temp)
       \/ \E type \in Types, mask \in Masks : Unline(type, mask)
       \/ \E type \in Types, mask \in Masks : Unresv(type, mask)
       \/ \E due \in SUBSET temporary : Expire(due)
       \/ Rehash

Spec == Init /\ [][Next]_vars

-----------------------------------------------------------------------------
(* Properties *)

Ban == {"kline", "xline"}

\* A temporary ban that has neither expired nor been removed is in force,
\* whatever has been added, removed from the files or read again since.
TempInForce ==
    \A i \in temporary : lines[i].type \in Ban => i \in table /\ i \notin freed

\* A line in a table that is marked temporary is in the list it expires from:
\* none stays for ever.
TempExpires ==
    \A i \in table \ freed : lines[i].temp => i \in temporary

\* What the files hold is in force, and what is in force for good is in the
\* files: a removal from a file takes effect, and no REHASH changes anything.
FilesInForce ==
    \A type \in Types, mask \in Masks :
        <<type, mask>> \in saved <=>
        \E i \in table \ freed : lines[i].type = type /\ lines[i].mask = mask
                                 /\ ~lines[i].temp

\* No ban is there twice, a temporary one behind a permanent one, which
\* a removal would uncover.
PlacedOnce ==
    \A i, k \in table \ freed :
        lines[i].type = lines[k].type /\ lines[i].mask = lines[k].mask => i = k

\* What is in force is what the commands, the files and the clock say, however
\* they are mixed.
LinesInForce == TempInForce /\ TempExpires /\ FilesInForce /\ PlacedOnce

=============================================================================
