------------------------------ MODULE MCRehash ------------------------------
(***************************************************************************)
(* What REHASH changes in one server: the classes and blocks               *)
(* (ConfBlocks), the bans and reservations (TempLines), the listeners with *)
(* the table of descriptors (Descriptors) and the modules (Modules).  The  *)
(* four share no state; part says which of them a behaviour is about, and  *)
(* the others stay at their initial states.                                *)
(***************************************************************************)
EXTENDS MCConfBlocks

CONSTANTS
    Masks, LineTypes, MaxLines,             \* of TempLines
    Slots, Conns, Ports, ClearsFde,         \* of Descriptors
    who, whois, message, spy, spy2, doing_whois, client_message, NULL

VARIABLES
    part,
    made, lines, freed, placed, temporary, saved, badline,
    table, open, walk, due, listeners, through, ports, failed,
    modlist, confmods, known, chain, pointer, tree, modfault

\* NULL is no listener, no place of the walk and no descriptor; the memory for
\* listeners does not run out.
ASSUME FdsAssumption ==
    /\ None \notin Slots \cup Conns
    /\ None \notin [F : Slots \cup Conns, next : Slots \cup Conns \cup {None}]
    /\ None \notin [port : Ports, ref_count : Nat, active : BOOLEAN]
    /\ Slots \cap Conns = {}
    /\ IsFiniteSet(Slots) /\ IsFiniteSet(Conns) /\ IsFiniteSet(Ports)
    /\ Cardinality(Ports) <= Cardinality(Slots)

L == INSTANCE TempLines WITH Types <- LineTypes, table <- placed, fault <- badline
D == INSTANCE Descriptors

\* Two modules of one command each, WHO and WHOIS, the second with a callback
\* that two others watch; and one of the core, with an empty callback.
M == INSTANCE Modules WITH
         Mods <- {who, whois, message, spy, spy2}, Core <- {message},
         Autoload <- {who, whois}, Configured <- {<<>>, <<spy>>},
         Word <- who :> <<"who">> @@ whois :> <<"who", "is">>
                 @@ message :> <<"privmsg">> @@ spy :> <<>> @@ spy2 :> <<>>,
         Registers <- who :> None @@ whois :> doing_whois
                      @@ message :> client_message @@ spy :> None @@ spy2 :> None,
         Handles <- {whois},
         Watches <- who :> None @@ whois :> None @@ message :> None
                    @@ spy :> doing_whois @@ spy2 :> doing_whois,
         conf <- confmods, fault <- modfault

Parts == {"blocks", "lines", "descriptors", "modules"}
linevars == <<made, lines, freed, placed, temporary, saved, badline>>
fdvars == <<table, open, walk, due, listeners, through, ports, failed>>
modvars == <<modlist, confmods, known, chain, pointer, tree, modfault>>
partvars == <<part, vars, linevars, fdvars, modvars>>

\* One of the files is enough where the blocks are not looked at.
PartInit ==
    /\ part \in Parts
    /\ Init /\ L!Init /\ D!Init /\ M!Init
    /\ part = "blocks" \/ file = File(None, users, None)
    /\ part = "modules" \/ modlist = <<message, whois, who>>

PartNext ==
    \/ part = "blocks" /\ Next /\ UNCHANGED <<part, linevars, fdvars, modvars>>
    \/ part = "lines" /\ L!Next /\ UNCHANGED <<part, vars, fdvars, modvars>>
    \/ part = "descriptors" /\ D!Next /\ UNCHANGED <<part, vars, linevars, modvars>>
    \/ part = "modules" /\ M!Next /\ UNCHANGED <<part, vars, linevars, fdvars>>

PartSpec == PartInit /\ [][PartNext]_partvars

\* Every part of what REHASH changes keeps its type.
PartTypeOK ==
    CASE part = "blocks" -> TypeOK
      [] part = "lines" -> L!TypeOK
      [] part = "descriptors" -> D!TypeOK
      [] part = "modules" -> M!TypeOK

\* A block of an earlier configuration stays as long as somebody is attached
\* to it, and no longer (attach_conf, detach_conf, clear_out_old_conf).
BlocksKeptThere == part = "blocks" => BlocksKept

\* No place of a class, an address block or an address is lost for good
\* (attach_iline, detach_conf, rebuild_cidr_class).
NoPlaceLostThere == part = "blocks" => NoPlaceLost

\* The bans and reservations in force are what the commands, the files and
\* the clock say (add_temp_line, cleanup_tklines, rehash).
LinesInForce == part = "lines" => L!LinesInForce

\* comm_checktimeouts sees every descriptor once while its handlers close and
\* open others (fd_close, fd_next_in_loop).
WalkSeesAll == part = "descriptors" => D!WalkSeesAll

\* Listeners go with their last client, and REHASH takes closed ones up again
\* (close_listener, add_listener, free_client).
ListenersKept == part = "descriptors" => D!ListenersKept

\* The command tree and the chains of callbacks hold what the loaded modules
\* have put there (mod_add_cmd, mod_del_cmd, install_hook, uninstall_hook).
ModulesRight == part = "modules" => M!ModulesRight

\* A callback registered with NULL has an empty chain (register_callback).
EmptyChainsAreEmpty == M!EmptyChainsAreEmpty

=============================================================================
