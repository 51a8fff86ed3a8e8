------------------------------- MODULE Modules -------------------------------
(***************************************************************************)
(* Loadable modules (modules.c, dynlink.c), the callbacks they register    *)
(* and hook (hook.c), and the tree of commands they add to (parse.c).      *)
(*                                                                         *)
(* A module adds a command to the tree, and may register a callback: with  *)
(* a handler of its own (m_whois.c, m_links.c, ...) or with an empty chain *)
(* (m_message.c).  A spy_* module of contrib/ adds no command: it looks    *)
(* for somebody else's callback and hooks it if it is there.  The struct   *)
(* Callback is never freed; the module's pointer to it goes with the       *)
(* module.  A word of the tree is a sequence of runs of letters, so that   *)
(* WHO is above WHOIS.                                                     *)
(***************************************************************************)
EXTENDS Naturals, FiniteSets, Sequences, SequencesExt, TLC

CONSTANTS
    Mods,       \* the modules there are files of
    Core,       \* the ones in core_module_table
    Autoload,   \* the ones in the autoload directory
    Configured, \* the lists of module = "..."; that REHASH may read
    Word,       \* module -> its command, <<>> for none
    Registers,  \* module -> the callback it registers, None for none
    Handles,    \* the modules that register it with a handler
    Watches,    \* module -> the callback it hooks, None for none
    NULL, None

Spies == {m \in Mods : Watches[m] # None}
Callbacks == {Registers[m] : m \in Mods} \ {None}

VARIABLES
    modlist,    \* mod_list, the module loaded last first
    conf,       \* conf_modules, as the last REHASH read it
    known,      \* callback_list
    chain,      \* callback -> functions hooked, the first called first
    pointer,    \* module -> what its struct Callback * is, NULL or a callback
    tree,       \* word -> [links, msg], the nodes of msg_tree that are there
    fault       \* a NULL pointer has been called or followed

vars == <<modlist, conf, known, chain, pointer, tree, fault>>

Loaded == ToSet(modlist)
Words == {w \in {Word[m] : m \in Mods} : w # <<>>}
Above(w) == {SubSeq(w, 1, n) : n \in 0..Len(w)}

----------------------------------------------------------------------------
(* msg_tree: every node counts its children and its own message. *)

Root == [links |-> 0, msg |-> NULL]

\* msg_tree_parse
Found(t, w) == IF w \in DOMAIN t THEN t[w].msg ELSE NULL

\* mod_add_cmd and add_msg_element: a node for every prefix not there yet.
Added(t, m) ==
    LET w == Word[m]
        new == Above(w) \ DOMAIN t
        Node(v) == IF v \in new THEN Root ELSE t[v]
        NewBelow(v) == \E u \in new : Len(u) = Len(v) + 1 /\ u \in Above(w)
    IN  IF w = <<>> \/ Found(t, w) # NULL THEN t
        ELSE [v \in DOMAIN t \union new |->
                 IF v = w THEN [links |-> Node(v).links + 1, msg |-> m]
                 ELSE IF v \in Above(w) /\ NewBelow(v)
                      THEN [Node(v) EXCEPT !.links = @ + 1]
                 ELSE Node(v)]

\* mod_del_cmd and del_msg_element: the message goes, whoever's it is, and
\* on the way up every node whose count has come to 0.
Removed(t, w) ==
    LET left[n \in 0..Len(w)] ==
            LET v == SubSeq(w, 1, n) IN
            IF n = Len(w) THEN t[v].links - 1
            ELSE IF left[n + 1] = 0 THEN t[v].links - 1 ELSE t[v].links
        gone == {SubSeq(w, 1, n) : n \in {k \in 1..Len(w) : left[k] = 0}}
    IN  IF w = <<>> \/ Found(t, w) = NULL THEN t
        ELSE [v \in DOMAIN t \ gone |->
                 IF v \notin Above(w) THEN t[v]
                 ELSE [links |-> left[Len(v)],
                       msg |-> IF v = w THEN NULL ELSE t[v].msg]]

----------------------------------------------------------------------------
(* A server's modules as one record, since MODRESTART takes all of them    *)
(* out and in again in one command.                                        *)

Server == [modlist |-> modlist, known |-> known, chain |-> chain,
           pointer |-> pointer, tree |-> tree, fault |-> fault]

\* register_callback: a callback that exists is taken up again only if its
\* chain is empty, and the function is then put in it even if it is NULL.
Registered(s, m) ==
    LET cb == Registers[m]
        func == IF m \in Handles THEN m ELSE NULL
    IN  IF cb = None THEN s
        ELSE IF cb \notin s.known
        THEN [s EXCEPT !.known = @ \union {cb},
                       !.chain[cb] = IF m \in Handles THEN <<m>> ELSE <<>>,
                       !.pointer[m] = cb]
        ELSE IF s.chain[cb] = <<>>
        THEN [s EXCEPT !.chain[cb] = <<func>>, !.pointer[m] = cb]
        ELSE [s EXCEPT !.pointer[m] = NULL]

\* find_callback and install_hook in the _modinit of a spy.
Hooked(s, m) ==
    LET cb == Watches[m] IN
    IF cb = None THEN s
    ELSE IF cb \in s.known
    THEN [s EXCEPT !.chain[cb] = <<m>> \o @, !.pointer[m] = cb]
    ELSE [s EXCEPT !.pointer[m] = NULL]

\* load_a_module
Load(s, m) ==
    IF m \in ToSet(s.modlist) \/ s.fault THEN s
    ELSE LET in == [s EXCEPT !.modlist = <<m>> \o @, !.tree = Added(@, m)]
         IN  Hooked(Registered(in, m), m)

\* Mutant: _moddeinit leaves the hook in the chain.
UnhookedNot(s, m) == s

\* uninstall_hook: with the NULL pointer, or a function that is not there,
\* it follows a NULL.
Unhooked(s, m) ==
    LET cb == s.pointer[m] IN
    IF m \in Spies /\ cb = NULL THEN s
    ELSE IF m \notin Spies \union Handles THEN s
    ELSE IF cb = NULL THEN [s EXCEPT !.fault = TRUE]
    ELSE IF m \notin ToSet(s.chain[cb]) THEN [s EXCEPT !.fault = TRUE]
    ELSE [s EXCEPT !.chain[cb] = RemoveFirst(@, m)]

\* unload_one_module: _moddeinit, then dlclose with everything of the module.
Unload(s, m) ==
    IF m \notin ToSet(s.modlist) \/ s.fault THEN s
    ELSE [Unhooked(s, m) EXCEPT
              !.modlist = RemoveFirst(@, m),
              !.tree = Removed(@, Word[m]),
              !.pointer[m] = NULL]

Become(s) ==
    /\ modlist' = s.modlist
    /\ known' = s.known
    /\ chain' = s.chain
    /\ pointer' = s.pointer
    /\ tree' = s.tree
    /\ fault' = s.fault

----------------------------------------------------------------------------
LoadAll(s, order) == FoldLeft(Load, s, order)

Init ==
    \E auto \in SetToAllKPermutations(Autoload) :
        /\ Len(auto) = Cardinality(Autoload)
        /\ conf \in Configured
        /\ LET empty == [modlist |-> <<>>, known |-> {},
                         chain |-> [cb \in Callbacks |-> <<>>],
                         pointer |-> [m \in Mods |-> NULL],
                         tree |-> (<<>> :> Root), fault |-> FALSE]
               up == LoadAll(empty, auto \o conf \o SetToSeq(Core))
           IN  /\ modlist = up.modlist /\ known = up.known
               /\ chain = up.chain /\ pointer = up.pointer
               /\ tree = up.tree /\ fault = up.fault

\* mo_modload.  A file may be missing or not load: then nothing changes.
ModLoad(m) ==
    /\ ~fault
    /\ m \notin Loaded
    /\ Become(Load(Server, m))
    /\ UNCHANGED conf

\* mo_modunload
ModUnload(m) ==
    /\ ~fault
    /\ m \in Loaded \ Core
    /\ Become(Unload(Server, m))
    /\ UNCHANGED conf

\* mo_modreload: unload_one_module and load_one_module of the same name.  A
\* core module whose file is gone ends the server, another stays out.
ModReload(m) ==
    /\ ~fault
    /\ m \in Loaded
    /\ Become(Load(Unload(Server, m), m))
    /\ UNCHANGED conf

ModReloadFails(m) ==
    /\ ~fault
    /\ m \in Loaded \ Core
    /\ Become(Unload(Server, m))
    /\ UNCHANGED conf

\* mo_modrestart: everything out, the last loaded first, and then the
\* autoload directory in the order readdir gives, the configured modules and
\* the core.
ModRestart ==
    /\ ~fault
    /\ \E auto \in SetToAllKPermutations(Autoload) :
           /\ Len(auto) = Cardinality(Autoload)
           /\ Become(LoadAll(FoldLeft(Unload, Server, modlist),
                             auto \o conf \o SetToSeq(Core)))
    /\ UNCHANGED conf

\* rehash: the list of modules is read again and what is missing loaded;
\* nothing is unloaded.
Rehash ==
    /\ ~fault
    /\ conf' \in Configured
    /\ Become(LoadAll(Server, conf'))

\* execute_callback, by the command of the module that registered it: the
\* functions of the chain in turn, down to a NULL if there is one.
Use(m) ==
    /\ ~fault
    /\ m \in Loaded
    /\ Registers[m] # None
    /\ Found(tree, Word[m]) = m
    /\ fault' = \/ pointer[m] = NULL
                \/ NULL \in ToSet(chain[pointer[m]])
    /\ UNCHANGED <<modlist, conf, known, chain, pointer, tree>>

Next ==
    \/ \E m \in Mods : ModLoad(m) \/ ModUnload(m)
    \/ \E m \in Mods : ModReload(m) \/ ModReloadFails(m) \/ Use(m)
    \/ ModRestart
    \/ Rehash

Spec == Init /\ [][Next]_vars

----------------------------------------------------------------------------
TypeOK ==
    /\ modlist \in SetToAllKPermutations(Mods)
    /\ conf \in Configured
    /\ known \subseteq Callbacks
    /\ \A cb \in Callbacks : ToSet(chain[cb]) \subseteq Mods \union {NULL}
    /\ pointer \in [Mods -> Callbacks \union {NULL}]
    /\ \A w \in DOMAIN tree : tree[w].links \in Nat /\ tree[w].msg \in Mods \union {NULL}
    /\ fault \in BOOLEAN

Children(w) == {v \in DOMAIN tree : Len(v) = Len(w) + 1 /\ w \in Above(v)}

\* The tree holds the commands of the loaded modules and no node more: what
\* is found is the handler of a loaded module, a node is there as long as a
\* command goes through it, and its count says how many ways go on
\* (add_msg_element, del_msg_element).
TreeHoldsLoaded ==
    ~fault =>
      /\ \A m \in Mods : Word[m] # <<>> =>
            (Found(tree, Word[m]) = m) = (m \in Loaded)
      /\ \A w \in DOMAIN tree :
            /\ tree[w].links = Cardinality(Children(w))
                                  + (IF tree[w].msg = NULL THEN 0 ELSE 1)
            /\ w = <<>> \/ tree[w].links > 0

\* No chain calls into a module that is not there: its functions are those
\* of loaded modules, each once (install_hook, uninstall_hook).
ChainsHoldLoaded ==
    ~fault => \A cb \in Callbacks :
        LET real == SelectSeq(chain[cb], LAMBDA f : f # NULL) IN
        /\ IsInjective(real)
        /\ ToSet(real) = {m \in Loaded \intersect (Spies \union Handles) :
                             pointer[m] = cb}

ModulesRight == TreeHoldsLoaded /\ ChainsHoldLoaded

\* hook.c says of the function a callback is registered with that it "can be
\* NULL to create an empty chain", and execute_callback tells an empty chain
\* from one it may call.
EmptyChainsAreEmpty == \A cb \in Callbacks : NULL \notin ToSet(chain[cb])

=============================================================================
