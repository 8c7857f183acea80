-------------------------------- MODULE Mbusd -------------------------------
(***************************************************************************)
(* The bus daemon: mbusd.c with user_manager.c and group_manager.c.  It is *)
(* one thread; a step of this module is one handler that the event loop    *)
(* calls, run to its end.                                                  *)
(*                                                                         *)
(* A connection is the io slot of its descriptor.  Logging in allocates a  *)
(* client_t, puts it at the tail of g_clients and ties the two together:   *)
(* io->arg points to the client and client->io to the slot.  Groups hold   *)
(* copies of user names, and everything else is looked up by name, first   *)
(* match first.  Slots and allocated cells are reused.                     *)
(*                                                                         *)
(* Sending is the calls of io_write a handler makes; what becomes of the   *)
(* bytes is modelled by IoStream.                                          *)
(***************************************************************************)
EXTENDS Naturals, SequencesExt

CONSTANTS
    Slot,       \* descriptors that accept can return
    Cell,       \* heap cells malloc can return for a client_t
    UserName,
    GroupName,
    EmptyName,  \* the empty string
    Stored,     \* what snprintf leaves of a name in a char[128]
    NULL,
    Relogin,    \* may a program log in again on the same connection?
    Oversize    \* may a program send a packet larger than IO_BUF_SIZE?

Names == UserName \cup GroupName

ASSUME StoredAssumption ==
    /\ Stored \in [Names -> Names]
    /\ \A n \in UserName : Stored[n] \in UserName
    /\ \A g \in GroupName : Stored[g] \in GroupName
    /\ \A n \in Names : Stored[Stored[n]] = Stored[n]

ASSUME NullAssumption == NULL \notin Slot \cup Cell \cup UserName

(* There is memory for a client on every connection. *)
ASSUME HeapAssumption ==
    IsFiniteSet(Slot) /\ IsFiniteSet(Cell) /\ Cardinality(Cell) >= Cardinality(Slot)

ASSUME RegimeAssumption == Relogin \in BOOLEAN /\ Oversize \in BOOLEAN

(* Names that fit the fields they are copied to. *)
NamesFit == \A n \in Names : Stored[n] = n

VARIABLES
    open,       \* slots whose connection is open
    arg,        \* io->arg of each slot
    clients,    \* g_clients: the cells in list order
    client,     \* the contents of each cell
    groups,     \* g_groups: records in list order, each with its list of users
    sent        \* the io_write calls of the last handler

vars == <<open, arg, clients, client, groups, sent>>

Client == [name : UserName \cup {NULL}, io : Slot \cup {NULL}]

GroupRec == [name : GroupName, users : Seq(UserName \cup {NULL})]

(* An io_write call: its place in the order of calls, and its slot. *)
Write == [at : Nat, io : Slot]

(* A cell that is not in use.  The name of a freed client is the           *)
(* allocator's bytes, which are no user's name.                            *)
Freed == [name |-> NULL, io |-> NULL]

FreeCells == Cell \ ToSet(clients)

TypeOK ==
    /\ open \subseteq Slot
    /\ arg \in [Slot -> Cell \cup {NULL}]
    /\ clients \in Seq(Cell) /\ IsInjective(clients)
    /\ client \in [Cell -> Client]
    /\ \A c \in ToSet(clients) : client[c] \in [name : UserName, io : Slot]
    /\ groups \in Seq(GroupRec)
    /\ sent \subseteq Write

-----------------------------------------------------------------------------
(* user_manager.c and group_manager.c.  A definition with a suffix, here   *)
(* and below, is a form a bug would give the definition that follows it:   *)
(* nothing uses it but the runs that show a property notices the bug.      *)

(* A walk of the list that stops before its tail. *)
user_get_by_name_MissesTail(n) ==
    LET i == SelectInSeq(clients, LAMBDA c : client[c].name = n)
    IN  IF i \in {0, Len(clients)} THEN NULL ELSE clients[i]

(* The cell of the first client in the list with the name, or NULL. *)
user_get_by_name(n) ==
    LET i == SelectInSeq(clients, LAMBDA c : client[c].name = n)
    IN  IF i = 0 THEN NULL ELSE clients[i]

search_group_MissesTail(g) ==
    SelectInSeq(Front(groups), LAMBDA r : r.name = g)

(* The position of the first group in the list with the name; 0 if none. *)
search_group(g) == SelectInSeq(groups, LAMBDA r : r.name = g)

group_create(g) == Append(groups, [name |-> Stored[g], users |-> <<>>])

join_group_Unsearched(n, g) ==
    LET i == search_group(g)
    IN  IF i = 0 THEN groups ELSE [groups EXCEPT ![i].users = Append(@, n)]

join_group(n, g) ==
    LET i == search_group(g)
    IN  IF i = 0 \/ n \in ToSet(groups[i].users)
        THEN groups
        ELSE [groups EXCEPT ![i].users = Append(@, n)]

leave_group_by_name(n, g) ==
    LET i == search_group(g)
    IN  IF i = 0 THEN groups ELSE [groups EXCEPT ![i].users = RemoveFirst(@, n)]

leave_all_group_FirstOnly(n) ==
    [i \in DOMAIN groups |->
        IF i = 1 THEN [groups[i] EXCEPT !.users = RemoveFirst(@, n)] ELSE groups[i]]

leave_all_group(n) ==
    [i \in DOMAIN groups |-> [groups[i] EXCEPT !.users = RemoveFirst(@, n)]]

(* The name in the client a slot's io->arg points to. *)
NameOf(s) == client[arg[s]].name

user_delete_StaysListed(n) == UNCHANGED <<clients, client>>

user_delete(n) ==
    LET c == user_get_by_name(n)
    IN  IF c = NULL
        THEN UNCHANGED <<clients, client>>
        ELSE /\ clients' = RemoveFirst(clients, c)
             /\ client' = [client EXCEPT ![c] = Freed]

eloop_reset_io_KeepsArg(s) ==
    /\ open' = open \ {s}
    /\ UNCHANGED arg

(* The reactor closes the descriptor and clears the slot. *)
eloop_reset_io(s) ==
    /\ open' = open \ {s}
    /\ arg' = [arg EXCEPT ![s] = NULL]

-----------------------------------------------------------------------------

Init ==
    /\ open = {}
    /\ arg = [s \in Slot |-> NULL]
    /\ clients = <<>>
    /\ client = [c \in Cell |-> Freed]
    /\ groups = <<>>
    /\ sent = {}

(* handle_accept.  Its search for a free slot never ends in "conn limit",  *)
(* the counter it tests is another variable than the one it advances.      *)
Accept(s) ==
    /\ s \notin open
    /\ open' = open \cup {s}
    /\ arg' = [arg EXCEPT ![s] = NULL]
    /\ sent' = {}
    /\ UNCHANGED <<clients, client, groups>>

Login_UncheckedMalloc(s, n) ==
    /\ s \in open
    /\ user_get_by_name(n) = NULL
    /\ \E c \in IF FreeCells = {} THEN {NULL} ELSE FreeCells :
          /\ clients' = Append(clients, c)
          /\ client' = (c :> [name |-> Stored[n], io |-> s]) @@ client
          /\ arg' = [arg EXCEPT ![s] = c]
    /\ sent' = {}
    /\ UNCHANGED <<open, groups>>

(* _handle_login_request.  The name asked for is compared with the names   *)
(* as they were stored.  Nothing is sent back in any case.                 *)
Login(s, n) ==
    /\ s \in open
    /\ Relogin \/ arg[s] = NULL
    /\ IF user_get_by_name(n) # NULL \/ FreeCells = {}
       THEN UNCHANGED <<arg, clients, client>>
       ELSE \E c \in FreeCells :
               /\ clients' = Append(clients, c)
               /\ client' = [client EXCEPT ![c] = [name |-> Stored[n], io |-> s]]
               /\ arg' = [arg EXCEPT ![s] = c]
    /\ sent' = {}
    /\ UNCHANGED <<open, groups>>

(* _handle_create_group does not ask who creates the group. *)
CreateGroup(s, g) ==
    /\ s \in open
    /\ groups' = IF search_group(g) = 0 THEN group_create(g) ELSE groups
    /\ sent' = {}
    /\ UNCHANGED <<open, arg, clients, client>>

JoinGroup(s, g) ==
    /\ s \in open
    /\ groups' = IF arg[s] = NULL THEN groups ELSE join_group(NameOf(s), g)
    /\ sent' = {}
    /\ UNCHANGED <<open, arg, clients, client>>

LeaveGroup(s, g) ==
    /\ s \in open
    /\ groups' = IF arg[s] = NULL THEN groups ELSE leave_group_by_name(NameOf(s), g)
    /\ sent' = {}
    /\ UNCHANGED <<open, arg, clients, client>>

forward_msg_in_group_Echoes(i, from) ==
    {[at |-> k, io |-> client[user_get_by_name(groups[i].users[k])].io] :
        k \in {k \in DOMAIN groups[i].users : user_get_by_name(groups[i].users[k]) # NULL}}

(* group_cb over the members of a group: the sender is skipped by name,    *)
(* the others are looked up by name.                                       *)
forward_msg_in_group(i, from) ==
    LET users == groups[i].users
        Gets(k) == users[k] # from /\ user_get_by_name(users[k]) # NULL
    IN  {[at |-> k, io |-> client[user_get_by_name(users[k])].io] :
            k \in {k \in DOMAIN users : Gets(k)}}

GroupMsg(s, g) ==
    LET i == search_group(g)
    IN  /\ s \in open
        /\ sent' = IF arg[s] = NULL \/ g = EmptyName \/ i = 0
                   THEN {}
                   ELSE forward_msg_in_group(i, NameOf(s))
        /\ UNCHANGED <<open, arg, clients, client, groups>>

PrivateMsg(s, n) ==
    LET peer == user_get_by_name(n)
    IN  /\ s \in open
        /\ sent' = IF arg[s] = NULL \/ peer = NULL
                   THEN {}
                   ELSE {[at |-> 1, io |-> client[peer].io]}
        /\ UNCHANGED <<open, arg, clients, client, groups>>

(* _handle_heartbeat sends the packet back.  It then sleeps ten seconds    *)
(* with the whole loop, which is time and no state.                        *)
Heartbeat(s) ==
    /\ s \in open
    /\ sent' = {[at |-> 1, io |-> s]}
    /\ UNCHANGED <<open, arg, clients, client, groups>>

(* The peer closed or died: recv returns 0, handle_close runs, and the     *)
(* slot is reset.  The client and its memberships are found by the name in *)
(* the client io->arg points to.                                           *)
PeerClose(s) ==
    /\ s \in open
    /\ IF arg[s] = NULL
       THEN UNCHANGED <<clients, client, groups>>
       ELSE /\ groups' = leave_all_group(NameOf(s))
            /\ user_delete(NameOf(s))
    /\ eloop_reset_io(s)
    /\ sent' = {}

(* A packet that fills the receive buffer without being complete: the loop *)
(* resets the slot on its own and does not call on_close.                  *)
Overflow(s) ==
    /\ Oversize
    /\ s \in open
    /\ eloop_reset_io(s)
    /\ sent' = {}
    /\ UNCHANGED <<clients, client, groups>>

Next ==
    \E s \in Slot :
        \/ Accept(s)
        \/ \E n \in UserName : Login(s, n) \/ PrivateMsg(s, n)
        \/ \E g \in GroupName :
              CreateGroup(s, g) \/ JoinGroup(s, g) \/ LeaveGroup(s, g) \/ GroupMsg(s, g)
        \/ Heartbeat(s)
        \/ PeerClose(s)
        \/ Overflow(s)

Spec == Init /\ [][Next]_vars

-----------------------------------------------------------------------------
(* What holds of the lists whatever the programs on the bus do *)

(* No slot's io->arg points to a client that has been freed or is not the  *)
(* slot's own: handle_close frees the client it finds by name, and every   *)
(* other handler reads the name through the pointer.                       *)
ArgLive ==
    \A s \in Slot : arg[s] # NULL =>
        /\ s \in open
        /\ arg[s] \in ToSet(clients)
        /\ client[arg[s]].io = s

(* Two clients never hold the same name, or the second is out of reach of  *)
(* every lookup: the check of _handle_login_request before user_create.    *)
UniqueNames ==
    \A c, d \in ToSet(clients) : client[c].name = client[d].name => c = d

(* Two groups never have the same name: the check of                       *)
(* _handle_create_group before group_create.                               *)
UniqueGroups ==
    \A i, j \in DOMAIN groups : groups[i].name = groups[j].name => i = j

(* A name in a group's list is the name of a registered user, so that a    *)
(* program that logs in starts as a member of nothing: leave_all_group     *)
(* before user_delete in handle_close.                                     *)
MembersAreUsers ==
    \A i \in DOMAIN groups :
        ToSet(groups[i].users) \subseteq {client[c].name : c \in ToSet(clients)}

(* No user is listed twice in a group, or it would get messages twice and  *)
(* stay a member after leave_group, which removes one entry.               *)
MembersOnce ==
    \A i \in DOMAIN groups : IsInjective(groups[i].users)

(* The five together are inductive when names fit. *)
ListInv ==
    /\ ArgLive
    /\ UniqueNames
    /\ UniqueGroups
    /\ MembersAreUsers
    /\ MembersOnce

-----------------------------------------------------------------------------
(* What holds when each connection logs in once and packets fit            *)

Deployed == NamesFit /\ ~Relogin /\ ~Oversize

(* Every registered user has an open connection, which points back to it:  *)
(* a message for the user reaches the program that logged in as the user,  *)
(* not one that was given the same descriptor later.                       *)
BackPointers ==
    \A c \in ToSet(clients) :
        LET s == client[c].io IN s \in open /\ arg[s] = c

(* One request makes at most one io_write call on a connection, and none   *)
(* on a slot whose connection is gone: foreach_group_member over names,    *)
(* each looked up on its own in group_cb.                                  *)
OneCopyEach ==
    /\ \A v, w \in sent : v.io = w.io => v = w
    /\ \A w \in sent : w.io \in open

-----------------------------------------------------------------------------
(* The promise of MsgBus *)

(* What the daemon's pointers and lists say of a connection. *)
Who == [s \in Slot |-> IF arg[s] = NULL THEN NULL ELSE NameOf(s)]

GroupsOf(n) ==
    {groups[i].name : i \in {j \in DOMAIN groups : n \in ToSet(groups[j].users)}}

Joined == [s \in Slot |-> IF arg[s] = NULL THEN {} ELSE GroupsOf(NameOf(s))]

Bus == INSTANCE MsgBus WITH
    Conn      <- Slot,
    User      <- UserName,
    Group     <- GroupName,
    Unnamed   <- EmptyName,
    Nobody    <- NULL,
    who       <- Who,
    groups    <- {groups[i].name : i \in DOMAIN groups},
    joined    <- Joined,
    delivered <- {w.io : w \in sent}

(* The daemon does what MsgBus promises: its name-keyed lists answer every *)
(* request as if names and memberships belonged to connections.            *)
ImplementsBus == Bus!Spec
=============================================================================
