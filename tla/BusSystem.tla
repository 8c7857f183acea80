----------------------------- MODULE BusSystem ------------------------------
(***************************************************************************)
(* The bus with the programs on it: the mesh agent, the configuration      *)
(* manager and mbus_cli, each of which connects to the daemon when it      *)
(* starts and sends requests (mbus/bus_msg.c) from a timer, once: agent    *)
(* and manager the same three, and messages from then on; mbus_cli what    *)
(* its command line asks for, and nothing after.  Programs and daemon end  *)
(* and start again at any time.                                            *)
(*                                                                         *)
(* The daemon is MsgBus, which Mbusd implements; what a program sends goes *)
(* through a lossless queue, which IoStream implements.  The end of a      *)
(* program is one of the things the daemon learns by reading, after all    *)
(* the program sent, and after what other connections, the program's next  *)
(* one included, may have sent in the meantime.                            *)
(***************************************************************************)
EXTENDS Naturals, Sequences, FiniteSets

CONSTANTS
    Program,    \* the programs, each of which runs once at a time
    Member,     \* those that are agent or manager; the others are mbus_cli
    User,       \* the names they log in under
    name,       \* the name of each program
    Conn,       \* connections
    Group,      \* the names of groups
    Mesh,       \* the group of agent and manager
    Unnamed,    \* the empty group name
    Nobody,     \* no user, no program
    NoConn,     \* no connection
    NotGiven,   \* an option that takes a name and is not on the command line
    CommandLine,\* the options mbus_cli may be started with
    MaxMessages \* bound: messages of agent and manager to the daemon under way

(* parse_cmdline of mbus_cli: -u, the program's own name; -g, a group; -p, *)
(* a peer; -m, a text to send.                                             *)
Options == [u : BOOLEAN, g : Group \cup {NotGiven}, p : User \cup {NotGiven}, m : BOOLEAN]

NoOptions == [u |-> FALSE, g |-> NotGiven, p |-> NotGiven, m |-> FALSE]

ASSUME BusSystemAssumption ==
    /\ name \in [Program -> User]
    /\ Nobody \notin User \cup Program /\ NoConn \notin Conn
    /\ Member \subseteq Program
    /\ Mesh \in Group \ {Unnamed} /\ NotGiven \notin Group \cup User
    /\ CommandLine \subseteq Options
    /\ IsFiniteSet(Conn) /\ MaxMessages \in Nat

VARIABLES
    open, who, groups, joined, delivered,   \* the daemon, as in MsgBus
    daemon,     \* whether it is up, or how it ended
    queued,     \* connections with messages in the daemon's write queue
    running,    \* the programs that run
    options,    \* the command line each mbus_cli was started with
    armed,      \* programs whose registration timer has not run yet
    link,       \* the connection of each program
    owner,      \* the program a connection is, or was, of
    pipe,       \* requests the daemon has not handled yet
    slow        \* history: a program ended before it was sent its queue

bus == <<open, who, groups, joined, delivered>>
programs == <<running, options, armed, link, owner>>
vars == <<bus, daemon, queued, programs, pipe, slow>>

Bus == INSTANCE MsgBus

-----------------------------------------------------------------------------
(* The client library: the requests a program makes. *)

mbus_register_object == [cmd |-> "LOGIN", to |-> Nobody]
mbus_create_group(g) == [cmd |-> "CREATE_GROUP", to |-> g]
mbus_join_group(g) == [cmd |-> "JOIN_GROUP", to |-> g]
mbus_sendmsg_in_group(g) == [cmd |-> "GROUP_MSG", to |-> g]
mbus_sendmsg_private(u) == [cmd |-> "PRIVATE_MSG", to |-> u]

Message == {mbus_sendmsg_in_group(g) : g \in Group} \cup {mbus_sendmsg_private(u) : u \in User}

Request ==
    {mbus_register_object} \cup {mbus_create_group(g) : g \in Group}
        \cup {mbus_join_group(g) : g \in Group} \cup Message

(* What the timer of the agent sends, and that of the manager.  A          *)
(* definition with a suffix is a form a bug would give the one that        *)
(* follows it.                                                             *)
mesh_obj_create_timer_cb_JoinsFirst ==
    <<mbus_register_object, mbus_join_group(Mesh), mbus_create_group(Mesh)>>

mesh_obj_create_timer_cb ==
    <<mbus_register_object, mbus_create_group(Mesh), mbus_join_group(Mesh)>>

(* What that of mbus_cli sends under the options o: nothing when it has no *)
(* name or nobody to speak to, and no more than a login when it has no     *)
(* text.  It joins the group it sends the text to, and none for a peer.    *)
ToGroup(o) ==
    IF o.g # NotGiven /\ o.m
    THEN <<mbus_create_group(o.g), mbus_join_group(o.g), mbus_sendmsg_in_group(o.g)>>
    ELSE <<>>

ToPeer(o) == IF o.p # NotGiven /\ o.m THEN <<mbus_sendmsg_private(o.p)>> ELSE <<>>

msg_timer_callback(o) ==
    IF o.u /\ (o.g # NotGiven \/ o.p # NotGiven)
    THEN <<mbus_register_object>> \o ToGroup(o) \o ToPeer(o)
    ELSE <<>>

Registration(p) ==
    IF p \in Member THEN mesh_obj_create_timer_cb ELSE msg_timer_callback(options[p])

(* The groups a program asks to join. *)
Joins(p) ==
    {g \in Group : \E k \in DOMAIN Registration(p) : Registration(p)[k] = mbus_join_group(g)}

(* The program at the other end is gone. *)
Ghost(s) == owner[s] # Nobody /\ link[owner[s]] # s

TypeOK ==
    /\ Bus!TypeOK
    /\ daemon \in {"up", "broken", "killed"}
    /\ queued \subseteq open
    /\ running \subseteq Program /\ armed \subseteq running
    /\ options \in [Program -> Options]
    /\ link \in [Program -> Conn \cup {NoConn}]
    /\ owner \in [Conn -> Program \cup {Nobody}]
    /\ \A p \in Program : link[p] # NoConn => p \in running /\ owner[link[p]] = p
    /\ \A s \in open : owner[s] # Nobody
    /\ pipe \in [Conn -> Seq(Request)]
    /\ slow \in BOOLEAN

Init ==
    /\ Bus!Init
    /\ daemon = "up"
    /\ queued = {}
    /\ running = {}
    /\ options = [p \in Program |-> NoOptions]
    /\ armed = {}
    /\ link = [p \in Program |-> NoConn]
    /\ owner = [s \in Conn |-> Nobody]
    /\ pipe = [s \in Conn |-> <<>>]
    /\ slow = FALSE

-----------------------------------------------------------------------------
(* The programs. *)

(* main: without a daemon to connect to, the program ends at once. *)
Start(p) ==
    /\ p \notin running
    /\ daemon = "up"
    /\ \E s \in Conn :
          /\ owner[s] = Nobody
          /\ owner' = [owner EXCEPT ![s] = p]
          /\ link' = [link EXCEPT ![p] = s]
    /\ running' = running \cup {p}
    /\ IF p \in Member
       THEN UNCHANGED options
       ELSE \E o \in CommandLine : options' = [options EXCEPT ![p] = o]
    /\ armed' = armed \cup {p}
    /\ UNCHANGED <<bus, daemon, queued, pipe, slow>>

(* The timer sends its requests without waiting for anything, and is not   *)
(* set again.  When the daemon has ended, they go nowhere.                 *)
Register(p) ==
    /\ p \in armed
    /\ armed' = armed \ {p}
    /\ pipe' = IF link[p] = NoConn
               THEN pipe
               ELSE [pipe EXCEPT ![link[p]] = @ \o Registration(p)]
    /\ UNCHANGED <<bus, daemon, queued, running, options, link, owner, slow>>

UnderWay ==
    UNION {{<<s, k>> : k \in {j \in DOMAIN pipe[s] : pipe[s][j] \in Message}} :
              s \in {t \in Conn : owner[t] \in Member}}

(* Agent and manager send messages whether they are registered or not, for *)
(* the group or in answer to one program; mbus_cli has done so by now.     *)
Publish(p, m) ==
    /\ p \in Member
    /\ link[p] # NoConn
    /\ m \in {mbus_sendmsg_in_group(Mesh)} \cup {mbus_sendmsg_private(u) : u \in User \ {name[p]}}
    /\ Cardinality(UnderWay) < MaxMessages
    /\ pipe' = [pipe EXCEPT ![link[p]] = Append(@, m)]
    /\ UNCHANGED <<bus, daemon, queued, programs, slow>>

(* The program ends; what it had not sent yet is lost with it. *)
End(p) ==
    /\ p \in running
    /\ running' = running \ {p}
    /\ options' = [options EXCEPT ![p] = NoOptions]
    /\ armed' = armed \ {p}
    /\ link' = [link EXCEPT ![p] = NoConn]
    /\ IF link[p] = NoConn
       THEN UNCHANGED <<pipe, slow>>
       ELSE /\ \E n \in 0..Len(pipe[link[p]]) :
                  pipe' = [pipe EXCEPT ![link[p]] = SubSeq(@, 1, n)]
            /\ slow' = (slow \/ link[p] \in queued)
    /\ UNCHANGED <<bus, daemon, queued, owner>>

-----------------------------------------------------------------------------
(* The daemon. *)

handle_accept(s) ==
    /\ owner[s] # Nobody
    /\ Bus!Connect(s)
    /\ UNCHANGED <<daemon, queued, programs, pipe, slow>>

handle_msg(s, m) ==
    \/ m = mbus_register_object /\ Bus!Login(s, name[owner[s]])
    \/ \E g \in Group :
          \/ m = mbus_create_group(g) /\ Bus!CreateGroup(s, g)
          \/ m = mbus_join_group(g) /\ Bus!JoinGroup(s, g)
          \/ m = mbus_sendmsg_in_group(g) /\ Bus!GroupMsg(s, g)
    \/ \E u \in User : m = mbus_sendmsg_private(u) /\ Bus!PrivateMsg(s, u)

(* The end of the daemon: every program reads the end of its connection    *)
(* and runs on without one.  None connects again.                          *)
Ends_ProgramsKeepLinks(how) ==
    /\ daemon = "up"
    /\ daemon' = how
    /\ open' = {} /\ groups' = {} /\ delivered' = {} /\ queued' = {}
    /\ who' = [s \in Conn |-> Nobody]
    /\ joined' = [s \in Conn |-> {}]
    /\ owner' = [s \in Conn |-> Nobody]
    /\ pipe' = [s \in Conn |-> <<>>]
    /\ UNCHANGED <<running, options, armed, link, slow>>

Ends(how) ==
    /\ daemon = "up"
    /\ daemon' = how
    /\ open' = {} /\ groups' = {} /\ delivered' = {} /\ queued' = {}
    /\ who' = [s \in Conn |-> Nobody]
    /\ joined' = [s \in Conn |-> {}]
    /\ owner' = [s \in Conn |-> Nobody]
    /\ pipe' = [s \in Conn |-> <<>>]
    /\ link' = [p \in Program |-> NoConn]
    /\ UNCHANGED <<running, options, armed, slow>>

handle_read_Signals(s) ==
    /\ s \in open
    /\ pipe[s] # <<>>
    /\ \/ /\ handle_msg(s, Head(pipe[s]))
          /\ pipe' = [pipe EXCEPT ![s] = Tail(@)]
          /\ \E full \in SUBSET {t \in delivered' : ~Ghost(t)} : queued' = queued \cup full
          /\ UNCHANGED <<daemon, programs, slow>>
       \/ /\ who[s] # Nobody
          /\ \E g \in Group, t \in open \ {s} :
                 Head(pipe[s]) = mbus_sendmsg_in_group(g) /\ Ghost(t) /\ g \in joined[t]
          /\ Ends("broken")

(* A request is handled.  Of the connections its message is sent to, some  *)
(* have a full socket: there the message is queued.  io_write to one whose *)
(* program has ended fails, and raises no signal.                          *)
handle_read(s) ==
    /\ s \in open
    /\ pipe[s] # <<>>
    /\ handle_msg(s, Head(pipe[s]))
    /\ pipe' = [pipe EXCEPT ![s] = Tail(@)]
    /\ \E full \in SUBSET {t \in delivered' : ~Ghost(t)} : queued' = queued \cup full
    /\ UNCHANGED <<daemon, programs, slow>>

handle_close_KeepsUser(s) ==
    /\ s \in open
    /\ Ghost(s) /\ pipe[s] = <<>>
    /\ open' = open \ {s}
    /\ delivered' = {}
    /\ owner' = [owner EXCEPT ![s] = Nobody]
    /\ queued' = queued \ {s}
    /\ UNCHANGED <<who, groups, joined, daemon, running, options, armed, link, pipe, slow>>

handle_close_WaitsForQueue(s) ==
    /\ s \in open \ queued
    /\ Ghost(s) /\ pipe[s] = <<>>
    /\ Bus!Disconnect(s)
    /\ owner' = [owner EXCEPT ![s] = Nobody]
    /\ UNCHANGED <<daemon, queued, running, options, armed, link, pipe, slow>>

(* All was read that the program sent, and then the end of the connection: *)
(* the user and the slot are freed, the queue with them.                   *)
handle_close(s) ==
    /\ s \in open
    /\ Ghost(s) /\ pipe[s] = <<>>
    /\ Bus!Disconnect(s)
    /\ owner' = [owner EXCEPT ![s] = Nobody]
    /\ queued' = queued \ {s}
    /\ UNCHANGED <<daemon, running, options, armed, link, pipe, slow>>

(* EPOLLOUT: the queue is sent.  To a program that has ended a first send  *)
(* may still succeed; the one after it raises SIGPIPE, which the daemon    *)
(* neither ignores nor masks here.                                         *)
handle_write(s) ==
    /\ s \in queued
    /\ \/ /\ queued' = queued \ {s}
          /\ UNCHANGED <<bus, daemon, programs, pipe, slow>>
       \/ Ghost(s) /\ Ends("broken")

Restart ==
    /\ daemon # "up"
    /\ daemon' = "up"
    /\ UNCHANGED <<bus, queued, programs, pipe, slow>>

-----------------------------------------------------------------------------

Next ==
    \/ \E p \in Program : Start(p) \/ Register(p) \/ End(p)
    \/ \E p \in Program, m \in Message : Publish(p, m)
    \/ \E s \in Conn : handle_accept(s) \/ handle_read(s) \/ handle_close(s) \/ handle_write(s)
    \/ Ends("killed")
    \/ Restart

(* The loops of the daemon and of the programs go on: what can be read is  *)
(* read, and timers run.  Nobody needs to read what it is sent, and        *)
(* nothing starts, ends or speaks that does not want to.                   *)
Fairness ==
    /\ \A p \in Program : WF_vars(Register(p))
    /\ \A s \in Conn :
          WF_vars(handle_accept(s)) /\ WF_vars(handle_read(s)) /\ WF_vars(handle_close(s))

Spec == Init /\ [][Next]_vars /\ Fairness

-----------------------------------------------------------------------------

Requested(s, m) == \E k \in DOMAIN pipe[s] : pipe[s][k] = m

(* A program that was accepted under its name is in every group it asked   *)
(* for, once none of its requests to join is pending, although it waits    *)
(* for no answer between its requests, and whoever creates the group, and  *)
(* whatever ended and started again before: the timers of agent, manager   *)
(* and mbus_cli, and the login, create and join handlers of the daemon.    *)
(* Agent and manager ask for the mesh group; mbus_cli for the one after    *)
(* -g, if it was given a text to send there, and for none otherwise.       *)
RegisteredJoins ==
    \A s \in open : who[s] # Nobody /\ ~Ghost(s) =>
        \A g \in Joins(owner[s]) : ~Requested(s, mbus_join_group(g)) => g \in joined[s]

(* The daemon ends on a closed connection only when a program has ended    *)
(* that left something of its queue unread: programs that read what they   *)
(* are sent can end at any time, also between the messages the daemon      *)
(* sends them (MSG_NOSIGNAL in io_write, and its lack in handle_write).    *)
OutlivesQuickReaders == daemon = "broken" => slow

(* The name of a program that has ended is freed in the end: all it sent   *)
(* is read, then the end of its connection.                                *)
GhostsFreed == \A s \in Conn : Ghost(s) ~> ~Ghost(s)

Alone(p) ==
    \A s \in Conn \ {link[p]} : owner[s] # Nobody => name[owner[s]] # name[p]

(* A program whose name no other connection has is accepted under it, and  *)
(* becomes a member of the groups it asks for, unless it or the daemon     *)
(* ends, or a second one comes with its name, before.  One that starts     *)
(* while its predecessor's connection is not closed yet may be refused,    *)
(* for good: nothing logs in again.  An mbus_cli whose command line lets   *)
(* it send nothing is left out: it never logs in.                          *)
EventuallyMember ==
    \A p \in Program :
        /\ link[p] # NoConn /\ Alone(p)
        /\ \/ p \in armed /\ Registration(p) # <<>>
           \/ Requested(link[p], mbus_register_object)
        ~> \/ link[p] = NoConn
           \/ who[link[p]] = name[p] /\ Joins(p) \subseteq joined[link[p]]
           \/ ~Alone(p)
=============================================================================
