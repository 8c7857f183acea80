------------------------------- MODULE MsgBus -------------------------------
(***************************************************************************)
(* What the bus daemon promises the programs connected to it, told from    *)
(* their side: a connection is nobody until it logs in under a name that   *)
(* no other connection holds, it joins groups, and a message for a group   *)
(* reaches exactly the other connections that joined it.  Nothing here     *)
(* knows of the daemon's lists, of allocated clients or of the pointers    *)
(* between a connection and its client: those belong to Mbusd, which is    *)
(* shown to implement this specification.                                  *)
(***************************************************************************)

CONSTANTS
    Conn,       \* the connections the daemon can have open at once
    User,       \* the names programs log in under
    Group,      \* the names of groups
    Unnamed,    \* the empty group name, to which no message can be sent
    Nobody      \* what a connection is before it logs in

VARIABLES
    open,       \* the connections that are open
    who,        \* the name each connection is logged in under
    groups,     \* the groups that exist
    joined,     \* the groups each connection has joined
    delivered   \* the connections the last request's message was sent to

vars == <<open, who, groups, joined, delivered>>

TypeOK ==
    /\ open \subseteq Conn
    /\ who \in [Conn -> User \cup {Nobody}]
    /\ groups \subseteq Group
    /\ joined \in [Conn -> SUBSET Group]
    /\ delivered \subseteq Conn

InUse(u) == \E t \in Conn : who[t] = u

LoggedIn(s) == who[s] # Nobody

-----------------------------------------------------------------------------

Init ==
    /\ open = {}
    /\ who = [s \in Conn |-> Nobody]
    /\ groups = {}
    /\ joined = [s \in Conn |-> {}]
    /\ delivered = {}

Connect(s) ==
    /\ s \notin open
    /\ open' = open \cup {s}
    /\ delivered' = {}
    /\ UNCHANGED <<who, groups, joined>>

(* A name that nobody holds is granted; a login for any other is dropped,  *)
(* and the program is not told.                                            *)
Login(s, u) ==
    /\ s \in open
    /\ ~LoggedIn(s)
    /\ who' = IF InUse(u) THEN who ELSE [who EXCEPT ![s] = u]
    /\ delivered' = {}
    /\ UNCHANGED <<open, groups, joined>>

(* Groups are created by anyone and never go away. *)
CreateGroup(s, g) ==
    /\ s \in open
    /\ groups' = groups \cup {g}
    /\ delivered' = {}
    /\ UNCHANGED <<open, who, joined>>

JoinGroup(s, g) ==
    /\ s \in open
    /\ joined' = IF LoggedIn(s) /\ g \in groups
                 THEN [joined EXCEPT ![s] = @ \cup {g}]
                 ELSE joined
    /\ delivered' = {}
    /\ UNCHANGED <<open, who, groups>>

LeaveGroup(s, g) ==
    /\ s \in open
    /\ joined' = [joined EXCEPT ![s] = @ \ {g}]
    /\ delivered' = {}
    /\ UNCHANGED <<open, who, groups>>

(* A group message goes to the members other than its sender, who need not *)
(* be a member; one for a group that is unknown or unnamed is dropped.     *)
GroupMsg(s, g) ==
    /\ s \in open
    /\ delivered' = IF LoggedIn(s) /\ g \in groups \ {Unnamed}
                    THEN {t \in Conn \ {s} : g \in joined[t]}
                    ELSE {}
    /\ UNCHANGED <<open, who, groups, joined>>

(* A private message goes to the connection that holds the name, if there  *)
(* is one; it may be the sender's own.                                     *)
PrivateMsg(s, u) ==
    /\ s \in open
    /\ delivered' = IF LoggedIn(s) THEN {t \in Conn : who[t] = u} ELSE {}
    /\ UNCHANGED <<open, who, groups, joined>>

Heartbeat(s) ==
    /\ s \in open
    /\ delivered' = {s}
    /\ UNCHANGED <<open, who, groups, joined>>

(* Closing a connection takes its name and its memberships with it. *)
Disconnect(s) ==
    /\ s \in open
    /\ open' = open \ {s}
    /\ who' = [who EXCEPT ![s] = Nobody]
    /\ joined' = [joined EXCEPT ![s] = {}]
    /\ delivered' = {}
    /\ UNCHANGED groups

Next ==
    \E s \in Conn :
        \/ Connect(s)
        \/ \E u \in User : Login(s, u) \/ PrivateMsg(s, u)
        \/ \E g \in Group :
              CreateGroup(s, g) \/ JoinGroup(s, g) \/ LeaveGroup(s, g) \/ GroupMsg(s, g)
        \/ Heartbeat(s)
        \/ Disconnect(s)

Spec == Init /\ [][Next]_vars

-----------------------------------------------------------------------------

(* Whatever programs connect, log in and leave, a name is held by one      *)
(* connection at most, so that a private message has one receiver: the     *)
(* login handler's search for the name before it creates a user.           *)
OneHolderPerName ==
    \A s, t \in Conn : LoggedIn(s) /\ who[s] = who[t] => s = t

(* Only a connection that is logged in is a member of groups, and only of  *)
(* groups that exist: a membership does not outlive its connection and is  *)
(* not inherited by the next program that gets the same descriptor.        *)
MembersAreLoggedIn ==
    \A s \in Conn : joined[s] # {} => LoggedIn(s) /\ s \in open /\ joined[s] \subseteq groups
=============================================================================
