----------------------------- MODULE MbusdProofs ----------------------------
(***************************************************************************)
(* Theorems about the bus daemon, for any number of connections, users and *)
(* groups: its lists are sound; and when each connection logs in once,     *)
(* packets fit the receive buffer and names fit their fields it implements *)
(* MsgBus, and no request makes it write twice to a connection, or to one  *)
(* that is gone.                                                           *)
(***************************************************************************)
EXTENDS Mbusd, ListLemmas, FiniteSetTheorems

(* What the walks over the lists find *)

LEMMA LookupUser ==
    ASSUME TypeOK, NEW n
    PROVE  LET c == user_get_by_name(n) IN
           \/ c = NULL /\ \A d \in ToSet(clients) : client[d].name # n
           \/ c \in ToSet(clients) /\ client[c].name = n
<1> DEFINE I == {i \in 1..Len(clients) : client[clients[i]].name = n}
           k == IF I # {} THEN Min(I) ELSE 0
<1>1. Len(clients) \in Nat /\ DOMAIN clients = 1..Len(clients)
    BY LenProperties DEF TypeOK
<1>2. user_get_by_name(n) = IF k = 0 THEN NULL ELSE clients[k]
    BY DEF user_get_by_name, SelectInSeq
<1>3. CASE I = {}
  <2>1. user_get_by_name(n) = NULL
    BY <1>2, <1>3
  <2> QED
    BY <2>1, <1>1, <1>3 DEF ToSet
<1>4. CASE I # {}
  <2>1. I \in SUBSET Nat
    BY <1>1
  <2>2. k = Min(I)
    BY <1>4
  <2> HIDE DEF I, k
  <2>3. k \in I
    BY <1>4, <2>1, <2>2, FirstPosition
  <2>4. k \in 1..Len(clients) /\ client[clients[k]].name = n
    BY <2>3 DEF I
  <2> QED
    BY <1>1, <1>2, <2>4 DEF ToSet
<1> QED
    BY <1>3, <1>4

LEMMA LookupGroup ==
    ASSUME TypeOK, NEW g
    PROVE  LET i == search_group(g) IN
           \/ i = 0 /\ \A j \in DOMAIN groups : groups[j].name # g
           \/ i \in DOMAIN groups /\ i # 0 /\ groups[i].name = g
<1> DEFINE I == {i \in 1..Len(groups) : groups[i].name = g}
<1>1. Len(groups) \in Nat /\ DOMAIN groups = 1..Len(groups)
    BY LenProperties DEF TypeOK
<1>2. search_group(g) = IF I # {} THEN Min(I) ELSE 0
    BY DEF search_group, SelectInSeq
<1>3. CASE I = {}
    BY <1>1, <1>2, <1>3
<1>4. CASE I # {}
  <2>1. I \in SUBSET Nat
    BY <1>1
  <2> HIDE DEF I
  <2>2. search_group(g) \in I
    BY <1>2, <1>4, <2>1, FirstPosition
  <2> QED
    BY <1>1, <2>2 DEF I
<1> QED
    BY <1>3, <1>4

-----------------------------------------------------------------------------
(* Type correctness *)

MaybeName == UserName \cup {NULL}

LEMMA NameType ==
    ASSUME TypeOK, NEW s \in Slot, arg[s] # NULL
    PROVE  arg[s] \in Cell /\ NameOf(s) \in MaybeName
BY DEF TypeOK, Client, NameOf, MaybeName

LEMMA JoinType ==
    ASSUME TypeOK, NEW n \in MaybeName, NEW g
    PROVE  join_group(n, g) \in Seq(GroupRec)
<1> DEFINE i == search_group(g)
<1>1. CASE i = 0 \/ n \in ToSet(groups[i].users)
    BY <1>1 DEF join_group, TypeOK
<1>2. CASE ~(i = 0 \/ n \in ToSet(groups[i].users))
  <2>1. i \in 1..Len(groups) /\ groups[i] \in GroupRec
    BY <1>2, LookupGroup, LenProperties DEF TypeOK
  <2>2. Append(groups[i].users, n) \in Seq(MaybeName)
    BY <2>1, AppendProperties DEF GroupRec, MaybeName
  <2>3. [groups[i] EXCEPT !.users = Append(@, n)] \in GroupRec
    BY <2>1, <2>2 DEF GroupRec, MaybeName
  <2>4. join_group(n, g) = [groups EXCEPT ![i] = [groups[i] EXCEPT !.users = Append(@, n)]]
    BY <1>2, <2>1 DEF join_group
  <2> QED
    BY <2>1, <2>3, <2>4, ExceptSeq DEF TypeOK
<1> QED
    BY <1>1, <1>2

LEMMA LeaveType ==
    ASSUME TypeOK, NEW n, NEW i \in DOMAIN groups
    PROVE  /\ [groups[i] EXCEPT !.users = RemoveFirst(@, n)] \in GroupRec
           /\ [groups EXCEPT ![i].users = RemoveFirst(@, n)] \in Seq(GroupRec)
<1>1. i \in 1..Len(groups) /\ groups[i] \in GroupRec
    BY LenProperties DEF TypeOK
<1>2. RemoveFirst(groups[i].users, n) \in Seq(MaybeName)
    BY <1>1, RemoveFirstType DEF GroupRec, MaybeName
<1>3. [groups[i] EXCEPT !.users = RemoveFirst(@, n)] \in GroupRec
    BY <1>1, <1>2 DEF GroupRec, MaybeName
<1> QED
    BY <1>1, <1>3, ExceptSeq DEF TypeOK

LEMMA LeaveAllType ==
    ASSUME TypeOK, NEW n
    PROVE  /\ leave_all_group(n) \in Seq(GroupRec)
           /\ DOMAIN leave_all_group(n) = DOMAIN groups
           /\ \A i \in DOMAIN groups :
                 leave_all_group(n)[i] = [groups[i] EXCEPT !.users = RemoveFirst(@, n)]
<1>1. Len(groups) \in Nat /\ DOMAIN groups = 1..Len(groups)
    BY LenProperties DEF TypeOK
<1>2. \A i \in 1..Len(groups) : leave_all_group(n)[i] \in GroupRec
    BY <1>1, LeaveType DEF leave_all_group
<1>3. leave_all_group(n) \in [1..Len(groups) -> GroupRec]
    BY <1>1, <1>2 DEF leave_all_group
<1>4. leave_all_group(n) \in Seq(GroupRec)
    BY <1>1, <1>3, SMT
<1> QED
    BY <1>4 DEF leave_all_group

(* user_delete leaves the list and the heap well formed. *)
LEMMA DeleteType ==
    ASSUME TypeOK, NEW n, user_delete(n)
    PROVE  /\ clients' \in Seq(Cell) /\ IsInjective(clients')
           /\ client' \in [Cell -> Client]
           /\ \A c \in ToSet(clients') : client'[c] \in [name : UserName, io : Slot]
           /\ ToSet(clients') = ToSet(clients) \ {user_get_by_name(n)}
           /\ \A c \in ToSet(clients') : client'[c] = client[c]
<1> DEFINE d == user_get_by_name(n)
<1>0. ToSet(clients) \subseteq Cell
    BY LenProperties DEF TypeOK, ToSet
<1>1. CASE d = NULL
  <2>1. clients' = clients /\ client' = client
    BY <1>1 DEF user_delete
  <2>2. NULL \notin ToSet(clients)
    BY <1>0, NullAssumption
  <2> QED
    BY <1>1, <2>1, <2>2 DEF TypeOK
<1>2. CASE d # NULL
  <2>1. /\ clients' = RemoveFirst(clients, d)
        /\ client' = [client EXCEPT ![d] = Freed]
    BY <1>2 DEF user_delete
  <2>2. clients \in Seq(Cell) /\ IsInjective(clients)
    BY DEF TypeOK
  <2> HIDE DEF d
  <2>3. /\ clients' \in Seq(Cell)
        /\ IsInjective(clients')
        /\ ToSet(clients') = ToSet(clients) \ {d}
    BY <2>1, <2>2, RemoveFirstType, RemoveFirstProperties
  <2>4. Freed \in Client
    BY DEF Freed, Client
  <2>5. client' \in [Cell -> Client]
    BY <2>1, <2>4 DEF TypeOK
  <2>6. \A c \in ToSet(clients') : client'[c] = client[c]
    BY <1>0, <2>1, <2>3 DEF TypeOK
  <2>7. \A c \in ToSet(clients') : client'[c] \in [name : UserName, io : Slot]
    BY <2>3, <2>6 DEF TypeOK
  <2> QED
    BY <2>3, <2>5, <2>6, <2>7 DEF d
<1> QED
    BY <1>1, <1>2

LEMMA TypeInit == Init => TypeOK
<1> SUFFICES ASSUME Init PROVE TypeOK
    OBVIOUS
<1>1. ToSet(clients) = {} /\ IsInjective(clients) /\ clients \in Seq(Cell)
    BY DEF Init, ToSet, IsInjective
<1>2. Freed \in Client
    BY DEF Freed, Client
<1> QED
    BY <1>1, <1>2 DEF Init, TypeOK

LEMMA LoginType ==
    ASSUME TypeOK, NEW s \in Slot, NEW n \in UserName, Login(s, n)
    PROVE  TypeOK'
<1>1. CASE UNCHANGED <<arg, clients, client>>
    BY <1>1 DEF Login, TypeOK
<1>2. ASSUME NEW c \in FreeCells,
             clients' = Append(clients, c),
             client' = [client EXCEPT ![c] = [name |-> Stored[n], io |-> s]],
             arg' = [arg EXCEPT ![s] = c]
      PROVE  TypeOK'
  <2>1. c \in Cell /\ c \notin ToSet(clients) /\ ToSet(clients) \subseteq Cell
    BY LenProperties DEF FreeCells, TypeOK, ToSet
  <2>2. clients \in Seq(Cell) /\ IsInjective(clients)
    BY DEF TypeOK
  <2>3. /\ clients' \in Seq(Cell)
        /\ IsInjective(clients')
        /\ ToSet(clients') = ToSet(clients) \cup {c}
    BY <1>2, <2>1, <2>2, AppendProperties, AppendSet
  <2>4. [name |-> Stored[n], io |-> s] \in [name : UserName, io : Slot]
    BY StoredAssumption
  <2>5. client' \in [Cell -> Client]
    BY <1>2, <2>4 DEF TypeOK, Client
  <2>6. \A d \in ToSet(clients') : client'[d] \in [name : UserName, io : Slot]
    BY <1>2, <2>1, <2>3, <2>4 DEF TypeOK
  <2> QED
    BY <1>2, <2>1, <2>3, <2>5, <2>6 DEF Login, TypeOK
<1> QED
    BY <1>1, <1>2 DEF Login

LEMMA TypeStep == TypeOK /\ [Next]_vars => TypeOK'
<1> SUFFICES ASSUME TypeOK, [Next]_vars PROVE TypeOK'
    OBVIOUS
<1>1. CASE UNCHANGED vars
    BY <1>1 DEF vars, TypeOK
<1>2. ASSUME NEW s \in Slot, Accept(s) PROVE TypeOK'
    BY <1>2 DEF Accept, TypeOK
<1>3. ASSUME NEW s \in Slot, NEW n \in UserName, Login(s, n) PROVE TypeOK'
    BY <1>3, LoginType
<1>4. ASSUME NEW s \in Slot, NEW n \in UserName, PrivateMsg(s, n) PROVE TypeOK'
  <2> DEFINE peer == user_get_by_name(n)
  <2>1. peer # NULL => client[peer].io \in Slot
    BY LookupUser DEF TypeOK
  <2>2. sent' \subseteq Write
    BY <1>4, <2>1 DEF PrivateMsg, Write
  <2> QED
    BY <1>4, <2>2 DEF PrivateMsg, TypeOK
<1>5. ASSUME NEW s \in Slot, NEW g \in GroupName, CreateGroup(s, g) PROVE TypeOK'
  <2>1. [name |-> Stored[g], users |-> <<>>] \in GroupRec
    BY StoredAssumption DEF GroupRec
  <2>2. groups' \in Seq(GroupRec)
    BY <1>5, <2>1, AppendProperties DEF CreateGroup, group_create, TypeOK
  <2> QED
    BY <1>5, <2>2 DEF CreateGroup, TypeOK
<1>6. ASSUME NEW s \in Slot, NEW g \in GroupName, JoinGroup(s, g) PROVE TypeOK'
  <2>1. groups' \in Seq(GroupRec)
    BY <1>6, NameType, JoinType DEF JoinGroup, TypeOK
  <2> QED
    BY <1>6, <2>1 DEF JoinGroup, TypeOK
<1>7. ASSUME NEW s \in Slot, NEW g \in GroupName, LeaveGroup(s, g) PROVE TypeOK'
  <2>1. groups' \in Seq(GroupRec)
    BY <1>7, LookupGroup, LeaveType DEF LeaveGroup, leave_group_by_name, TypeOK
  <2> QED
    BY <1>7, <2>1 DEF LeaveGroup, TypeOK
<1>8. ASSUME NEW s \in Slot, NEW g \in GroupName, GroupMsg(s, g) PROVE TypeOK'
  <2> DEFINE i == search_group(g)
  <2>1. ASSUME i # 0, NEW from PROVE forward_msg_in_group(i, from) \subseteq Write
    <3>1. i \in DOMAIN groups /\ groups[i] \in GroupRec
        BY <2>1, LookupGroup, LenProperties DEF TypeOK
    <3>2. DOMAIN groups[i].users \subseteq Nat
        BY <3>1, LenProperties DEF GroupRec
    <3>3. \A m : user_get_by_name(m) # NULL => client[user_get_by_name(m)].io \in Slot
        BY LookupUser DEF TypeOK
    <3> QED
        BY <3>2, <3>3 DEF forward_msg_in_group, Write
  <2>2. sent' \subseteq Write
    BY <1>8, <2>1 DEF GroupMsg
  <2> QED
    BY <1>8, <2>2 DEF GroupMsg, TypeOK
<1>9. ASSUME NEW s \in Slot, Heartbeat(s) PROVE TypeOK'
    BY <1>9 DEF Heartbeat, TypeOK, Write
<1>10. ASSUME NEW s \in Slot, PeerClose(s) PROVE TypeOK'
  <2>1. open' \subseteq Slot /\ arg' \in [Slot -> Cell \cup {NULL}] /\ sent' \subseteq Write
    BY <1>10 DEF PeerClose, eloop_reset_io, TypeOK
  <2>2. CASE arg[s] = NULL
    BY <1>10, <2>1, <2>2 DEF PeerClose, TypeOK
  <2>3. CASE arg[s] # NULL
    BY <1>10, <2>1, <2>3, LeaveAllType, DeleteType DEF PeerClose, TypeOK
  <2> QED
    BY <2>2, <2>3
<1>11. ASSUME NEW s \in Slot, Overflow(s) PROVE TypeOK'
    BY <1>11 DEF Overflow, eloop_reset_io, TypeOK
<1> QED
    BY <1>1, <1>2, <1>3, <1>4, <1>5, <1>6, <1>7, <1>8, <1>9, <1>10, <1>11 DEF Next

(* Pointers point to clients and lists hold what they are lists of,        *)
(* whatever the names and whatever the programs do: every client_t that    *)
(* is linked holds a login, and none is linked twice.                      *)
THEOREM TypeCorrect == Spec => []TypeOK
<1> QED
    BY TypeInit, TypeStep, PTL DEF Spec

-----------------------------------------------------------------------------
(* The lists, when names fit the fields they are stored in *)

LEMMA ListInit == Init => ListInv
<1> SUFFICES ASSUME Init PROVE ListInv
    OBVIOUS
<1>1. ToSet(clients) = {} /\ DOMAIN groups = {}
    BY DEF Init, ToSet
<1>2. arg = [s \in Slot |-> NULL]
    BY DEF Init
<1> QED
    BY <1>1, <1>2 DEF ListInv, ArgLive, UniqueNames, UniqueGroups, MembersAreUsers, MembersOnce

(* The handlers that leave the clients alone can only disturb the groups. *)
LEMMA SameClients ==
    ASSUME ListInv, UNCHANGED <<open, arg, clients, client>>
    PROVE  ArgLive' /\ UniqueNames'
BY DEF ListInv, ArgLive, UniqueNames

LEMMA SameGroups ==
    ASSUME ListInv, UNCHANGED groups,
           \A c \in ToSet(clients) : c \in ToSet(clients') /\ client'[c].name = client[c].name
    PROVE  UniqueGroups' /\ MembersAreUsers' /\ MembersOnce'
<1>1. UniqueGroups' /\ MembersOnce'
    BY DEF ListInv, UniqueGroups, MembersOnce
<1>2. {client[c].name : c \in ToSet(clients)} \subseteq {client'[c].name : c \in ToSet(clients')}
    OBVIOUS
<1>3. MembersAreUsers'
    BY <1>2, Zenon DEF ListInv, MembersAreUsers
<1> QED
    BY <1>1, <1>3

LEMMA LoginLists ==
    ASSUME NamesFit, TypeOK, ListInv, NEW s \in Slot, NEW n \in UserName, Login(s, n)
    PROVE  ListInv'
<1>1. CASE UNCHANGED <<arg, clients, client>>
  <2>1. UNCHANGED <<open, groups>>
    BY DEF Login
  <2> QED
    BY <1>1, <2>1, SameClients, SameGroups DEF ListInv
<1>2. ASSUME NEW c \in FreeCells,
             user_get_by_name(n) = NULL,
             clients' = Append(clients, c),
             client' = [client EXCEPT ![c] = [name |-> Stored[n], io |-> s]],
             arg' = [arg EXCEPT ![s] = c]
      PROVE  ListInv'
  <2>1. c \in Cell /\ c \notin ToSet(clients) /\ ToSet(clients) \subseteq Cell
    BY LenProperties DEF FreeCells, TypeOK, ToSet
  <2>2. ToSet(clients') = ToSet(clients) \cup {c}
    BY <1>2, <2>1, AppendSet DEF TypeOK
  <2>3. client'[c] = [name |-> n, io |-> s]
    BY <1>2, <2>1 DEF TypeOK, NamesFit, Names
  <2>4. \A d \in ToSet(clients) : client'[d] = client[d]
    BY <1>2, <2>1 DEF TypeOK
  <2>5. NULL \notin ToSet(clients)
    BY <2>1, NullAssumption
  <2>6. \A d \in ToSet(clients) : client[d].name # n
    BY <1>2, <2>5, LookupUser
  <2>7. open' = open /\ groups' = groups /\ s \in open
    BY DEF Login
  <2>8. UniqueNames'
    BY <2>2, <2>3, <2>4, <2>6 DEF ListInv, UniqueNames
  <2>9. ArgLive'
    <3> SUFFICES ASSUME NEW t \in Slot, arg'[t] # NULL
                 PROVE  t \in open' /\ arg'[t] \in ToSet(clients') /\ client'[arg'[t]].io = t
        BY DEF ArgLive
    <3>1. CASE t = s
        BY <1>2, <2>2, <2>3, <2>7, <3>1 DEF TypeOK
    <3>2. CASE t # s
      <4>1. arg'[t] = arg[t]
        BY <1>2, <3>2 DEF TypeOK
      <4> QED
        BY <2>2, <2>4, <2>7, <4>1 DEF ListInv, ArgLive
    <3> QED
        BY <3>1, <3>2
  <2> QED
    BY <2>2, <2>4, <2>7, <2>8, <2>9, SameGroups DEF ListInv
<1> QED
    BY <1>1, <1>2 DEF Login

LEMMA CreateLists ==
    ASSUME TypeOK, ListInv, NamesFit, NEW s \in Slot, NEW g \in GroupName, CreateGroup(s, g)
    PROVE  ListInv'
<1>0. UNCHANGED <<open, arg, clients, client>>
    BY DEF CreateGroup
<1>1. CASE groups' = groups
    BY <1>0, <1>1, SameClients, SameGroups DEF ListInv
<1>2. CASE search_group(g) = 0 /\ groups' = group_create(g)
  <2> DEFINE r == [name |-> g, users |-> <<>>]
             n == Len(groups)
  <2>1. groups' = Append(groups, r)
    BY <1>2 DEF group_create, NamesFit, Names
  <2>2. r \in GroupRec /\ groups \in Seq(GroupRec)
    BY DEF TypeOK, GroupRec
  <2> HIDE DEF r
  <2>3. /\ DOMAIN groups = 1..n /\ n \in Nat
        /\ DOMAIN groups' = 1..n + 1
        /\ \A i \in 1..n : groups'[i] = groups[i]
        /\ groups'[n + 1] = r
    BY <2>1, <2>2, AppendProperties, LenProperties
  <2>4. \A j \in 1..n : groups[j].name # g
    <3>1. 0 \notin DOMAIN groups
        BY <2>3
    <3> QED BY <1>2, <2>3, <3>1, LookupGroup
  <2>5. r.name = g /\ ToSet(r.users) = {} /\ IsInjective(r.users)
    BY DEF r, ToSet, IsInjective
  <2> HIDE DEF n
  <2>6. 1..n + 1 = 1..n \cup {n + 1}
    BY <2>3
  <2>7. UniqueGroups'
    BY <2>3, <2>4, <2>5, <2>6 DEF ListInv, UniqueGroups
  <2>8. MembersAreUsers' /\ MembersOnce'
    BY <1>0, <2>3, <2>5, <2>6 DEF ListInv, MembersAreUsers, MembersOnce
  <2> QED
    BY <1>0, <2>7, <2>8, SameClients DEF ListInv
<1> QED
    BY <1>1, <1>2 DEF CreateGroup

LEMMA JoinLists ==
    ASSUME TypeOK, TypeOK', ListInv, NEW s \in Slot, NEW g \in GroupName, JoinGroup(s, g)
    PROVE  ListInv'
<1> DEFINE n == NameOf(s)
           i == search_group(g)
<1>0. UNCHANGED <<open, arg, clients, client>>
    BY DEF JoinGroup
<1>1. CASE groups' = groups
    BY <1>0, <1>1, SameClients, SameGroups DEF ListInv
<1>2. CASE groups' # groups
  <2>1. /\ arg[s] # NULL
        /\ i # 0
        /\ n \notin ToSet(groups[i].users)
        /\ groups' = [groups EXCEPT ![i].users = Append(@, n)]
    BY <1>2 DEF JoinGroup, join_group
  <2>2. i \in DOMAIN groups /\ i \in 1..Len(groups) /\ groups[i] \in GroupRec
    BY <2>1, LookupGroup, LenProperties DEF TypeOK
  <2>3. n \in {client[c].name : c \in ToSet(clients)}
    BY <2>1 DEF ListInv, ArgLive, NameOf
  <2>4. n \in MaybeName
    BY <2>1, NameType
  <2> HIDE DEF n, i
  <2>5. /\ DOMAIN groups' = DOMAIN groups
        /\ \A j \in DOMAIN groups : j # i => groups'[j] = groups[j]
        /\ groups'[i].name = groups[i].name
        /\ groups'[i].users = Append(groups[i].users, n)
    BY <2>1, <2>2 DEF GroupRec
  <2>6. groups[i].users \in Seq(MaybeName)
    BY <2>2 DEF GroupRec, MaybeName
  <2>7. IsInjective(groups[i].users)
    BY <2>2 DEF ListInv, MembersOnce
  <2>8. /\ ToSet(groups'[i].users) = ToSet(groups[i].users) \cup {n}
        /\ IsInjective(groups'[i].users)
    BY <2>1, <2>4, <2>5, <2>6, <2>7, AppendSet
  <2>9. UniqueGroups'
    BY <2>5 DEF ListInv, UniqueGroups
  <2>10. MembersAreUsers'
    <3> SUFFICES ASSUME NEW j \in DOMAIN groups
                 PROVE  ToSet(groups'[j].users) \subseteq {client[c].name : c \in ToSet(clients)}
        BY <1>0, <2>5 DEF MembersAreUsers
    <3>1. ToSet(groups[j].users) \subseteq {client[c].name : c \in ToSet(clients)}
        BY DEF ListInv, MembersAreUsers
    <3> QED
        BY <2>3, <2>5, <2>8, <3>1
  <2>11. MembersOnce'
    BY <2>5, <2>8 DEF ListInv, MembersOnce
  <2> QED
    BY <1>0, <2>9, <2>10, <2>11, SameClients DEF ListInv
<1> QED
    BY <1>1, <1>2

(* What a list of members becomes when a name is taken out. *)
LEMMA Without ==
    ASSUME TypeOK, ListInv, NEW i \in DOMAIN groups, NEW n
    PROVE  /\ IsInjective(RemoveFirst(groups[i].users, n))
           /\ ToSet(RemoveFirst(groups[i].users, n)) = ToSet(groups[i].users) \ {n}
<1>1. groups[i].users \in Seq(MaybeName)
  <2>1. groups[i] \in GroupRec
    BY LenProperties DEF TypeOK
  <2> QED BY <2>1 DEF GroupRec, MaybeName
<1>2. IsInjective(groups[i].users)
    BY DEF ListInv, MembersOnce
<1> QED
    BY <1>1, <1>2, RemoveFirstProperties

LEMMA LeaveLists ==
    ASSUME TypeOK, ListInv, NEW s \in Slot, NEW g \in GroupName, LeaveGroup(s, g)
    PROVE  ListInv'
<1> DEFINE n == NameOf(s)
           i == search_group(g)
<1>0. UNCHANGED <<open, arg, clients, client>>
    BY DEF LeaveGroup
<1>1. CASE groups' = groups
    BY <1>0, <1>1, SameClients, SameGroups DEF ListInv
<1>2. CASE groups' # groups
  <2>1. i # 0 /\ groups' = [groups EXCEPT ![i].users = RemoveFirst(@, n)]
    BY <1>2 DEF LeaveGroup, leave_group_by_name
  <2>2. i \in DOMAIN groups /\ i \in 1..Len(groups) /\ groups[i] \in GroupRec
    BY <2>1, LookupGroup, LenProperties DEF TypeOK
  <2> HIDE DEF n, i
  <2>3. /\ DOMAIN groups' = DOMAIN groups
        /\ \A j \in DOMAIN groups : j # i => groups'[j] = groups[j]
        /\ groups'[i].name = groups[i].name
        /\ groups'[i].users = RemoveFirst(groups[i].users, n)
    BY <2>1, <2>2 DEF GroupRec
  <2>4. /\ ToSet(groups'[i].users) \subseteq ToSet(groups[i].users)
        /\ IsInjective(groups'[i].users)
    BY <2>2, <2>3, Without
  <2>5. UniqueGroups'
    BY <2>3 DEF ListInv, UniqueGroups
  <2>6. MembersAreUsers'
    <3> SUFFICES ASSUME NEW j \in DOMAIN groups
                 PROVE  ToSet(groups'[j].users) \subseteq {client[c].name : c \in ToSet(clients)}
        BY <1>0, <2>3 DEF MembersAreUsers
    <3>1. ToSet(groups[j].users) \subseteq {client[c].name : c \in ToSet(clients)}
        BY DEF ListInv, MembersAreUsers
    <3> QED
        BY <2>3, <2>4, <3>1
  <2>7. MembersOnce'
    BY <2>3, <2>4 DEF ListInv, MembersOnce
  <2> QED
    BY <1>0, <2>5, <2>6, <2>7, SameClients DEF ListInv
<1> QED
    BY <1>1, <1>2

(* The client handle_close finds by its name is the slot's own: this is    *)
(* where unique names are needed.                                          *)
LEMMA ClosesItsOwn ==
    ASSUME TypeOK, ListInv, NEW s \in Slot, arg[s] # NULL
    PROVE  arg[s] \in ToSet(clients) /\ user_get_by_name(NameOf(s)) = arg[s]
<1>1. arg[s] \in ToSet(clients)
    BY DEF ListInv, ArgLive
<1>2. client[arg[s]].name = NameOf(s)
    BY DEF NameOf
<1> QED
    BY <1>1, <1>2, LookupUser DEF ListInv, UniqueNames

LEMMA CloseLists ==
    ASSUME TypeOK, ListInv, NEW s \in Slot, PeerClose(s)
    PROVE  ListInv'
<1>0. open' = open \ {s} /\ arg' = [arg EXCEPT ![s] = NULL]
    BY DEF PeerClose, eloop_reset_io
<1>1. \A t \in Slot : arg'[t] # NULL => t # s /\ arg'[t] = arg[t] /\ t \in open'
    BY <1>0 DEF TypeOK, ListInv, ArgLive
<1>2. CASE arg[s] = NULL
  <2>1. UNCHANGED <<clients, client, groups>>
    BY <1>2 DEF PeerClose
  <2>2. ArgLive' /\ UniqueNames'
    BY <1>1, <2>1 DEF ListInv, ArgLive, UniqueNames
  <2> QED
    BY <2>1, <2>2, SameGroups DEF ListInv
<1>3. CASE arg[s] # NULL
  <2> DEFINE n == NameOf(s)
             c == arg[s]
  <2>1. user_delete(n) /\ groups' = leave_all_group(n)
    BY <1>3 DEF PeerClose
  <2>2. c \in ToSet(clients) /\ user_get_by_name(n) = c /\ client[c].name = n
    BY <1>3, ClosesItsOwn DEF NameOf
  <2>3. /\ ToSet(clients') = ToSet(clients) \ {c}
        /\ \A d \in ToSet(clients') : client'[d] = client[d]
    BY <2>1, <2>2, DeleteType
  <2>4. client[c].io = s
    BY <1>3 DEF ListInv, ArgLive
  <2> HIDE DEF n, c
  <2>5. ArgLive'
    BY <1>1, <2>3, <2>4 DEF ListInv, ArgLive
  <2>6. UniqueNames'
    BY <2>3 DEF ListInv, UniqueNames
  <2>7. /\ DOMAIN groups' = DOMAIN groups
        /\ \A i \in DOMAIN groups :
              /\ groups'[i].name = groups[i].name
              /\ groups'[i].users = RemoveFirst(groups[i].users, n)
    <3>1. \A i \in DOMAIN groups : groups[i] \in GroupRec
        BY LenProperties DEF TypeOK
    <3>2. \A r \in GroupRec : \A w : /\ [r EXCEPT !.users = w].name = r.name
                                     /\ [r EXCEPT !.users = w].users = w
        BY DEF GroupRec
    <3>3. /\ DOMAIN groups' = DOMAIN groups
          /\ \A i \in DOMAIN groups :
                groups'[i] = [groups[i] EXCEPT !.users = RemoveFirst(groups[i].users, n)]
        BY <2>1, LeaveAllType
    <3>4. ASSUME NEW i \in DOMAIN groups
          PROVE  /\ groups'[i].name = groups[i].name
                 /\ groups'[i].users = RemoveFirst(groups[i].users, n)
      <4> DEFINE u == RemoveFirst(groups[i].users, n)
      <4>1. groups'[i] = [groups[i] EXCEPT !.users = u]
        BY <3>3
      <4>2. groups[i] \in GroupRec
        BY <3>1
      <4> HIDE DEF u
      <4>3. groups'[i].name = groups[i].name /\ groups'[i].users = u
        BY <4>1, <4>2, <3>2
      <4> QED
        BY <4>3 DEF u
    <3> QED
        BY <3>3, <3>4
  <2>8. \A i \in DOMAIN groups :
           /\ ToSet(groups'[i].users) = ToSet(groups[i].users) \ {n}
           /\ IsInjective(groups'[i].users)
    BY <2>7, Without
  <2>9. UniqueGroups' /\ MembersOnce'
    BY <2>7, <2>8 DEF ListInv, UniqueGroups, MembersOnce
  <2>10. MembersAreUsers'
    <3>1. {client[d].name : d \in ToSet(clients)} \ {n}
             \subseteq {client'[d].name : d \in ToSet(clients')}
        BY <2>2, <2>3
    <3>2. \A i \in DOMAIN groups :
             ToSet(groups[i].users) \subseteq {client[d].name : d \in ToSet(clients)}
        BY DEF ListInv, MembersAreUsers
    <3> QED
        BY <2>7, <2>8, <3>1, <3>2 DEF MembersAreUsers
  <2> QED
    BY <2>5, <2>6, <2>9, <2>10 DEF ListInv
<1> QED
    BY <1>2, <1>3

LEMMA ListStep == NamesFit /\ TypeOK /\ TypeOK' /\ ListInv /\ [Next]_vars => ListInv'
<1> SUFFICES ASSUME NamesFit, TypeOK, TypeOK', ListInv, [Next]_vars PROVE ListInv'
    OBVIOUS
<1> DEFINE Still == UNCHANGED <<open, arg, clients, client, groups>>
<1>0. ASSUME Still PROVE ListInv'
    BY <1>0, SameClients, SameGroups DEF ListInv
<1>1. CASE UNCHANGED vars
    BY <1>0, <1>1 DEF vars
<1>2. ASSUME NEW s \in Slot, Accept(s) PROVE ListInv'
  <2>1. arg' = arg
    BY <1>2 DEF Accept, TypeOK, ListInv, ArgLive
  <2>2. ArgLive' /\ UniqueNames'
    BY <1>2, <2>1 DEF Accept, ListInv, ArgLive, UniqueNames
  <2> QED
    BY <1>2, <2>2, SameGroups DEF Accept, ListInv
<1>3. ASSUME NEW s \in Slot, NEW n \in UserName, Login(s, n) PROVE ListInv'
    BY <1>3, LoginLists
<1>4. ASSUME NEW s \in Slot, NEW n \in UserName, PrivateMsg(s, n) PROVE ListInv'
    BY <1>0, <1>4 DEF PrivateMsg
<1>5. ASSUME NEW s \in Slot, NEW g \in GroupName, CreateGroup(s, g) PROVE ListInv'
    BY <1>5, CreateLists
<1>6. ASSUME NEW s \in Slot, NEW g \in GroupName, JoinGroup(s, g) PROVE ListInv'
    BY <1>6, JoinLists
<1>7. ASSUME NEW s \in Slot, NEW g \in GroupName, LeaveGroup(s, g) PROVE ListInv'
    BY <1>7, LeaveLists
<1>8. ASSUME NEW s \in Slot, NEW g \in GroupName, GroupMsg(s, g) PROVE ListInv'
    BY <1>0, <1>8 DEF GroupMsg
<1>9. ASSUME NEW s \in Slot, Heartbeat(s) PROVE ListInv'
    BY <1>0, <1>9 DEF Heartbeat
<1>10. ASSUME NEW s \in Slot, PeerClose(s) PROVE ListInv'
    BY <1>10, CloseLists
<1>11. ASSUME NEW s \in Slot, Overflow(s) PROVE ListInv'
  <2>1. \A t \in Slot : arg'[t] # NULL => t # s /\ arg'[t] = arg[t] /\ t \in open'
    BY <1>11 DEF Overflow, eloop_reset_io, TypeOK, ListInv, ArgLive
  <2>2. ArgLive' /\ UniqueNames'
    BY <1>11, <2>1 DEF Overflow, ListInv, ArgLive, UniqueNames
  <2> QED
    BY <1>11, <2>2, SameGroups DEF Overflow, ListInv
<1> QED
    BY <1>1, <1>2, <1>3, <1>4, <1>5, <1>6, <1>7, <1>8, <1>9, <1>10, <1>11 DEF Next

(* When names fit, the lists stay sound whatever programs do, logging in   *)
(* again and overflowing their buffers included: no io->arg dangles, no    *)
(* name is held twice, and a membership belongs to a registered user.      *)
THEOREM ListsSound == NamesFit => (Spec => []ListInv)
<1>1. ASSUME NamesFit PROVE TypeOK /\ ListInv /\ [Next]_vars => (TypeOK /\ ListInv)'
    BY <1>1, TypeStep, ListStep
<1>2. ASSUME NamesFit PROVE Spec => []ListInv
    BY <1>1, <1>2, TypeInit, ListInit, PTL DEF Spec
<1> QED
    BY <1>2

(* No handler reads a name through a pointer to a freed client, and        *)
(* handle_close frees the client of its own connection.                    *)
THEOREM ArgsLive == NamesFit => (Spec => []ArgLive)
<1>1. ListInv => ArgLive
    BY DEF ListInv
<1> QED
    BY <1>1, ListsSound, PTL

(* The check of _handle_login_request is enough to keep names unique. *)
THEOREM NamesUnique == NamesFit => (Spec => []UniqueNames)
<1>1. ListInv => UniqueNames
    BY DEF ListInv
<1> QED
    BY <1>1, ListsSound, PTL

(* A program that logs in starts as a member of nothing. *)
THEOREM MembersRegistered == NamesFit => (Spec => []MembersAreUsers)
<1>1. ListInv => MembersAreUsers
    BY DEF ListInv
<1> QED
    BY <1>1, ListsSound, PTL

(* The check of _handle_create_group is enough to keep groups unique. *)
THEOREM GroupsUnique == NamesFit => (Spec => []UniqueGroups)
<1>1. ListInv => UniqueGroups
    BY DEF ListInv
<1> QED
    BY <1>1, ListsSound, PTL

(* The search in join_group keeps a program from joining twice. *)
THEOREM JoinedOnce == NamesFit => (Spec => []MembersOnce)
<1>1. ListInv => MembersOnce
    BY DEF ListInv
<1> QED
    BY <1>1, ListsSound, PTL

-----------------------------------------------------------------------------
Inv == TypeOK /\ ListInv /\ BackPointers

-----------------------------------------------------------------------------
(* Registered users and connections point to each other *)

LEMMA BackInit == Init => BackPointers
BY DEF Init, BackPointers, ToSet

LEMMA BackStep == Deployed /\ Inv /\ [Next]_vars => BackPointers'
<1> SUFFICES ASSUME Deployed, Inv, [Next]_vars PROVE BackPointers'
    OBVIOUS
<1> USE DEF Inv
<1>a. \A c \in ToSet(clients) : client[c].io \in open /\ arg[client[c].io] = c
    BY DEF BackPointers
<1>b. ToSet(clients) \subseteq Cell /\ NULL \notin ToSet(clients)
    BY LenProperties, NullAssumption DEF TypeOK, ToSet
<1>c. \A c \in ToSet(clients) : client[c].io \in Slot
    BY DEF TypeOK
<1>0. ASSUME UNCHANGED <<open, arg, clients, client>> PROVE BackPointers'
    BY <1>0 DEF BackPointers
<1>1. CASE UNCHANGED vars
    BY <1>0, <1>1 DEF vars
<1>2. ASSUME NEW s \in Slot, Accept(s) PROVE BackPointers'
    BY <1>2, <1>a, <1>c DEF Accept, BackPointers, TypeOK, ListInv, ArgLive
<1>3. ASSUME NEW s \in Slot, NEW n \in UserName, Login(s, n) PROVE BackPointers'
  <2>1. CASE UNCHANGED <<arg, clients, client>>
    BY <1>0, <1>3, <2>1 DEF Login
  <2>2. ASSUME NEW c \in FreeCells,
               clients' = Append(clients, c),
               client' = [client EXCEPT ![c] = [name |-> Stored[n], io |-> s]],
               arg' = [arg EXCEPT ![s] = c]
        PROVE  BackPointers'
    <3>1. c \in Cell /\ c \notin ToSet(clients)
        BY DEF FreeCells
    <3>2. ToSet(clients') = ToSet(clients) \cup {c}
        BY <2>2, <3>1, AppendSet DEF TypeOK
    <3>3. client'[c].io = s /\ arg'[s] = c /\ s \in open' /\ open' = open
        BY <1>3, <2>2, <3>1 DEF TypeOK, Login
    <3>4. arg[s] = NULL
        BY <1>3 DEF Login, Deployed
    <3>5. ASSUME NEW d \in ToSet(clients)
          PROVE  client'[d].io \in open' /\ arg'[client'[d].io] = d
      <4>1. client'[d] = client[d]
        BY <1>b, <2>2, <3>1 DEF TypeOK
      <4>2. client[d].io # s
        BY <1>a, <1>b, <3>4
      <4> QED
        BY <1>a, <1>c, <2>2, <3>3, <4>1, <4>2 DEF TypeOK
    <3> QED
        BY <3>2, <3>3, <3>5 DEF BackPointers
  <2> QED
    BY <1>3, <2>1, <2>2 DEF Login
<1>4. ASSUME NEW s \in Slot, NEW n \in UserName, PrivateMsg(s, n) PROVE BackPointers'
    BY <1>0, <1>4 DEF PrivateMsg
<1>5. ASSUME NEW s \in Slot, NEW g \in GroupName, CreateGroup(s, g) PROVE BackPointers'
    BY <1>0, <1>5 DEF CreateGroup
<1>6. ASSUME NEW s \in Slot, NEW g \in GroupName, JoinGroup(s, g) PROVE BackPointers'
    BY <1>0, <1>6 DEF JoinGroup
<1>7. ASSUME NEW s \in Slot, NEW g \in GroupName, LeaveGroup(s, g) PROVE BackPointers'
    BY <1>0, <1>7 DEF LeaveGroup
<1>8. ASSUME NEW s \in Slot, NEW g \in GroupName, GroupMsg(s, g) PROVE BackPointers'
    BY <1>0, <1>8 DEF GroupMsg
<1>9. ASSUME NEW s \in Slot, Heartbeat(s) PROVE BackPointers'
    BY <1>0, <1>9 DEF Heartbeat
<1>10. ASSUME NEW s \in Slot, PeerClose(s) PROVE BackPointers'
  <2>1. open' = open \ {s} /\ arg' = [arg EXCEPT ![s] = NULL]
    BY <1>10 DEF PeerClose, eloop_reset_io
  <2>2. \A d \in ToSet(clients') : d \in ToSet(clients) /\ d # arg[s] /\ client'[d] = client[d]
    <3>1. CASE arg[s] = NULL
        BY <1>10, <1>b, <3>1 DEF PeerClose
    <3>2. CASE arg[s] # NULL
      <4>1. user_delete(NameOf(s)) /\ user_get_by_name(NameOf(s)) = arg[s]
        BY <1>10, <3>2, ClosesItsOwn DEF PeerClose
      <4> QED
        BY <4>1, DeleteType
    <3> QED
        BY <3>1, <3>2
  <2> QED
    BY <1>a, <1>c, <2>1, <2>2 DEF BackPointers, TypeOK
<1>11. ASSUME NEW s \in Slot, Overflow(s) PROVE BackPointers'
    BY <1>11 DEF Overflow, Deployed
<1> QED
    BY <1>1, <1>2, <1>3, <1>4, <1>5, <1>6, <1>7, <1>8, <1>9, <1>10, <1>11 DEF Next

LEMMA InvInit == Init => Inv
BY TypeInit, ListInit, BackInit DEF Inv

LEMMA InvStep == Deployed /\ Inv /\ [Next]_vars => Inv'
BY TypeStep, ListStep, BackStep DEF Inv, Deployed

(* When each connection logs in once, every registered user is the one the *)
(* connection it is sent to logged in as.                                  *)
THEOREM UsersAreConnected == Deployed => (Spec => []BackPointers)
<1>1. ASSUME Deployed PROVE Inv /\ [Next]_vars => Inv'
    BY <1>1, InvStep
<1>2. Inv => BackPointers
    BY DEF Inv
<1>3. ASSUME Deployed PROVE Spec => []BackPointers
    BY <1>1, <1>2, <1>3, InvInit, PTL DEF Spec
<1> QED
    BY <1>3

-----------------------------------------------------------------------------
(* What the lists say, in terms of connections *)

(* A name is found by user_get_by_name exactly when a connection holds it, *)
(* and the client found is that connection's.                              *)
LEMMA Holder ==
    ASSUME Inv, NEW u \in UserName
    PROVE  LET c == user_get_by_name(u) IN
           /\ c # NULL => c \in ToSet(clients) /\ client[c].io \in Slot
           /\ \A t \in Slot : Who[t] = u <=> c # NULL /\ t = client[c].io
<1> USE DEF Inv
<1> DEFINE c == user_get_by_name(u)
<1>1. NULL \notin ToSet(clients)
    BY LenProperties, NullAssumption DEF TypeOK, ToSet
<1>2. \/ c = NULL /\ \A d \in ToSet(clients) : client[d].name # u
      \/ c \in ToSet(clients) /\ client[c].name = u
    BY LookupUser
<1>3. \A d \in ToSet(clients) :
         client[d].io \in Slot /\ client[d].io \in open /\ arg[client[d].io] = d
    BY DEF TypeOK, BackPointers
<1>4. \A t \in Slot : arg[t] # NULL => arg[t] \in ToSet(clients) /\ client[arg[t]].io = t
    BY DEF ListInv, ArgLive
<1>5. u # NULL
    BY NullAssumption
<1>6. \A t \in Slot : Who[t] = IF arg[t] = NULL THEN NULL ELSE client[arg[t]].name
    BY DEF Who, NameOf
<1> HIDE DEF c
<1>7. ASSUME NEW t \in Slot, Who[t] = u PROVE c # NULL /\ t = client[c].io
  <2>1. arg[t] # NULL /\ client[arg[t]].name = u
    BY <1>5, <1>6, <1>7
  <2>2. arg[t] \in ToSet(clients) /\ client[arg[t]].io = t
    BY <1>4, <2>1
  <2>3. c \in ToSet(clients) /\ client[c].name = u
    BY <1>2, <2>1, <2>2
  <2>4. c = arg[t]
    BY <2>1, <2>2, <2>3 DEF ListInv, UniqueNames
  <2> QED
    BY <1>1, <2>2, <2>4
<1>8. ASSUME NEW t \in Slot, c # NULL, t = client[c].io PROVE Who[t] = u
    BY <1>1, <1>2, <1>3, <1>6, <1>8
<1>9. c # NULL => c \in ToSet(clients) /\ client[c].io \in Slot
    BY <1>2, <1>3
<1> QED
    BY <1>7, <1>8, <1>9 DEF c

(* A name's groups are those whose list search_group finds it in. *)
LEMMA GroupsOfIff ==
    ASSUME Inv, NEW n, NEW g
    PROVE  g \in GroupsOf(n) <=>
              search_group(g) # 0 /\ n \in ToSet(groups[search_group(g)].users)
<1> DEFINE i == search_group(g)
<1>1. \/ i = 0 /\ \A j \in DOMAIN groups : groups[j].name # g
      \/ i \in DOMAIN groups /\ i # 0 /\ groups[i].name = g
    BY LookupGroup DEF Inv
<1>2. g \in GroupsOf(n) <=>
         \E j \in DOMAIN groups : groups[j].name = g /\ n \in ToSet(groups[j].users)
    BY DEF GroupsOf
<1>3. \A j, k \in DOMAIN groups : groups[j].name = groups[k].name => j = k
    BY DEF Inv, ListInv, UniqueGroups
<1> QED
    BY <1>1, <1>2, <1>3

LEMMA GroupExists ==
    ASSUME Inv, NEW g
    PROVE  search_group(g) # 0 <=> g \in {groups[i].name : i \in DOMAIN groups}
<1>1. 0 \notin DOMAIN groups
    BY LenProperties DEF Inv, TypeOK
<1> QED
    BY <1>1, LookupGroup DEF Inv

(* A client is free as long as a connection has none. *)
LEMMA FreeCell ==
    ASSUME Inv, NEW s \in Slot, arg[s] = NULL
    PROVE  FreeCells # {}
<1> SUFFICES ASSUME FreeCells = {} PROVE FALSE
    OBVIOUS
<1> DEFINE f == [c \in Cell |-> client[c].io]
<1>1. ToSet(clients) = Cell
    BY LenProperties DEF FreeCells, Inv, TypeOK, ToSet
<1>2. \A c \in Cell : client[c].io \in Slot /\ arg[client[c].io] = c
    BY <1>1 DEF Inv, TypeOK, BackPointers
<1>3. f \in [Cell -> Slot \ {s}]
    BY <1>2, NullAssumption
<1>4. IsFiniteSet(Slot \ {s}) /\ Cardinality(Slot \ {s}) = Cardinality(Slot) - 1
    BY HeapAssumption, FS_RemoveElement
<1>5. Cardinality(Slot \ {s}) < Cardinality(Cell)
    BY <1>4, HeapAssumption, FS_CardinalityType
<1>6. \E x, y \in Cell : x # y /\ f[x] = f[y]
  <2> HIDE DEF f
  <2> QED
    BY <1>3, <1>4, <1>5, HeapAssumption, FS_PigeonHole
<1> QED
    BY <1>2, <1>6

-----------------------------------------------------------------------------
(* Steps of the daemon are steps of the bus *)

LEMMA SameView ==
    ASSUME UNCHANGED <<arg, client, groups>>
    PROVE  Who' = Who /\ Joined' = Joined
BY DEF Who, Joined, NameOf, GroupsOf

LEMMA InitRefines == Init => Bus!Init
<1> SUFFICES ASSUME Init PROVE Bus!Init
    OBVIOUS
<1>1. Who = [s \in Slot |-> NULL] /\ Joined = [s \in Slot |-> {}]
    BY DEF Init, Who, Joined
<1> QED
    BY <1>1 DEF Init, Bus!Init

LEMMA AcceptRefines ==
    ASSUME Inv, NEW s \in Slot, Accept(s)
    PROVE  Bus!Connect(s)
<1>1. arg' = arg
    BY DEF Accept, Inv, TypeOK, ListInv, ArgLive
<1> QED
    BY <1>1, SameView DEF Accept, Bus!Connect

LEMMA LoginRefines ==
    ASSUME Deployed, Inv, NEW s \in Slot, NEW n \in UserName, Login(s, n)
    PROVE  Bus!Login(s, n)
<1>0. s \in open /\ arg[s] = NULL /\ sent' = {} /\ open' = open /\ groups' = groups
    BY DEF Login, Deployed
<1>1. Who[s] = NULL /\ Joined[s] = {}
    BY <1>0 DEF Who, Joined
<1>2. user_get_by_name(n) # NULL <=> Bus!InUse(n)
    BY Holder DEF Bus!InUse
<1>3. FreeCells # {}
    BY <1>0, FreeCell
<1>4. CASE user_get_by_name(n) # NULL
  <2>1. UNCHANGED <<arg, clients, client>>
    BY <1>4 DEF Login
  <2> QED
    BY <1>0, <1>1, <1>2, <1>4, <2>1, SameView DEF Bus!Login, Bus!LoggedIn
<1>5. CASE user_get_by_name(n) = NULL
  <2>1. PICK c \in FreeCells :
           /\ clients' = Append(clients, c)
           /\ client' = [client EXCEPT ![c] = [name |-> Stored[n], io |-> s]]
           /\ arg' = [arg EXCEPT ![s] = c]
    BY <1>3, <1>5 DEF Login
  <2>2. c \in Cell /\ c \notin ToSet(clients) /\ c # NULL /\ Stored[n] = n
    BY NullAssumption DEF FreeCells, Deployed, NamesFit, Names
  <2>3. arg'[s] = c /\ client'[c].name = n
    BY <2>1, <2>2 DEF Inv, TypeOK
  <2>4. ASSUME NEW t \in Slot, t # s
        PROVE  arg'[t] = arg[t] /\ (arg[t] # NULL => client'[arg[t]] = client[arg[t]])
    BY <2>1, <2>2, <2>4 DEF Inv, TypeOK, ListInv, ArgLive
  <2>5. Who' = [Who EXCEPT ![s] = n]
    <3>1. \A t \in Slot : Who'[t] = IF t = s THEN n ELSE Who[t]
        BY <2>2, <2>3, <2>4 DEF Who, NameOf
    <3> QED
        BY <3>1 DEF Who
  <2>6. GroupsOf(n) = {}
    <3>1. n \notin {client[d].name : d \in ToSet(clients)}
        BY <1>5, LookupUser, NullAssumption, LenProperties DEF Inv, TypeOK, ToSet
    <3> QED
        BY <3>1 DEF GroupsOf, Inv, ListInv, MembersAreUsers
  <2>7. Joined' = Joined
    <3>1. \A m : GroupsOf(m)' = GroupsOf(m)
        BY <1>0 DEF GroupsOf
    <3>2. \A t \in Slot : Joined'[t] = Joined[t]
        BY <1>1, <2>2, <2>3, <2>4, <2>6, <3>1 DEF Joined, NameOf
    <3> QED
        BY <3>2 DEF Joined
  <2> QED
    BY <1>0, <1>1, <1>2, <1>5, <2>5, <2>7 DEF Bus!Login, Bus!LoggedIn
<1> QED
    BY <1>4, <1>5

LEMMA PrivateMsgRefines ==
    ASSUME Inv, NEW s \in Slot, NEW n \in UserName, PrivateMsg(s, n)
    PROVE  Bus!PrivateMsg(s, n)
<1> DEFINE peer == user_get_by_name(n)
<1>1. s \in open /\ UNCHANGED <<open, arg, clients, client, groups>>
    BY DEF PrivateMsg
<1>2. Who[s] # NULL <=> arg[s] # NULL
    BY NullAssumption DEF Who, NameOf, Inv, TypeOK, ListInv, ArgLive
<1>3. {t \in Slot : Who[t] = n} = IF peer = NULL THEN {} ELSE {client[peer].io}
    BY Holder
<1>4. {w.io : w \in sent'} = IF arg[s] = NULL \/ peer = NULL THEN {} ELSE {client[peer].io}
  <2>1. CASE arg[s] = NULL \/ peer = NULL
    <3>1. sent' = {}
        BY <2>1 DEF PrivateMsg
    <3> QED
        BY <2>1, <3>1
  <2>2. CASE ~(arg[s] = NULL \/ peer = NULL)
    <3> DEFINE io == client[peer].io
    <3>1. sent' = {[at |-> 1, io |-> io]}
        BY <2>2 DEF PrivateMsg
    <3> HIDE DEF io
    <3>2. {w.io : w \in sent'} = {io}
        BY <3>1
    <3> QED
        BY <2>2, <3>2 DEF io
  <2> QED
    BY <2>1, <2>2
<1> QED
    BY <1>1, <1>2, <1>3, <1>4, SameView DEF Bus!PrivateMsg, Bus!LoggedIn

(* The groups that list a name, in a given list of groups. *)
GroupsIn(gs, m) == {gs[i].name : i \in {j \in DOMAIN gs : m \in ToSet(gs[j].users)}}

(* The names and the member sets of the groups decide what the bus sees. *)
LEMMA ViewOfGroups ==
    ASSUME NEW gs, NEW hs, DOMAIN hs = DOMAIN gs,
           \A j \in DOMAIN gs : hs[j].name = gs[j].name,
           NEW m,
           \A j \in DOMAIN gs : m \in ToSet(hs[j].users) <=> m \in ToSet(gs[j].users)
    PROVE  GroupsIn(hs, m) = GroupsIn(gs, m)
BY DEF GroupsIn

LEMMA CreateRefines ==
    ASSUME Deployed, Inv, NEW s \in Slot, NEW g \in GroupName, CreateGroup(s, g)
    PROVE  Bus!CreateGroup(s, g)
<1> DEFINE G == {groups[i].name : i \in DOMAIN groups}
           n == Len(groups)
<1>1. s \in open /\ UNCHANGED <<open, arg, clients, client>> /\ sent' = {}
    BY DEF CreateGroup
<1>2. CASE search_group(g) # 0
  <2>1. groups' = groups /\ G \cup {g} = G
    BY <1>2, GroupExists DEF CreateGroup
  <2> QED
    BY <1>1, <2>1, SameView DEF Bus!CreateGroup
<1>3. CASE search_group(g) = 0
  <2> DEFINE r == [name |-> g, users |-> <<>>]
  <2>1. groups' = Append(groups, r)
    BY <1>3 DEF CreateGroup, group_create, Deployed, NamesFit, Names
  <2>2. r \in GroupRec /\ groups \in Seq(GroupRec)
    BY DEF Inv, TypeOK, GroupRec
  <2>3. r.name = g /\ ToSet(r.users) = {}
    BY DEF ToSet
  <2> HIDE DEF r
  <2>4. /\ DOMAIN groups = 1..n /\ n \in Nat
        /\ DOMAIN groups' = 1..n + 1
        /\ \A j \in 1..n : groups'[j] = groups[j]
        /\ groups'[n + 1] = r
    BY <2>1, <2>2, AppendProperties, LenProperties
  <2> HIDE DEF n
  <2>5. 1..n + 1 = 1..n \cup {n + 1}
    BY <2>4
  <2>6. {groups'[j].name : j \in DOMAIN groups'} = G \cup {g}
    BY <2>3, <2>4, <2>5
  <2>7. \A m : GroupsOf(m)' = GroupsOf(m)
    BY <2>3, <2>4, <2>5 DEF GroupsOf
  <2>8. Who' = Who /\ Joined' = Joined
    BY <1>1, <2>7 DEF Who, Joined, NameOf
  <2> QED
    BY <1>1, <2>6, <2>8 DEF Bus!CreateGroup
<1> QED
    BY <1>2, <1>3

LEMMA NamesOfConnections ==
    ASSUME Inv
    PROVE  /\ \A t \in Slot : arg[t] # NULL =>
                 /\ NameOf(t) \in UserName /\ Who[t] = NameOf(t)
                 /\ Joined[t] = GroupsOf(NameOf(t))
           /\ \A t \in Slot : arg[t] = NULL => Who[t] = NULL /\ Joined[t] = {}
           /\ \A t, u \in Slot : arg[t] # NULL /\ arg[u] # NULL /\ NameOf(t) = NameOf(u) => t = u
<1>1. \A t \in Slot : arg[t] # NULL => arg[t] \in ToSet(clients) /\ client[arg[t]].io = t
    BY DEF Inv, ListInv, ArgLive
<1>2. \A c \in ToSet(clients) : client[c].name \in UserName
    BY DEF Inv, TypeOK
<1>3. \A c, d \in ToSet(clients) : client[c].name = client[d].name => c = d
    BY DEF Inv, ListInv, UniqueNames
<1>4. \A t, u \in Slot : arg[t] # NULL /\ arg[u] # NULL /\ NameOf(t) = NameOf(u) => t = u
    BY <1>1, <1>3 DEF NameOf
<1> QED
    BY <1>1, <1>2, <1>4 DEF Who, Joined, NameOf

(* A connection's memberships change alone when no other name's do. *)
LEMMA JoinedBy ==
    ASSUME Inv, NEW s \in Slot, NEW n, n = NameOf(s), arg[s] # NULL,
           UNCHANGED <<arg, client>>,
           \A m : m # n => GroupsIn(groups', m) = GroupsIn(groups, m)
    PROVE  /\ Joined[s] = GroupsIn(groups, n)
           /\ Joined' = [Joined EXCEPT ![s] = GroupsIn(groups', n)]
<1>1. Joined = [t \in Slot |-> IF arg[t] = NULL THEN {} ELSE GroupsIn(groups, client[arg[t]].name)]
    BY DEF Joined, GroupsOf, GroupsIn, NameOf
<1>2. Joined' = [t \in Slot |-> IF arg[t] = NULL THEN {} ELSE GroupsIn(groups', client[arg[t]].name)]
    BY DEF Joined, GroupsOf, GroupsIn, NameOf
<1>3. \A t \in Slot : arg[t] # NULL /\ t # s => client[arg[t]].name # n
    BY NamesOfConnections DEF NameOf
<1>4. client[arg[s]].name = n
    BY DEF NameOf
<1>5. \A t \in Slot : Joined'[t] = IF t = s THEN GroupsIn(groups', n) ELSE Joined[t]
    BY <1>1, <1>2, <1>3, <1>4
<1> QED
    BY <1>1, <1>2, <1>4, <1>5

LEMMA JoinRefines ==
    ASSUME Inv, Inv', NEW s \in Slot, NEW g \in GroupName, JoinGroup(s, g)
    PROVE  Bus!JoinGroup(s, g)
<1> DEFINE n == NameOf(s)
           i == search_group(g)
<1>1. s \in open /\ UNCHANGED <<open, arg, clients, client>> /\ sent' = {}
    BY DEF JoinGroup
<1>2. Who' = Who
    BY <1>1 DEF Who, NameOf
<1>3. Bus!LoggedIn(s) <=> arg[s] # NULL
    BY NamesOfConnections, NullAssumption DEF Bus!LoggedIn
<1>4. g \in {groups[j].name : j \in DOMAIN groups} <=> i # 0
    BY GroupExists
<1>5. CASE arg[s] = NULL \/ i = 0
  <2>1. groups' = groups
    BY <1>5 DEF JoinGroup, join_group
  <2> QED
    BY <1>1, <1>3, <1>4, <1>5, <2>1, SameView DEF Bus!JoinGroup
<1>6. CASE arg[s] # NULL /\ i # 0 /\ n \in ToSet(groups[i].users)
  <2>1. groups' = groups
    BY <1>6 DEF JoinGroup, join_group
  <2>2. g \in Joined[s]
    BY <1>6, GroupsOfIff, NamesOfConnections
  <2>3. Joined = [Joined EXCEPT ![s] = @ \cup {g}]
    BY <2>2 DEF Joined
  <2> QED
    BY <1>1, <1>3, <1>4, <1>6, <2>1, <2>3, SameView DEF Bus!JoinGroup
<1>7. CASE arg[s] # NULL /\ i # 0 /\ n \notin ToSet(groups[i].users)
  <2>1. groups' = [groups EXCEPT ![i].users = Append(@, n)]
    BY <1>7 DEF JoinGroup, join_group
  <2>2. i \in DOMAIN groups /\ groups[i] \in GroupRec /\ groups[i].name = g
    BY <1>7, LookupGroup, LenProperties DEF Inv, TypeOK
  <2>3. n \in MaybeName
    BY <1>7, NameType DEF Inv
  <2> HIDE DEF n, i
  <2>4. /\ DOMAIN groups' = DOMAIN groups
        /\ \A j \in DOMAIN groups : j # i => groups'[j] = groups[j]
        /\ groups'[i].name = groups[i].name
        /\ groups'[i].users = Append(groups[i].users, n)
    BY <2>1, <2>2 DEF GroupRec
  <2>5. ToSet(groups'[i].users) = ToSet(groups[i].users) \cup {n}
    BY <2>2, <2>3, <2>4, AppendSet DEF GroupRec, MaybeName
  <2>6. \A j \in DOMAIN groups : groups'[j].name = groups[j].name
    BY <2>4
  <2>7. \A m : m # n => GroupsIn(groups', m) = GroupsIn(groups, m)
    <3> SUFFICES ASSUME NEW m, m # n PROVE GroupsIn(groups', m) = GroupsIn(groups, m)
        OBVIOUS
    <3>1. \A j \in DOMAIN groups :
             m \in ToSet(groups'[j].users) <=> m \in ToSet(groups[j].users)
        BY <2>4, <2>5
    <3> QED
        BY <2>4, <2>6, <3>1, ViewOfGroups
  <2>8. GroupsIn(groups', n) = GroupsIn(groups, n) \cup {g}
    BY <2>2, <2>4, <2>5, <2>6 DEF GroupsIn
  <2>9. Joined' = [Joined EXCEPT ![s] = @ \cup {g}]
    <3>1. /\ Joined[s] = GroupsIn(groups, n)
          /\ Joined' = [Joined EXCEPT ![s] = GroupsIn(groups', n)]
        BY <1>1, <1>7, <2>7, JoinedBy DEF n
    <3> QED
        BY <2>8, <3>1
  <2>10. {groups'[j].name : j \in DOMAIN groups'} = {groups[j].name : j \in DOMAIN groups}
    BY <2>4, <2>6
  <2> QED
    BY <1>1, <1>2, <1>3, <1>4, <1>7, <2>9, <2>10 DEF Bus!JoinGroup, i
<1> QED
    BY <1>5, <1>6, <1>7
LEMMA LeaveRefines ==
    ASSUME Inv, NEW s \in Slot, NEW g \in GroupName, LeaveGroup(s, g)
    PROVE  Bus!LeaveGroup(s, g)
<1> DEFINE n == NameOf(s)
           i == search_group(g)
<1>1. s \in open /\ UNCHANGED <<open, arg, clients, client>> /\ sent' = {}
    BY DEF LeaveGroup
<1>2. Who' = Who
    BY <1>1 DEF Who, NameOf
<1>3. CASE arg[s] = NULL
  <2>1. groups' = groups
    BY <1>3 DEF LeaveGroup
  <2>2. Joined = [Joined EXCEPT ![s] = @ \ {g}]
    BY <1>3 DEF Joined
  <2> QED
    BY <1>1, <2>1, <2>2, SameView DEF Bus!LeaveGroup
<1>4. CASE arg[s] # NULL /\ i = 0
  <2>1. groups' = groups
    BY <1>4 DEF LeaveGroup, leave_group_by_name
  <2>2. g \notin Joined[s]
    BY <1>4, GroupsOfIff, NamesOfConnections
  <2>3. Joined = [Joined EXCEPT ![s] = @ \ {g}]
    BY <2>2 DEF Joined
  <2> QED
    BY <1>1, <2>1, <2>3, SameView DEF Bus!LeaveGroup
<1>5. CASE arg[s] # NULL /\ i # 0
  <2>1. groups' = [groups EXCEPT ![i].users = RemoveFirst(@, n)]
    BY <1>5 DEF LeaveGroup, leave_group_by_name
  <2>2. i \in DOMAIN groups /\ groups[i] \in GroupRec /\ groups[i].name = g
    BY <1>5, LookupGroup, LenProperties DEF Inv, TypeOK
  <2>3. \A j \in DOMAIN groups : groups[j].name = g => j = i
    BY <2>2 DEF Inv, ListInv, UniqueGroups
  <2>4. ToSet(RemoveFirst(groups[i].users, n)) = ToSet(groups[i].users) \ {n}
    BY <2>2, RemoveFirstProperties DEF GroupRec, Inv, ListInv, MembersOnce
  <2> HIDE DEF n, i
  <2>5. /\ DOMAIN groups' = DOMAIN groups
        /\ \A j \in DOMAIN groups : j # i => groups'[j] = groups[j]
        /\ groups'[i].name = groups[i].name
        /\ groups'[i].users = RemoveFirst(groups[i].users, n)
    BY <2>1, <2>2 DEF GroupRec
  <2>6. \A j \in DOMAIN groups : groups'[j].name = groups[j].name
    BY <2>5
  <2>7. \A m : m # n => GroupsIn(groups', m) = GroupsIn(groups, m)
    <3> SUFFICES ASSUME NEW m, m # n PROVE GroupsIn(groups', m) = GroupsIn(groups, m)
        OBVIOUS
    <3>1. \A j \in DOMAIN groups :
             m \in ToSet(groups'[j].users) <=> m \in ToSet(groups[j].users)
        BY <2>4, <2>5
    <3> QED
        BY <2>5, <2>6, <3>1, ViewOfGroups
  <2>8. GroupsIn(groups', n) = GroupsIn(groups, n) \ {g}
    BY <2>2, <2>3, <2>4, <2>5, <2>6 DEF GroupsIn
  <2>9. Joined' = [Joined EXCEPT ![s] = @ \ {g}]
    <3>1. /\ Joined[s] = GroupsIn(groups, n)
          /\ Joined' = [Joined EXCEPT ![s] = GroupsIn(groups', n)]
        BY <1>1, <1>5, <2>7, JoinedBy DEF n
    <3> QED
        BY <2>8, <3>1
  <2>10. {groups'[j].name : j \in DOMAIN groups'} = {groups[j].name : j \in DOMAIN groups}
    BY <2>5, <2>6
  <2> QED
    BY <1>1, <1>2, <2>9, <2>10 DEF Bus!LeaveGroup
<1> QED
    BY <1>3, <1>4, <1>5

(* What forward_msg_in_group sends to: the other connections of the        *)
(* group's members.                                                        *)
LEMMA ForwardsToMembers ==
    ASSUME Inv, NEW s \in Slot, arg[s] # NULL, NEW g, search_group(g) # 0
    PROVE  {w.io : w \in forward_msg_in_group(search_group(g), NameOf(s))}
              = {t \in Slot \ {s} : g \in Joined[t]}
<1> DEFINE i == search_group(g)
           users == groups[i].users
           from == NameOf(s)
           To(k) == client[user_get_by_name(users[k])].io
           Gets(k) == users[k] # from /\ user_get_by_name(users[k]) # NULL
           L == {w.io : w \in forward_msg_in_group(i, from)}
           R == {t \in Slot \ {s} : g \in Joined[t]}
<1>0. L = {To(k) : k \in {k \in DOMAIN users : Gets(k)}}
  <2> DEFINE D == {k \in DOMAIN users : Gets(k)}
             W == {[at |-> k, io |-> To(k)] : k \in D}
  <2>1. forward_msg_in_group(i, from) = W
    BY DEF forward_msg_in_group
  <2> HIDE DEF To, D
  <2>2. \A k \in D : \E w \in W : w.io = To(k)
    <3> SUFFICES ASSUME NEW k \in D PROVE \E w \in W : w.io = To(k)
        OBVIOUS
    <3> WITNESS [at |-> k, io |-> To(k)] \in W
    <3> QED
        OBVIOUS
  <2>3. \A w \in W : \E k \in D : w.io = To(k)
    OBVIOUS
  <2>4. {w.io : w \in W} = {To(k) : k \in D}
    <3> HIDE DEF W
    <3> QED
        BY <2>2, <2>3
  <2> QED
    BY <2>1, <2>4 DEF D
<1>1. i \in DOMAIN groups /\ users \in Seq(UserName \cup {NULL})
  <2>1. i \in DOMAIN groups
    BY LookupGroup DEF Inv
  <2>2. groups[i] \in GroupRec
    BY <2>1, LenProperties DEF Inv, TypeOK
  <2> QED
    BY <2>1, <2>2 DEF GroupRec
<1>2. ToSet(users) = {users[k] : k \in DOMAIN users}
    BY <1>1, LenProperties DEF ToSet
<1>3. \A k \in DOMAIN users : users[k] \in UserName
  <2>1. ToSet(users) \subseteq {client[c].name : c \in ToSet(clients)}
    BY <1>1 DEF Inv, ListInv, MembersAreUsers
  <2>2. \A c \in ToSet(clients) : client[c].name \in UserName
    BY DEF Inv, TypeOK
  <2> QED
    BY <1>2, <2>1, <2>2
<1>4. \A n : g \in GroupsOf(n) <=> n \in ToSet(users)
    BY GroupsOfIff
<1>5. ASSUME NEW k \in DOMAIN users, Gets(k) PROVE To(k) \in R
  <2> DEFINE t == To(k)
  <2>1. t \in Slot /\ Who[t] = users[k]
    BY <1>3, <1>5, Holder
  <2>2. arg[t] # NULL /\ NameOf(t) = users[k]
    BY <1>3, <2>1, NamesOfConnections, NullAssumption
  <2>3. t # s
    BY <1>5, <2>2
  <2>4. g \in Joined[t]
    BY <1>2, <1>4, <2>1, <2>2, NamesOfConnections
  <2> QED
    BY <2>1, <2>3, <2>4
<1>6. ASSUME NEW t \in R PROVE \E k \in DOMAIN users : Gets(k) /\ To(k) = t
  <2>1. arg[t] # NULL
    BY NamesOfConnections
  <2>2. NameOf(t) \in UserName /\ Who[t] = NameOf(t) /\ g \in GroupsOf(NameOf(t))
    BY <2>1, NamesOfConnections
  <2>3. NameOf(t) # from
    BY <2>1, NamesOfConnections
  <2>4. PICK k \in DOMAIN users : users[k] = NameOf(t)
    BY <1>2, <1>4, <2>2
  <2>5. user_get_by_name(NameOf(t)) # NULL /\ client[user_get_by_name(NameOf(t))].io = t
    BY <2>2, Holder
  <2> QED
    BY <2>3, <2>4, <2>5
<1> HIDE DEF To, Gets, R, L
<1>7. L = R
    BY <1>0, <1>5, <1>6
<1> QED
    BY <1>7 DEF L, R

LEMMA GroupMsgRefines ==
    ASSUME Inv, NEW s \in Slot, NEW g \in GroupName, GroupMsg(s, g)
    PROVE  Bus!GroupMsg(s, g)
<1>1. s \in open /\ UNCHANGED <<open, arg, clients, client, groups>>
    BY DEF GroupMsg
<1>2. Bus!LoggedIn(s) <=> arg[s] # NULL
    BY NamesOfConnections, NullAssumption DEF Bus!LoggedIn
<1>3. g \in {groups[j].name : j \in DOMAIN groups} <=> search_group(g) # 0
    BY GroupExists
<1>4. CASE arg[s] = NULL \/ g = EmptyName \/ search_group(g) = 0
  <2>1. sent' = {}
    BY <1>4 DEF GroupMsg
  <2> QED
    BY <1>1, <1>2, <1>3, <1>4, <2>1, SameView DEF Bus!GroupMsg
<1>5. CASE ~(arg[s] = NULL \/ g = EmptyName \/ search_group(g) = 0)
  <2>1. sent' = forward_msg_in_group(search_group(g), NameOf(s))
    BY <1>5 DEF GroupMsg
  <2>2. {w.io : w \in sent'} = {t \in Slot \ {s} : g \in Joined[t]}
    BY <1>5, <2>1, ForwardsToMembers
  <2> QED
    BY <1>1, <1>2, <1>3, <1>5, <2>2, SameView DEF Bus!GroupMsg
<1> QED
    BY <1>4, <1>5

LEMMA HeartbeatRefines ==
    ASSUME NEW s \in Slot, Heartbeat(s)
    PROVE  Bus!Heartbeat(s)
<1>1. {w.io : w \in sent'} = {s}
    BY DEF Heartbeat
<1> QED
    BY <1>1, SameView DEF Heartbeat, Bus!Heartbeat
LEMMA CloseRefines ==
    ASSUME Inv, NEW s \in Slot, PeerClose(s)
    PROVE  Bus!Disconnect(s)
<1> DEFINE n == NameOf(s)
           c == arg[s]
<1>1. s \in open /\ open' = open \ {s} /\ arg' = [arg EXCEPT ![s] = NULL] /\ sent' = {}
    BY DEF PeerClose, eloop_reset_io
<1>2. CASE c = NULL
  <2>1. groups' = groups /\ client' = client /\ arg' = arg
    BY <1>1, <1>2 DEF PeerClose, Inv, TypeOK
  <2>2. Who[s] = NULL /\ Joined[s] = {}
    BY <1>2, NamesOfConnections
  <2>3. Who = [Who EXCEPT ![s] = NULL] /\ Joined = [Joined EXCEPT ![s] = {}]
    BY <2>2 DEF Who, Joined
  <2> QED
    BY <1>1, <2>1, <2>3, SameView DEF Bus!Disconnect
<1>3. CASE c # NULL
  <2>1. groups' = leave_all_group(n) /\ user_delete(n)
    BY <1>3 DEF PeerClose
  <2>2. c \in ToSet(clients) /\ user_get_by_name(n) = c
    BY <1>3, ClosesItsOwn DEF Inv
  <2>3. client' = [client EXCEPT ![c] = Freed]
    BY <1>3, <2>1, <2>2 DEF user_delete
  <2>4. ASSUME NEW t \in Slot, t # s, arg[t] # NULL
        PROVE  client'[arg[t]] = client[arg[t]] /\ client[arg[t]].name # n
    <3>1. client[arg[t]].name # client[c].name
        BY <1>3, <2>4, NamesOfConnections DEF NameOf
    <3>2. arg[t] \in Cell
        BY <2>4 DEF Inv, TypeOK
    <3> QED
        BY <2>3, <3>1, <3>2 DEF NameOf, Inv, TypeOK
  <2>5. /\ DOMAIN groups' = DOMAIN groups
        /\ \A j \in DOMAIN groups : groups[j] \in GroupRec
    BY <2>1, LenProperties DEF leave_all_group, Inv, TypeOK
  <2>6. \A j \in DOMAIN groups :
          /\ groups'[j].name = groups[j].name
          /\ groups'[j].users = RemoveFirst(groups[j].users, n)
    <3> HIDE DEF n
    <3> QED
        BY <2>1, <2>5 DEF leave_all_group, GroupRec
  <2>7. \A j \in DOMAIN groups : ToSet(groups'[j].users) = ToSet(groups[j].users) \ {n}
    <3> HIDE DEF n
    <3> QED
        BY <2>6, Without DEF Inv
  <2>8. ASSUME NEW m, m # n PROVE GroupsIn(groups', m) = GroupsIn(groups, m)
    <3> HIDE DEF n
    <3>1. \A j \in DOMAIN groups :
             m \in ToSet(groups'[j].users) <=> m \in ToSet(groups[j].users)
        BY <2>7, <2>8
    <3> QED
        BY <2>5, <2>6, <3>1, ViewOfGroups
  <2>9. Who' = [Who EXCEPT ![s] = NULL]
    <3>1. \A t \in Slot : Who'[t] = IF t = s THEN NULL ELSE Who[t]
        BY <1>1, <2>4 DEF Who, NameOf, Inv, TypeOK
    <3> QED
        BY <3>1 DEF Who
  <2>10. Joined' = [Joined EXCEPT ![s] = {}]
    <3>1. Joined = [t \in Slot |->
                       IF arg[t] = NULL THEN {} ELSE GroupsIn(groups, client[arg[t]].name)]
        BY DEF Joined, GroupsOf, GroupsIn, NameOf
    <3>2. Joined' = [t \in Slot |->
                       IF arg'[t] = NULL THEN {} ELSE GroupsIn(groups', client'[arg'[t]].name)]
        BY DEF Joined, GroupsOf, GroupsIn, NameOf
    <3>3. arg'[s] = NULL /\ \A t \in Slot : t # s => arg'[t] = arg[t]
        BY <1>1 DEF Inv, TypeOK
    <3>4. \A t \in Slot : Joined'[t] = IF t = s THEN {} ELSE Joined[t]
      <4> HIDE DEF n
      <4> QED
        BY <2>4, <2>8, <3>1, <3>2, <3>3
    <3> QED
        BY <3>1, <3>2, <3>4
  <2>11. {groups'[j].name : j \in DOMAIN groups'} = {groups[j].name : j \in DOMAIN groups}
    BY <2>5, <2>6
  <2> QED
    BY <1>1, <2>9, <2>10, <2>11 DEF Bus!Disconnect
<1> QED
    BY <1>2, <1>3

LEMMA StepRefines ==
    Deployed /\ Inv /\ Inv' /\ [Next]_vars =>
        [Bus!Next]_<<open, Who, {groups[i].name : i \in DOMAIN groups}, Joined, {w.io : w \in sent}>>
<1> SUFFICES ASSUME Deployed, Inv, Inv', [Next]_vars
             PROVE  Bus!Next \/ UNCHANGED <<open, Who, {groups[i].name : i \in DOMAIN groups},
                                             Joined, {w.io : w \in sent}>>
    OBVIOUS
<1>1. CASE UNCHANGED vars
    BY <1>1, SameView DEF vars
<1>2. ASSUME NEW s \in Slot, Accept(s) PROVE Bus!Next
    BY <1>2, AcceptRefines DEF Bus!Next
<1>3. ASSUME NEW s \in Slot, NEW n \in UserName, Login(s, n) PROVE Bus!Next
    BY <1>3, LoginRefines DEF Bus!Next
<1>4. ASSUME NEW s \in Slot, NEW n \in UserName, PrivateMsg(s, n) PROVE Bus!Next
    BY <1>4, PrivateMsgRefines DEF Bus!Next
<1>5. ASSUME NEW s \in Slot, NEW g \in GroupName, CreateGroup(s, g) PROVE Bus!Next
    BY <1>5, CreateRefines DEF Bus!Next
<1>6. ASSUME NEW s \in Slot, NEW g \in GroupName, JoinGroup(s, g) PROVE Bus!Next
    BY <1>6, JoinRefines DEF Bus!Next
<1>7. ASSUME NEW s \in Slot, NEW g \in GroupName, LeaveGroup(s, g) PROVE Bus!Next
    BY <1>7, LeaveRefines DEF Bus!Next
<1>8. ASSUME NEW s \in Slot, NEW g \in GroupName, GroupMsg(s, g) PROVE Bus!Next
    BY <1>8, GroupMsgRefines DEF Bus!Next
<1>9. ASSUME NEW s \in Slot, Heartbeat(s) PROVE Bus!Next
    BY <1>9, HeartbeatRefines DEF Bus!Next
<1>10. ASSUME NEW s \in Slot, PeerClose(s) PROVE Bus!Next
    BY <1>10, CloseRefines DEF Bus!Next
<1>11. ASSUME NEW s \in Slot, Overflow(s) PROVE FALSE
    BY <1>11 DEF Overflow, Deployed
<1> QED
    BY <1>1, <1>2, <1>3, <1>4, <1>5, <1>6, <1>7, <1>8, <1>9, <1>10, <1>11 DEF Next

(* When each connection logs in once, packets fit the receive buffer and   *)
(* names fit their fields, the daemon's pointers and name-keyed lists do   *)
(* for every set of connections, users and groups what MsgBus promises.    *)
THEOREM Refinement == Deployed => (Spec => ImplementsBus)
<1>1. ASSUME Deployed
      PROVE  Inv /\ [Next]_vars => Inv'
    BY <1>1, InvStep
<1>2. ASSUME Deployed
      PROVE  Inv /\ Inv' /\ [Next]_vars => [Bus!Next]_Bus!vars
    BY <1>2, StepRefines DEF Bus!vars
<1>3. ASSUME Deployed PROVE Spec => ImplementsBus
    BY <1>1, <1>2, <1>3, InvInit, InitRefines, PTL DEF Spec, ImplementsBus, Bus!Spec
<1> QED
    BY <1>3

-----------------------------------------------------------------------------
(* What the bus keeps true, and the daemon with it: names and memberships  *)
(* are those of the daemon's connections.                                  *)

BusInv == Bus!TypeOK /\ Bus!OneHolderPerName /\ Bus!MembersAreLoggedIn

LEMMA BusStart == Bus!Init => BusInv
  BY DEF Bus!Init, BusInv, Bus!TypeOK, Bus!OneHolderPerName, Bus!MembersAreLoggedIn, Bus!LoggedIn

LEMMA BusStep == BusInv /\ [Bus!Next]_Bus!vars => BusInv'
<1> SUFFICES ASSUME BusInv, [Bus!Next]_Bus!vars PROVE BusInv'
  OBVIOUS
<1> USE DEF BusInv, Bus!TypeOK, Bus!OneHolderPerName, Bus!MembersAreLoggedIn, Bus!LoggedIn
<1>1. ASSUME NEW s \in Slot, Bus!Connect(s) PROVE BusInv'
  BY <1>1 DEF Bus!Connect
<1>2. ASSUME NEW s \in Slot, NEW u \in UserName, Bus!Login(s, u) PROVE BusInv'
  <2>1. CASE Bus!InUse(u)
    BY <1>2, <2>1 DEF Bus!Login
  <2>2. CASE ~Bus!InUse(u)
    <3>1. /\ s \in open /\ ~Bus!LoggedIn(s)
          /\ Who' = [Who EXCEPT ![s] = u]
          /\ UNCHANGED <<open, {groups[i].name : i \in DOMAIN groups}, Joined>>
          /\ {w.io : w \in sent}' = {}
      BY <1>2, <2>2 DEF Bus!Login
    <3>2. \A t \in Slot : Who[t] # u
      BY <2>2 DEF Bus!InUse
    <3>3. Bus!TypeOK'
      BY <3>1
    <3>4. Bus!OneHolderPerName'
      BY <3>1, <3>2
    <3>5. Joined[s] = {}
      BY <3>1
    <3>6. Bus!MembersAreLoggedIn'
      BY <3>1, <3>5
    <3>. QED  BY <3>3, <3>4, <3>6
  <2>. QED  BY <2>1, <2>2
<1>3. ASSUME NEW s \in Slot, NEW g \in GroupName, Bus!CreateGroup(s, g) PROVE BusInv'
  BY <1>3 DEF Bus!CreateGroup
<1>4. ASSUME NEW s \in Slot, NEW g \in GroupName, Bus!JoinGroup(s, g) PROVE BusInv'
  BY <1>4 DEF Bus!JoinGroup
<1>5. ASSUME NEW s \in Slot, NEW g \in GroupName, Bus!LeaveGroup(s, g) PROVE BusInv'
  BY <1>5 DEF Bus!LeaveGroup
<1>6. ASSUME NEW s \in Slot, NEW g \in GroupName, Bus!GroupMsg(s, g) PROVE BusInv'
  BY <1>6 DEF Bus!GroupMsg
<1>7. ASSUME NEW s \in Slot, NEW u \in UserName, Bus!PrivateMsg(s, u) PROVE BusInv'
  BY <1>7 DEF Bus!PrivateMsg
<1>8. ASSUME NEW s \in Slot, Bus!Heartbeat(s) PROVE BusInv'
  BY <1>8 DEF Bus!Heartbeat
<1>9. ASSUME NEW s \in Slot, Bus!Disconnect(s) PROVE BusInv'
  BY <1>9 DEF Bus!Disconnect
<1>10. CASE UNCHANGED Bus!vars
  BY <1>10 DEF Bus!vars
<1>. QED
  BY <1>1, <1>2, <1>3, <1>4, <1>5, <1>6, <1>7, <1>8, <1>9, <1>10 DEF Bus!Next

(* A name is held by one connection at most, whatever programs connect,    *)
(* log in and leave: in the daemon, through its pointers and lists.        *)
THEOREM NamesHeldOnce == Deployed => (Spec => []Bus!OneHolderPerName)
<1>1. ASSUME Deployed PROVE Spec => []Bus!OneHolderPerName
    BY <1>1, BusStart, BusStep, Refinement, PTL DEF ImplementsBus, Bus!Spec, BusInv
<1> QED
    BY <1>1

(* A membership does not outlive its connection and is not inherited by    *)
(* the next one: in the daemon, which keeps memberships by name.           *)
THEOREM MembershipsEnd == Deployed => (Spec => []Bus!MembersAreLoggedIn)
<1>1. ASSUME Deployed PROVE Spec => []Bus!MembersAreLoggedIn
    BY <1>1, BusStart, BusStep, Refinement, PTL DEF ImplementsBus, Bus!Spec, BusInv
<1> QED
    BY <1>1

-----------------------------------------------------------------------------
(* No request makes the daemon write twice to a connection, or to one that *)
(* is gone.                                                                *)

(* A client found by name is reachable, and is found by no other name. *)
LEMMA FoundIsConnected ==
    ASSUME Inv, NEW n, user_get_by_name(n) # NULL
    PROVE  /\ client[user_get_by_name(n)].io \in open
           /\ arg[client[user_get_by_name(n)].io] = user_get_by_name(n)
           /\ client[user_get_by_name(n)].name = n
BY LookupUser DEF Inv, BackPointers

LEMMA ForwardsOneCopy ==
    ASSUME Inv, NEW i \in DOMAIN groups, NEW from
    PROVE  /\ \A v, w \in forward_msg_in_group(i, from) : v.io = w.io => v = w
           /\ \A w \in forward_msg_in_group(i, from) : w.io \in open
<1> DEFINE users == groups[i].users
           To(k) == client[user_get_by_name(users[k])].io
           D == {k \in DOMAIN users : users[k] # from /\ user_get_by_name(users[k]) # NULL}
<1>1. forward_msg_in_group(i, from) = {[at |-> k, io |-> To(k)] : k \in D}
    BY DEF forward_msg_in_group
<1>2. \A k, l \in DOMAIN users : users[k] = users[l] => k = l
    BY DEF Inv, ListInv, MembersOnce, IsInjective
<1>3. \A k \in D : To(k) \in open /\ arg[To(k)] = user_get_by_name(users[k])
                   /\ client[user_get_by_name(users[k])].name = users[k]
    BY FoundIsConnected
<1>4. ASSUME NEW k \in D, NEW l \in D, To(k) = To(l) PROVE k = l
    BY <1>2, <1>3, <1>4
<1> HIDE DEF To, D
<1>5. ASSUME NEW v \in {[at |-> k, io |-> To(k)] : k \in D},
             NEW w \in {[at |-> k, io |-> To(k)] : k \in D}, v.io = w.io
      PROVE  v = w
  <2>1. PICK k \in D : v = [at |-> k, io |-> To(k)]
    OBVIOUS
  <2>2. PICK l \in D : w = [at |-> l, io |-> To(l)]
    OBVIOUS
  <2> QED
    BY <1>4, <1>5, <2>1, <2>2
<1>6. ASSUME NEW w \in {[at |-> k, io |-> To(k)] : k \in D} PROVE w.io \in open
    BY <1>3, <1>6
<1> QED
    BY <1>1, <1>5, <1>6

LEMMA OneCopyStep == Inv /\ OneCopyEach /\ [Next]_vars => OneCopyEach'
<1> SUFFICES ASSUME Inv, OneCopyEach, [Next]_vars PROVE OneCopyEach'
    OBVIOUS
<1>0. ASSUME sent' = {} PROVE OneCopyEach'
    BY <1>0 DEF OneCopyEach
<1>1. CASE UNCHANGED vars
    BY <1>1 DEF OneCopyEach, vars
<1>2. ASSUME NEW s \in Slot, Accept(s) PROVE OneCopyEach'
    BY <1>0, <1>2 DEF Accept
<1>3. ASSUME NEW s \in Slot, NEW n \in UserName, Login(s, n) PROVE OneCopyEach'
    BY <1>0, <1>3 DEF Login
<1>4. ASSUME NEW s \in Slot, NEW n \in UserName, PrivateMsg(s, n) PROVE OneCopyEach'
  <2>1. CASE sent' = {}
    BY <1>0, <2>1
  <2>2. CASE sent' # {}
    <3>1. user_get_by_name(n) # NULL
          /\ sent' = {[at |-> 1, io |-> client[user_get_by_name(n)].io]} /\ open' = open
      BY <1>4, <2>2 DEF PrivateMsg
    <3> QED
      BY <3>1, FoundIsConnected DEF OneCopyEach
  <2> QED
    BY <2>1, <2>2
<1>5. ASSUME NEW s \in Slot, NEW g \in GroupName, CreateGroup(s, g) PROVE OneCopyEach'
    BY <1>0, <1>5 DEF CreateGroup
<1>6. ASSUME NEW s \in Slot, NEW g \in GroupName, JoinGroup(s, g) PROVE OneCopyEach'
    BY <1>0, <1>6 DEF JoinGroup
<1>7. ASSUME NEW s \in Slot, NEW g \in GroupName, LeaveGroup(s, g) PROVE OneCopyEach'
    BY <1>0, <1>7 DEF LeaveGroup
<1>8. ASSUME NEW s \in Slot, NEW g \in GroupName, GroupMsg(s, g) PROVE OneCopyEach'
  <2>1. CASE sent' = {}
    BY <1>0, <2>1
  <2>2. CASE sent' # {}
    <3>1. /\ sent' = forward_msg_in_group(search_group(g), NameOf(s))
          /\ search_group(g) # 0 /\ open' = open
      BY <1>8, <2>2 DEF GroupMsg
    <3>2. search_group(g) \in DOMAIN groups
      BY <3>1, LookupGroup DEF Inv
    <3> QED
      BY <3>1, <3>2, ForwardsOneCopy DEF OneCopyEach
  <2> QED
    BY <2>1, <2>2
<1>9. ASSUME NEW s \in Slot, Heartbeat(s) PROVE OneCopyEach'
    BY <1>9 DEF Heartbeat, OneCopyEach
<1>10. ASSUME NEW s \in Slot, PeerClose(s) PROVE OneCopyEach'
    BY <1>0, <1>10 DEF PeerClose
<1>11. ASSUME NEW s \in Slot, Overflow(s) PROVE OneCopyEach'
    BY <1>0, <1>11 DEF Overflow
<1> QED
    BY <1>1, <1>2, <1>3, <1>4, <1>5, <1>6, <1>7, <1>8, <1>9, <1>10, <1>11 DEF Next

(* When each connection logs in once, packets fit and names fit, no        *)
(* request makes more than one io_write on a connection, and none on a     *)
(* connection that is closed, however many are in a group.                 *)
THEOREM DeliveredOnce == Deployed => (Spec => []OneCopyEach)
<1>1. ASSUME Deployed
      PROVE  Inv /\ OneCopyEach /\ [Next]_vars => Inv' /\ OneCopyEach'
    BY <1>1, InvStep, OneCopyStep
<1>2. Init => OneCopyEach
    BY DEF Init, OneCopyEach
<1>3. ASSUME Deployed PROVE Spec => []OneCopyEach
    BY <1>1, <1>2, <1>3, InvInit, PTL DEF Spec
<1> QED
    BY <1>3
=============================================================================
