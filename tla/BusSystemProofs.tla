-------------------------- MODULE BusSystemProofs ---------------------------
(***************************************************************************)
(* Proofs about the bus with its programs, for any number of programs and  *)
(* connections: a program logs in once, is granted a name that is free, is *)
(* in the groups it asked for when its requests have been handled, and     *)
(* gets what others publish there; only slow readers can end the daemon.   *)
(***************************************************************************)
EXTENDS BusSystem, SequenceTheorems, TLAPS

(* What the timer of p sends when p was started with the options o, and    *)
(* the groups it asks for.                                                 *)
SentBy(p, o) == IF p \in Member THEN mesh_obj_create_timer_cb ELSE msg_timer_callback(o)

AsksFor(p, o) ==
    {g \in Group : \E k \in DOMAIN SentBy(p, o) : SentBy(p, o)[k] = mbus_join_group(g)}

(* The program at the connection is there and asks for the group. *)
Wants(s, g) ==
    owner[s] # Nobody /\ ~Ghost(s) /\ g \in AsksFor(owner[s], options[owner[s]])

(* No join is handled before the group exists. *)
CreatesFirst(s, g) ==
    \A j \in DOMAIN pipe[s] :
        pipe[s][j] = mbus_join_group(g) =>
            g \in groups
              \/ \E i \in DOMAIN pipe[s] : i < j /\ pipe[s][i] = mbus_create_group(g)

(* Behind a login come the joins, unless the program ended in between. *)
JoinsLater(s, g) ==
    Wants(s, g) => \A j \in DOMAIN pipe[s] :
        pipe[s][j] = mbus_register_object =>
            \E k \in DOMAIN pipe[s] : j < k /\ pipe[s][k] = mbus_join_group(g)

JoinedAt(s, g) ==
    Wants(s, g) /\ who[s] # Nobody /\ ~Requested(s, mbus_join_group(g)) => g \in joined[s]

(* A connection that is nobody's has nothing left of an earlier one. *)
CleanWhenFree(s) ==
    /\ owner[s] = Nobody => s \notin open /\ pipe[s] = <<>>
    /\ who[s] # Nobody \/ joined[s] # {} => s \in open

Orderly(s) ==
    /\ CleanWhenFree(s)
    /\ \A g \in Group : CreatesFirst(s, g) /\ JoinsLater(s, g) /\ JoinedAt(s, g)

GroupInv == \A s \in Conn : Orderly(s)

(* A queue for a program that has ended was there when it ended. *)
QueueInv ==
    /\ \A s \in queued : Ghost(s) => slow
    /\ OutlivesQuickReaders

-----------------------------------------------------------------------------

LEMMA Requests ==
    /\ \A g : mbus_register_object # mbus_create_group(g)
    /\ \A g : mbus_register_object # mbus_join_group(g)
    /\ \A g, h : mbus_create_group(g) # mbus_join_group(h)
    /\ \A g, h : mbus_join_group(g) = mbus_join_group(h) => g = h
    /\ \A m \in Message : m # mbus_register_object
    /\ \A m \in Message : \A g : m # mbus_create_group(g) /\ m # mbus_join_group(g)
BY DEF mbus_register_object, mbus_create_group, mbus_join_group, Message,
       mbus_sendmsg_in_group, mbus_sendmsg_private

(* A sequence of requests with its login first and every join right behind *)
(* the creation of its group.                                              *)
WellOrdered(r) ==
    /\ r \in Seq(Request)
    /\ \A k \in DOMAIN r : r[k] = mbus_register_object => k = 1
    /\ \A g \in Group : \A k \in DOMAIN r :
          r[k] = mbus_join_group(g) => k - 1 \in DOMAIN r /\ r[k - 1] = mbus_create_group(g)

LEMMA AgentOrdered == WellOrdered(mesh_obj_create_timer_cb)
PROOF
<1>. PICK r : r = mesh_obj_create_timer_cb
  OBVIOUS
<1>1. Mesh \in Group
  BY BusSystemAssumption DEF BusSystemAssumption
<1>2. /\ mbus_register_object \in Request /\ mbus_create_group(Mesh) \in Request
      /\ mbus_join_group(Mesh) \in Request
  BY <1>1 DEF Request
<1>3. /\ r \in Seq(Request) /\ DOMAIN r = 1..3
      /\ r[1] = mbus_register_object
      /\ r[2] = mbus_create_group(Mesh) /\ r[3] = mbus_join_group(Mesh)
  BY <1>2 DEF mesh_obj_create_timer_cb
<1>4. \A k \in 1..3 : k = 1 \/ k = 2 \/ k = 3
  OBVIOUS
<1>5. \A k \in 1..3 : r[k] = mbus_register_object => k = 1
  BY <1>3, <1>4, Requests
<1>6. ASSUME NEW g \in Group, NEW k \in 1..3, r[k] = mbus_join_group(g)
      PROVE  k - 1 \in 1..3 /\ r[k - 1] = mbus_create_group(g)
  <2>1. k = 3
    BY <1>3, <1>4, <1>6, Requests
  <2>2. g = Mesh
    BY <1>3, <1>6, <2>1, Requests
  <2>3. k - 1 = 2 /\ 2 \in 1..3
    BY <2>1
  <2>. QED
    BY <1>3, <2>2, <2>3
<1>. QED
  BY <1>3, <1>5, <1>6 DEF WellOrdered

(* A sequence without a login or a join may follow. *)
LEMMA OrderedConcat ==
    ASSUME NEW q, NEW r, WellOrdered(q), WellOrdered(r), q # <<>>,
           \A k \in DOMAIN r : r[k] # mbus_register_object
    PROVE  WellOrdered(q \o r)
PROOF
<1>. DEFINE v == q \o r
<1>1. q \in Seq(Request) /\ r \in Seq(Request)
  BY DEF WellOrdered
<1>2. PICK n \in Nat, l \in Nat : n = Len(q) /\ l = Len(r)
  BY <1>1
<1>3. /\ v \in Seq(Request) /\ DOMAIN v = 1..(n + l) /\ DOMAIN q = 1..n /\ DOMAIN r = 1..l
      /\ \A i \in 1..(n + l) : v[i] = IF i <= n THEN q[i] ELSE r[i - n]
  BY <1>1, <1>2, ConcatProperties
<1>. HIDE DEF v
<1>4. ASSUME NEW k \in 1..(n + l), v[k] = mbus_register_object PROVE k = 1
  <2>1. CASE k <= n
    BY <1>3, <1>4, <2>1 DEF WellOrdered
  <2>2. CASE ~(k <= n)
    <3>1. k - n \in 1..l
      BY <2>2
    <3>2. v[k] = r[k - n]
      BY <1>3, <2>2
    <3>. QED
      BY <1>3, <1>4, <3>1, <3>2
  <2>. QED
    BY <2>1, <2>2
<1>5. ASSUME NEW g \in Group, NEW k \in 1..(n + l), v[k] = mbus_join_group(g)
      PROVE  k - 1 \in 1..(n + l) /\ v[k - 1] = mbus_create_group(g)
  <2>1. CASE k <= n
    <3>1. k \in 1..n /\ q[k] = mbus_join_group(g)
      BY <1>3, <1>5, <2>1
    <3>2. k - 1 \in 1..n /\ q[k - 1] = mbus_create_group(g)
      BY <1>3, <3>1 DEF WellOrdered
    <3>3. k - 1 \in 1..(n + l) /\ k - 1 <= n
      BY <3>2
    <3>. QED
      BY <1>3, <3>2, <3>3
  <2>2. CASE ~(k <= n)
    <3>. PICK i \in 1..l : i = k - n
      BY <2>2
    <3>1. r[i] = mbus_join_group(g)
      BY <1>3, <1>5, <2>2
    <3>2. i - 1 \in 1..l /\ r[i - 1] = mbus_create_group(g)
      BY <1>3, <3>1 DEF WellOrdered
    <3>3. k - 1 \in 1..(n + l) /\ ~(k - 1 <= n) /\ (k - 1) - n = i - 1
      BY <3>2
    <3>. QED
      BY <1>3, <3>2, <3>3
  <2>. QED
    BY <2>1, <2>2
<1>6. WellOrdered(v)
  BY <1>3, <1>4, <1>5 DEF WellOrdered
<1>. QED
  BY <1>6 DEF v

LEMMA OrderedEmpty == WellOrdered(<<>>)
BY DEF WellOrdered

LEMMA OrderedOne ==
    ASSUME NEW m \in Request, m = mbus_register_object \/ m \in Message
    PROVE  WellOrdered(<<m>>)
PROOF
<1>. PICK r : r = <<m>>
  OBVIOUS
<1>1. r \in Seq(Request) /\ DOMAIN r = {1} /\ r[1] = m
  OBVIOUS
<1>2. \A g : m # mbus_join_group(g)
  BY Requests
<1>. QED
  BY <1>1, <1>2 DEF WellOrdered

LEMMA ToGroupOrdered ==
    ASSUME NEW o \in Options
    PROVE  /\ WellOrdered(ToGroup(o))
           /\ \A k \in DOMAIN ToGroup(o) : ToGroup(o)[k] # mbus_register_object
PROOF
<1>1. CASE ~(o.g # NotGiven /\ o.m)
  BY <1>1, OrderedEmpty DEF ToGroup
<1>2. CASE o.g # NotGiven /\ o.m
  <2>. PICK r : r = ToGroup(o)
    OBVIOUS
  <2>. PICK h \in Group : h = o.g
    BY <1>2 DEF Options
  <2>1. r = <<mbus_create_group(h), mbus_join_group(h), mbus_sendmsg_in_group(h)>>
    BY <1>2 DEF ToGroup
  <2>2. /\ mbus_create_group(h) \in Request /\ mbus_join_group(h) \in Request
        /\ mbus_sendmsg_in_group(h) \in Request /\ mbus_sendmsg_in_group(h) \in Message
    BY DEF Request, Message
  <2>3. /\ r \in Seq(Request) /\ DOMAIN r = 1..3
        /\ r[1] = mbus_create_group(h) /\ r[2] = mbus_join_group(h)
        /\ r[3] = mbus_sendmsg_in_group(h)
    BY <2>1, <2>2
  <2>4. \A k \in 1..3 : k = 1 \/ k = 2 \/ k = 3
    OBVIOUS
  <2>5. \A k \in 1..3 : r[k] # mbus_register_object
    BY <2>2, <2>3, <2>4, Requests
  <2>6. ASSUME NEW g \in Group, NEW k \in 1..3, r[k] = mbus_join_group(g)
        PROVE  k - 1 \in 1..3 /\ r[k - 1] = mbus_create_group(g)
    <3>1. k = 2
      BY <2>2, <2>3, <2>4, <2>6, Requests
    <3>2. g = h
      BY <2>3, <2>6, <3>1, Requests
    <3>3. k - 1 = 1 /\ 1 \in 1..3
      BY <3>1
    <3>. QED
      BY <2>3, <3>2, <3>3
  <2>7. WellOrdered(r)
    BY <2>3, <2>5, <2>6 DEF WellOrdered
  <2>. QED
    BY <2>3, <2>5, <2>7
<1>. QED
  BY <1>1, <1>2

LEMMA ToPeerOrdered ==
    ASSUME NEW o \in Options
    PROVE  /\ WellOrdered(ToPeer(o))
           /\ \A k \in DOMAIN ToPeer(o) : ToPeer(o)[k] # mbus_register_object
PROOF
<1>1. CASE ~(o.p # NotGiven /\ o.m)
  BY <1>1, OrderedEmpty DEF ToPeer
<1>2. CASE o.p # NotGiven /\ o.m
  <2>. PICK u \in User : u = o.p
    BY <1>2 DEF Options
  <2>. PICK m : m = mbus_sendmsg_private(u)
    OBVIOUS
  <2>1. ToPeer(o) = <<m>>
    BY <1>2 DEF ToPeer
  <2>2. m \in Message /\ m \in Request
    BY DEF Request, Message
  <2>3. WellOrdered(<<m>>)
    BY <2>2, OrderedOne
  <2>4. m # mbus_register_object
    BY <2>2, Requests
  <2>5. DOMAIN <<m>> = {1} /\ <<m>>[1] = m
    OBVIOUS
  <2>. QED
    BY <2>1, <2>3, <2>4, <2>5
<1>. QED
  BY <1>1, <1>2

LEMMA SentOrdered ==
    ASSUME NEW p, NEW o \in Options
    PROVE  WellOrdered(SentBy(p, o))
PROOF
<1>1. CASE p \in Member
  BY <1>1, AgentOrdered DEF SentBy
<1>2. CASE p \notin Member /\ ~(o.u /\ (o.g # NotGiven \/ o.p # NotGiven))
  BY <1>2, OrderedEmpty DEF SentBy, msg_timer_callback
<1>3. CASE p \notin Member /\ o.u /\ (o.g # NotGiven \/ o.p # NotGiven)
  <2>. PICK a, b, c : a = <<mbus_register_object>> /\ b = ToGroup(o) /\ c = ToPeer(o)
    OBVIOUS
  <2>1. SentBy(p, o) = (a \o b) \o c
    BY <1>3 DEF SentBy, msg_timer_callback
  <2>2. WellOrdered(a) /\ a # <<>> /\ Len(a) = 1
    <3>1. mbus_register_object \in Request
      BY DEF Request
    <3>. QED
      BY <3>1, OrderedOne
  <2>3. WellOrdered(b) /\ \A k \in DOMAIN b : b[k] # mbus_register_object
    BY ToGroupOrdered
  <2>4. WellOrdered(c) /\ \A k \in DOMAIN c : c[k] # mbus_register_object
    BY ToPeerOrdered
  <2>5. WellOrdered(a \o b)
    BY <2>2, <2>3, OrderedConcat
  <2>6. a \o b # <<>>
    <3>1. a \in Seq(Request) /\ b \in Seq(Request)
      BY <2>2, <2>3 DEF WellOrdered
    <3>2. Len(a \o b) = 1 + Len(b) /\ Len(b) \in Nat
      BY <2>2, <3>1
    <3>. QED
      BY <3>2
  <2>7. WellOrdered((a \o b) \o c)
    BY <2>4, <2>5, <2>6, OrderedConcat
  <2>. QED
    BY <2>1, <2>7
<1>. QED
  BY <1>1, <1>2, <1>3

LEMMA RegistrationOrdered ==
    ASSUME TypeOK, NEW p \in Program
    PROVE  /\ WellOrdered(Registration(p))
           /\ Registration(p) = SentBy(p, options[p])
           /\ Joins(p) = AsksFor(p, options[p])
PROOF
<1>1. options[p] \in Options
  BY DEF TypeOK
<1>2. Registration(p) = SentBy(p, options[p])
  BY DEF Registration, SentBy
<1>3. Joins(p) = AsksFor(p, options[p])
  BY <1>2 DEF Joins, AsksFor
<1>. QED
  BY <1>1, <1>2, <1>3, SentOrdered

LEMMA WantsPrimed ==
    ASSUME NEW s \in Conn, NEW g \in Group
    PROVE  Wants(s, g)' <=>
               owner'[s] # Nobody /\ ~Ghost(s)' /\ g \in AsksFor(owner'[s], options'[owner'[s]])
BY DEF Wants, AsksFor, SentBy, mesh_obj_create_timer_cb, msg_timer_callback, ToGroup, ToPeer,
       mbus_register_object, mbus_create_group, mbus_join_group, mbus_sendmsg_in_group,
       mbus_sendmsg_private

(* A program that stays asks for what it asked before. *)
LEMMA WantsKept ==
    ASSUME NEW t \in Conn, owner'[t] = owner[t], Ghost(t) => Ghost(t)',
           owner[t] # Nobody /\ ~Ghost(t)' => options'[owner[t]] = options[owner[t]]
    PROVE  \A g \in Group : Wants(t, g)' => Wants(t, g)
PROOF
<1>1. ASSUME NEW g \in Group, Wants(t, g)' PROVE Wants(t, g)
  <2>1. owner'[t] # Nobody /\ ~Ghost(t)' /\ g \in AsksFor(owner'[t], options'[owner'[t]])
    BY <1>1, WantsPrimed
  <2>2. options'[owner'[t]] = options[owner[t]]
    BY <2>1
  <2>3. g \in AsksFor(owner[t], options[owner[t]])
    BY <2>1, <2>2
  <2>. QED
    BY <2>1, <2>3 DEF Wants
<1>. QED
  BY <1>1

(* v is the n requests u with the l requests r behind them. *)
Behind(u, r, v, n, l) ==
    /\ DOMAIN u = 1..n /\ DOMAIN r = 1..l /\ DOMAIN v = 1..(n + l)
    /\ \A i \in 1..n : i \in 1..(n + l) /\ v[i] = u[i]
    /\ \A k \in 1..l : n + k \in 1..(n + l) /\ v[n + k] = r[k]
    /\ \A j \in 1..(n + l) : j \in 1..n \/ \E k \in 1..l : j = n + k

LEMMA Appended ==
    ASSUME NEW u \in Seq(Request), NEW r \in Seq(Request), NEW v, v = u \o r
    PROVE  \E n \in Nat, l \in Nat : Behind(u, r, v, n, l)
PROOF
<1>1. PICK n \in Nat, l \in Nat : n = Len(u) /\ l = Len(r)
  OBVIOUS
<1>2. /\ DOMAIN v = 1..(n + l) /\ DOMAIN u = 1..n /\ DOMAIN r = 1..l
      /\ \A i \in 1..(n + l) : v[i] = IF i <= n THEN u[i] ELSE r[i - n]
  BY <1>1, ConcatProperties
<1>3. \A i \in 1..n : i \in 1..(n + l) /\ i <= n
  OBVIOUS
<1>4. \A k \in 1..l : n + k \in 1..(n + l) /\ ~(n + k <= n) /\ (n + k) - n = k
  OBVIOUS
<1>5. ASSUME NEW j \in 1..(n + l) PROVE j \in 1..n \/ \E k \in 1..l : j = n + k
  <2>1. CASE j <= n
    BY <2>1
  <2>2. CASE ~(j <= n)
    <3>1. j - n \in 1..l /\ j = n + (j - n)
      BY <2>2
    <3>. QED
      BY <3>1
  <2>. QED
    BY <2>1, <2>2
<1>6. \A i \in 1..n : i \in 1..(n + l) /\ v[i] = u[i]
  BY <1>2, <1>3
<1>7. \A k \in 1..l : n + k \in 1..(n + l) /\ v[n + k] = r[k]
  BY <1>2, <1>4
<1>8. Behind(u, r, v, n, l)
  BY <1>2, <1>5, <1>6, <1>7 DEF Behind
<1>. QED
  BY <1>8

(* What the daemon does with a request changes its own state only. *)
LEMMA HandledType ==
    ASSUME BusSystemAssumption, TypeOK, NEW s \in Conn, NEW m \in Request,
           s \in open, handle_msg(s, m)
    PROVE  Bus!TypeOK' /\ open' = open
PROOF
<1>1. name[owner[s]] \in User
  BY DEF BusSystemAssumption, TypeOK
<1>2. CASE Bus!Login(s, name[owner[s]])
  BY <1>1, <1>2 DEF TypeOK, Bus!TypeOK, Bus!Login, Bus!InUse
<1>3. ASSUME NEW g \in Group, Bus!CreateGroup(s, g) PROVE Bus!TypeOK' /\ open' = open
  BY <1>3 DEF TypeOK, Bus!TypeOK, Bus!CreateGroup
<1>4. ASSUME NEW g \in Group, Bus!JoinGroup(s, g) PROVE Bus!TypeOK' /\ open' = open
  <2>1. joined' = joined \/ joined' = [joined EXCEPT ![s] = @ \cup {g}]
    BY <1>4 DEF Bus!JoinGroup
  <2>2. joined \in [Conn -> SUBSET Group]
    BY DEF TypeOK, Bus!TypeOK
  <2>3. joined' \in [Conn -> SUBSET Group]
    BY <2>1, <2>2
  <2>. QED
    BY <1>4, <2>3 DEF TypeOK, Bus!TypeOK, Bus!JoinGroup
<1>5. ASSUME NEW g \in Group, Bus!GroupMsg(s, g) PROVE Bus!TypeOK' /\ open' = open
  BY <1>5 DEF TypeOK, Bus!TypeOK, Bus!GroupMsg
<1>6. ASSUME NEW u \in User, Bus!PrivateMsg(s, u) PROVE Bus!TypeOK' /\ open' = open
  BY <1>6 DEF TypeOK, Bus!TypeOK, Bus!PrivateMsg
<1>. QED
  BY <1>2, <1>3, <1>4, <1>5, <1>6 DEF handle_msg

(* A message is delivered to connections that are open: they have a name,  *)
(* or memberships, which only open ones have.                              *)
LEMMA MessagesGoToOpen ==
    ASSUME BusSystemAssumption, TypeOK, GroupInv, NEW s \in open, NEW m, handle_msg(s, m)
    PROVE  delivered' \subseteq open
PROOF
<1>1. \A t \in Conn : who[t] # Nobody \/ joined[t] # {} => t \in open
  BY DEF GroupInv, Orderly, CleanWhenFree
<1>2. ASSUME NEW g \in Group, Bus!GroupMsg(s, g)
      PROVE  delivered' \subseteq open
  BY <1>1, <1>2 DEF Bus!GroupMsg
<1>3. ASSUME NEW u \in User, Bus!PrivateMsg(s, u)
      PROVE  delivered' \subseteq open
  BY <1>1, <1>3 DEF Bus!PrivateMsg, BusSystemAssumption
<1>4. CASE delivered' = {}
  BY <1>4
<1>. QED
  BY <1>2, <1>3, <1>4 DEF handle_msg, Bus!Login, Bus!CreateGroup, Bus!JoinGroup

LEMMA InitType ==
    ASSUME BusSystemAssumption, Init
    PROVE  TypeOK
PROOF
<1>1. Bus!TypeOK
  BY DEF Init, Bus!Init, Bus!TypeOK
<1>2. pipe \in [Conn -> Seq(Request)] /\ options \in [Program -> Options]
  BY DEF Init, NoOptions, Options
<1>3. /\ link \in [Program -> Conn \cup {NoConn}]
      /\ owner \in [Conn -> Program \cup {Nobody}]
      /\ \A p \in Program : link[p] # NoConn => p \in running /\ owner[link[p]] = p
  BY DEF Init
<1>4. /\ daemon \in {"up", "broken", "killed"} /\ queued \subseteq open
      /\ running \subseteq Program /\ armed \subseteq running /\ slow \in BOOLEAN
      /\ \A s \in open : owner[s] # Nobody
  BY DEF Init, Bus!Init
<1>. QED
  BY <1>1, <1>2, <1>3, <1>4 DEF TypeOK

LEMMA StartType ==
    ASSUME BusSystemAssumption, TypeOK, NEW p \in Program, Start(p)
    PROVE  TypeOK'
PROOF
<1>1. options' \in [Program -> Options]
  <2>1. CommandLine \subseteq Options /\ options \in [Program -> Options]
    BY DEF BusSystemAssumption, TypeOK
  <2>2. options' = options \/ \E o \in CommandLine : options' = [options EXCEPT ![p] = o]
    BY DEF Start
  <2>. QED
    BY <2>1, <2>2
<1>2. /\ UNCHANGED <<bus, daemon, queued, pipe, slow>> /\ p \notin running
      /\ running' = running \cup {p} /\ armed' = armed \cup {p}
  BY DEF Start
<1>3. PICK s \in Conn : /\ owner[s] = Nobody
                        /\ owner' = [owner EXCEPT ![s] = p]
                        /\ link' = [link EXCEPT ![p] = s]
  BY DEF Start
<1>4. /\ link' \in [Program -> Conn \cup {NoConn}]
      /\ owner' \in [Conn -> Program \cup {Nobody}]
  BY <1>3 DEF TypeOK
<1>5. ASSUME NEW q \in Program, link'[q] # NoConn PROVE q \in running' /\ owner'[link'[q]] = q
  <2>1. CASE q = p
    BY <1>2, <1>3, <2>1 DEF TypeOK
  <2>2. CASE q # p
    <3>1. link'[q] = link[q] /\ q \in running /\ owner[link[q]] = q
      BY <1>3, <1>5, <2>2 DEF TypeOK
    <3>2. link[q] # s
      BY <1>3, <3>1 DEF BusSystemAssumption
    <3>. QED
      BY <1>2, <1>3, <1>5, <3>1, <3>2 DEF TypeOK
  <2>. QED
    BY <2>1, <2>2
<1>6. \A t \in open : owner'[t] # Nobody
  BY <1>3 DEF TypeOK, Bus!TypeOK, BusSystemAssumption
<1>. QED
  BY <1>1, <1>2, <1>4, <1>5, <1>6 DEF TypeOK, Bus!TypeOK, bus

LEMMA RegisterType ==
    ASSUME BusSystemAssumption, TypeOK, NEW p \in Program, Register(p)
    PROVE  TypeOK'
PROOF
<1>1. pipe' \in [Conn -> Seq(Request)]
  <2>1. CASE link[p] = NoConn
    BY <2>1 DEF Register, TypeOK
  <2>2. CASE link[p] # NoConn
    <3>1. link[p] \in Conn /\ pipe[link[p]] \in Seq(Request)
      BY <2>2 DEF TypeOK
    <3>2. Registration(p) \in Seq(Request)
      BY RegistrationOrdered DEF WellOrdered
    <3>3. pipe[link[p]] \o Registration(p) \in Seq(Request)
      BY <3>1, <3>2
    <3>. QED
      BY <2>2, <3>1, <3>3 DEF Register, TypeOK
  <2>. QED
    BY <2>1, <2>2
<1>. QED
  BY <1>1 DEF TypeOK, Bus!TypeOK, Register, bus

LEMMA PublishType ==
    ASSUME BusSystemAssumption, TypeOK, NEW p \in Program, NEW m \in Message, Publish(p, m)
    PROVE  TypeOK'
PROOF
<1>1. link[p] \in Conn /\ pipe[link[p]] \in Seq(Request) /\ m \in Request
  BY DEF Publish, TypeOK, Request
<1>2. pipe' \in [Conn -> Seq(Request)]
  BY <1>1 DEF Publish, TypeOK
<1>. QED
  BY <1>2 DEF TypeOK, Bus!TypeOK, Publish, bus, programs

LEMMA EndType ==
    ASSUME BusSystemAssumption, TypeOK, NEW p \in Program, End(p)
    PROVE  TypeOK'
PROOF
<1>1. pipe' \in [Conn -> Seq(Request)] /\ slow' \in BOOLEAN
  <2>1. CASE link[p] = NoConn
    BY <2>1 DEF End, TypeOK
  <2>2. CASE link[p] # NoConn
    <3>1. link[p] \in Conn /\ pipe[link[p]] \in Seq(Request)
      BY <2>2 DEF TypeOK
    <3>2. PICK n \in 0..Len(pipe[link[p]]) :
              pipe' = [pipe EXCEPT ![link[p]] = SubSeq(@, 1, n)]
      BY <2>2 DEF End
    <3>3. SubSeq(pipe[link[p]], 1, n) \in Seq(Request)
      BY <3>1
    <3>. QED
      BY <2>2, <3>1, <3>2, <3>3 DEF End, TypeOK
  <2>. QED
    BY <2>1, <2>2
<1>2. /\ link' = [link EXCEPT ![p] = NoConn]
      /\ running' = running \ {p} /\ armed' = armed \ {p}
      /\ options' = [options EXCEPT ![p] = NoOptions]
      /\ UNCHANGED <<bus, daemon, queued, owner>>
  BY DEF End
<1>3. link' \in [Program -> Conn \cup {NoConn}]
  BY <1>2 DEF TypeOK
<1>4. \A q \in Program : link'[q] # NoConn => q \in running' /\ owner'[link'[q]] = q
  BY <1>2 DEF TypeOK
<1>5. options' \in [Program -> Options]
  <2>1. NoOptions \in Options
    BY DEF NoOptions, Options
  <2>. QED
    BY <1>2, <2>1 DEF TypeOK
<1>. QED
  BY <1>1, <1>2, <1>3, <1>4, <1>5 DEF TypeOK, Bus!TypeOK, bus

LEMMA AcceptType ==
    ASSUME BusSystemAssumption, TypeOK, NEW s \in Conn, handle_accept(s)
    PROVE  TypeOK'
BY DEF TypeOK, Bus!TypeOK, handle_accept, Bus!Connect, programs

LEMMA ReadType ==
    ASSUME BusSystemAssumption, TypeOK, NEW s \in Conn, handle_read(s), GroupInv
    PROVE  TypeOK'
PROOF
<1>1. pipe[s] \in Seq(Request) /\ pipe[s] # <<>> /\ s \in open /\ handle_msg(s, Head(pipe[s]))
  BY DEF handle_read, TypeOK
<1>2. Head(pipe[s]) \in Request /\ Tail(pipe[s]) \in Seq(Request)
  BY <1>1
<1>3. Bus!TypeOK' /\ open' = open
  BY <1>1, <1>2, HandledType
<1>4. pipe' \in [Conn -> Seq(Request)]
  BY <1>2 DEF handle_read, TypeOK
<1>5. queued' \subseteq open'
  <2>1. PICK full \in SUBSET {t \in delivered' : ~Ghost(t)} : queued' = queued \cup full
    BY DEF handle_read
  <2>2. delivered' \subseteq open
    BY <1>1, MessagesGoToOpen
  <2>. QED
    BY <1>3, <2>1, <2>2 DEF TypeOK
<1>. QED
  BY <1>3, <1>4, <1>5 DEF TypeOK, handle_read, programs

LEMMA EndsType ==
    ASSUME BusSystemAssumption, TypeOK, NEW how \in {"broken", "killed"}, Ends(how)
    PROVE  TypeOK'
BY DEF BusSystemAssumption, TypeOK, Bus!TypeOK, Ends

LEMMA CloseType ==
    ASSUME BusSystemAssumption, TypeOK, NEW s \in Conn, handle_close(s)
    PROVE  TypeOK'
PROOF
<1>1. \A p \in Program : link[p] # s
  BY DEF TypeOK, handle_close, Ghost
<1>2. /\ open' = open \ {s} /\ who' = [who EXCEPT ![s] = Nobody]
      /\ joined' = [joined EXCEPT ![s] = {}] /\ delivered' = {} /\ groups' = groups
      /\ owner' = [owner EXCEPT ![s] = Nobody] /\ queued' = queued \ {s}
      /\ UNCHANGED <<daemon, running, options, armed, link, pipe, slow>>
  BY DEF handle_close, Bus!Disconnect
<1>3. \A p \in Program : link'[p] # NoConn => p \in running' /\ owner'[link'[p]] = p
  BY <1>1, <1>2 DEF TypeOK
<1>4. joined' \in [Conn -> SUBSET Group]
  BY <1>2 DEF TypeOK, Bus!TypeOK
<1>. QED
  BY <1>2, <1>3, <1>4 DEF TypeOK, Bus!TypeOK

LEMMA WriteType ==
    ASSUME BusSystemAssumption, TypeOK, NEW s \in Conn, handle_write(s)
    PROVE  TypeOK'
PROOF
<1>1. CASE queued' = queued \ {s} /\ UNCHANGED <<bus, daemon, programs, pipe, slow>>
  BY <1>1 DEF TypeOK, Bus!TypeOK, bus, programs
<1>2. CASE Ends("broken")
  BY <1>2, EndsType
<1>. QED
  BY <1>1, <1>2 DEF handle_write

-----------------------------------------------------------------------------

(* A connection that a step leaves alone stays orderly, also when its      *)
(* program ends.                                                           *)
LEMMA Untouched ==
    ASSUME NEW t \in Conn, Orderly(t),
           pipe'[t] = pipe[t], who'[t] = who[t], joined'[t] = joined[t], owner'[t] = owner[t],
           t \in open' <=> t \in open, groups \subseteq groups',
           Ghost(t) => Ghost(t)',
           owner[t] # Nobody /\ ~Ghost(t)' => options'[owner[t]] = options[owner[t]]
    PROVE  Orderly(t)'
PROOF
<1>1. CleanWhenFree(t)'
  BY DEF Orderly, CleanWhenFree
<1>2. ASSUME NEW g \in Group PROVE CreatesFirst(t, g)'
  BY DEF Orderly, CreatesFirst, mbus_create_group, mbus_join_group
<1>3. ASSUME NEW g \in Group PROVE JoinsLater(t, g)'
  <2>1. Wants(t, g)' => Wants(t, g)
    BY WantsKept
  <2>2. Wants(t, g) => \A j \in DOMAIN pipe[t] :
          pipe[t][j] = mbus_register_object =>
              \E k \in DOMAIN pipe[t] : j < k /\ pipe[t][k] = mbus_join_group(g)
    BY DEF Orderly, JoinsLater
  <2>. QED
    BY <2>1, <2>2 DEF JoinsLater, mbus_join_group, mbus_register_object
<1>4. ASSUME NEW g \in Group PROVE JoinedAt(t, g)'
  <2>1. Wants(t, g)' => Wants(t, g)
    BY WantsKept
  <2>2. Requested(t, mbus_join_group(g))' <=> Requested(t, mbus_join_group(g))
    BY DEF Requested, mbus_join_group
  <2>. QED
    BY <2>1, <2>2 DEF Orderly, JoinedAt
<1>. QED
  BY <1>1, <1>2, <1>3, <1>4 DEF Orderly

LEMMA StartOrderly ==
    ASSUME BusSystemAssumption, TypeOK, GroupInv, NEW p \in Program, Start(p)
    PROVE  GroupInv'
PROOF
<1>1. PICK s \in Conn : /\ owner[s] = Nobody
                        /\ owner' = [owner EXCEPT ![s] = p]
                        /\ link' = [link EXCEPT ![p] = s]
  BY DEF Start
<1>2. UNCHANGED <<open, who, groups, joined, pipe>> /\ p # Nobody
  BY DEF Start, bus, BusSystemAssumption
<1>3. Orderly(s) /\ pipe[s] = <<>> /\ who[s] = Nobody /\ joined[s] = {} /\ s \notin open
  BY <1>1 DEF GroupInv, Orderly, CleanWhenFree
<1>4. Orderly(s)'
  <2>1. pipe'[s] = <<>> /\ who'[s] = Nobody /\ joined'[s] = {} /\ owner'[s] = p
    BY <1>1, <1>2, <1>3 DEF TypeOK
  <2>. QED
    BY <1>2, <2>1 DEF Orderly, CreatesFirst, JoinsLater, JoinedAt, CleanWhenFree
<1>5. ASSUME NEW t \in Conn \ {s} PROVE Orderly(t)'
  <2>1. owner'[t] = owner[t] /\ (Ghost(t) => Ghost(t)')
    BY <1>1, <1>5 DEF TypeOK, Ghost
  <2>2. owner[t] # Nobody /\ ~Ghost(t)' => owner[t] \in Program \ {p}
    <3>1. link'[p] = s
      BY <1>1 DEF TypeOK
    <3>. QED
      BY <1>5, <2>1, <3>1 DEF TypeOK, Ghost
  <2>3. \A q \in Program \ {p} : options'[q] = options[q]
    BY DEF Start, TypeOK
  <2>. QED
    BY <1>2, <2>1, <2>2, <2>3, Untouched DEF GroupInv
<1>. QED
  BY <1>4, <1>5 DEF GroupInv

LEMMA RegisterOrderly ==
    ASSUME BusSystemAssumption, TypeOK, GroupInv, NEW p \in Program, Register(p)
    PROVE  GroupInv'
PROOF
<1>1. UNCHANGED <<open, who, groups, joined, link, owner, options>>
  BY DEF Register, bus
<1>2. \A t \in Conn : Ghost(t)' <=> Ghost(t)
  BY <1>1 DEF Ghost
<1>3. ASSUME NEW t \in Conn, t # link[p] PROVE Orderly(t)'
  <2>1. pipe'[t] = pipe[t]
    BY <1>3 DEF Register, TypeOK
  <2>. QED
    BY <1>1, <1>2, <2>1, Untouched DEF GroupInv
<1>4. ASSUME NEW s \in Conn, link[p] = s PROVE Orderly(s)'
  <2>. PICK r : r = Registration(p)
    OBVIOUS
  <2>1. pipe[s] \in Seq(Request) /\ owner[s] = p /\ p # Nobody
    BY <1>4 DEF TypeOK, BusSystemAssumption
  <2>2. pipe'[s] = pipe[s] \o r
    BY <1>4, <2>1 DEF Register, TypeOK, BusSystemAssumption
  <2>3. WellOrdered(r) /\ r = SentBy(p, options[p]) /\ r \in Seq(Request)
    BY RegistrationOrdered DEF WellOrdered
  <2>. PICK u, v : u = pipe[s] /\ v = pipe'[s]
    OBVIOUS
  <2>4. v = u \o r /\ u \in Seq(Request)
    BY <2>1, <2>2
  <2>. PICK n \in Nat, l \in Nat : Behind(u, r, v, n, l)
    BY <2>3, <2>4, Appended
  <2>5. /\ DOMAIN u = 1..n /\ DOMAIN r = 1..l /\ DOMAIN v = 1..(n + l)
        /\ \A i \in 1..n : i \in 1..(n + l) /\ v[i] = u[i]
        /\ \A k \in 1..l : n + k \in 1..(n + l) /\ v[n + k] = r[k]
        /\ \A j \in 1..(n + l) : j \in 1..n \/ \E k \in 1..l : j = n + k
    BY DEF Behind
  <2>6. Orderly(s)
    BY DEF GroupInv
  <2>7. ASSUME NEW g \in Group PROVE CreatesFirst(s, g)'
    <3>0. \A j \in 1..n : u[j] = mbus_join_group(g) =>
              \/ g \in groups
              \/ \E i \in 1..n : i < j /\ u[i] = mbus_create_group(g)
      <4>1. CreatesFirst(s, g) /\ u = pipe[s] /\ DOMAIN u = 1..n
        BY <2>5, <2>6 DEF Orderly
      <4>. QED
        BY <4>1 DEF CreatesFirst
    <3>1. ASSUME NEW j \in 1..(n + l), v[j] = mbus_join_group(g)
          PROVE  \/ g \in groups'
                 \/ \E i \in 1..(n + l) : i < j /\ v[i] = mbus_create_group(g)
      <4>1. CASE j \in 1..n
        <5>1. g \in groups \/ \E i \in 1..n : i < j /\ u[i] = mbus_create_group(g)
          BY <2>5, <3>0, <3>1, <4>1
        <5>. QED
          BY <1>1, <2>5, <5>1
      <4>2. ASSUME NEW k \in 1..l, j = n + k
            PROVE  \E i \in 1..(n + l) : i < j /\ v[i] = mbus_create_group(g)
        <5>1. r[k] = mbus_join_group(g)
          BY <2>5, <3>1, <4>2
        <5>2. k - 1 \in 1..l /\ r[k - 1] = mbus_create_group(g)
          BY <2>3, <2>5, <5>1 DEF WellOrdered
        <5>3. n + (k - 1) \in 1..(n + l) /\ v[n + (k - 1)] = mbus_create_group(g)
          BY <2>5, <5>2
        <5>4. n + (k - 1) < j
          BY <4>2
        <5>. QED
          BY <5>3, <5>4
      <4>. QED
        BY <2>5, <4>1, <4>2
    <3>. QED
      BY <2>5, <3>1 DEF CreatesFirst, mbus_join_group, mbus_create_group
  <2>8. ASSUME NEW g \in Group, Wants(s, g)'
        PROVE  \E k \in 1..l : 1 < k /\ r[k] = mbus_join_group(g)
    <3>1. Wants(s, g)
      BY <1>1, <1>2, <2>8, WantsKept
    <3>2. PICK k \in 1..l : r[k] = mbus_join_group(g)
      BY <2>1, <2>3, <2>5, <3>1 DEF Wants, AsksFor
    <3>3. k - 1 \in 1..l
      BY <2>3, <2>5, <3>2 DEF WellOrdered
    <3>4. 1 < k
      BY <3>3
    <3>. QED
      BY <3>2, <3>4
  <2>9. ASSUME NEW g \in Group PROVE JoinsLater(s, g)'
    <3>1. ASSUME NEW j \in 1..(n + l), v[j] = mbus_register_object, Wants(s, g)'
          PROVE  \E k \in 1..(n + l) : j < k /\ v[k] = mbus_join_group(g)
      <4>1. PICK k \in 1..l : 1 < k /\ r[k] = mbus_join_group(g)
        BY <2>8, <3>1
      <4>2. n + k \in 1..(n + l) /\ v[n + k] = mbus_join_group(g)
        BY <2>5, <4>1
      <4>3. CASE j \in 1..n
        <5>1. j < n + k
          BY <4>3
        <5>. QED
          BY <4>2, <5>1
      <4>4. ASSUME NEW i \in 1..l, j = n + i PROVE j < n + k
        <5>1. r[i] = mbus_register_object
          BY <2>5, <3>1, <4>4
        <5>2. i = 1
          BY <2>3, <2>5, <5>1 DEF WellOrdered
        <5>. QED
          BY <4>1, <4>4, <5>2
      <4>. QED
        BY <2>5, <4>2, <4>3, <4>4
    <3>. QED
      BY <2>5, <3>1 DEF JoinsLater, mbus_join_group, mbus_register_object
  <2>10. ASSUME NEW g \in Group PROVE JoinedAt(s, g)'
    <3>1. ASSUME Wants(s, g)' PROVE Requested(s, mbus_join_group(g))'
      <4>1. PICK k \in 1..l : r[k] = mbus_join_group(g)
        BY <2>8, <3>1
      <4>2. n + k \in DOMAIN v /\ v[n + k] = mbus_join_group(g)
        BY <2>5, <4>1
      <4>. QED
        BY <4>2 DEF Requested, mbus_join_group
    <3>. QED
      BY <3>1 DEF JoinedAt
  <2>11. CleanWhenFree(s)'
    BY <1>1, <2>1, <2>6 DEF Orderly, CleanWhenFree, BusSystemAssumption
  <2>. QED
    BY <2>7, <2>9, <2>10, <2>11 DEF Orderly
<1>. QED
  BY <1>3, <1>4 DEF GroupInv

LEMMA PublishOrderly ==
    ASSUME BusSystemAssumption, TypeOK, GroupInv, NEW p \in Program, NEW m \in Message, Publish(p, m)
    PROVE  GroupInv'
PROOF
<1>1. UNCHANGED <<open, who, groups, joined, link, owner, options>>
  BY DEF Publish, bus, programs
<1>2. \A t \in Conn : Ghost(t)' <=> Ghost(t)
  BY <1>1 DEF Ghost
<1>. PICK s \in Conn : s = link[p]
  BY DEF TypeOK, Publish
<1>3. pipe[s] \in Seq(Request) /\ owner[s] = p
  BY DEF TypeOK, Publish
<1>. PICK n \in Nat : n = Len(pipe[s])
  BY <1>3
<1>4. ASSUME NEW t \in Conn \ {s} PROVE Orderly(t)'
  <2>1. pipe'[t] = pipe[t]
    BY <1>4 DEF Publish, TypeOK
  <2>. QED
    BY <1>1, <1>2, <2>1, Untouched DEF GroupInv
<1>5. pipe'[s] = Append(pipe[s], m) /\ m \in Request
  BY <1>3 DEF Publish, TypeOK, Request
<1>6. /\ DOMAIN pipe'[s] = 1..(n + 1) /\ n \in Nat
      /\ DOMAIN pipe[s] = 1..n
      /\ \A i \in 1..n : pipe'[s][i] = pipe[s][i]
      /\ pipe'[s][n + 1] = m
  BY <1>3, <1>5
<1>7. Orderly(s)
  BY <1>3 DEF GroupInv
<1>8. ASSUME NEW g \in Group PROVE CreatesFirst(s, g)'
  <2>0. \A j \in 1..n : pipe[s][j] = mbus_join_group(g) =>
            \/ g \in groups
            \/ \E i \in 1..n : i < j /\ pipe[s][i] = mbus_create_group(g)
    BY <1>6, <1>7 DEF Orderly, CreatesFirst
  <2>1. ASSUME NEW j \in 1..(n + 1), pipe'[s][j] = mbus_join_group(g)
        PROVE  \/ g \in groups'
               \/ \E i \in 1..(n + 1) : i < j /\ pipe'[s][i] = mbus_create_group(g)
    <3>1. j \in 1..n
      <4>1. j # n + 1
        BY <1>6, <2>1, Requests
      <4>. QED
        BY <4>1
    <3>2. g \in groups \/ \E i \in 1..n : i < j /\ pipe[s][i] = mbus_create_group(g)
      BY <1>6, <2>0, <2>1, <3>1
    <3>3. 1..n \subseteq 1..(n + 1)
      OBVIOUS
    <3>. QED
      BY <1>1, <1>6, <3>2, <3>3
  <2>. QED
    BY <1>6, <2>1 DEF CreatesFirst, mbus_join_group, mbus_create_group
<1>9. ASSUME NEW g \in Group PROVE JoinsLater(s, g)'
  <2>0. Wants(s, g) => \A j \in 1..n : pipe[s][j] = mbus_register_object =>
                        \E k \in 1..n : j < k /\ pipe[s][k] = mbus_join_group(g)
    BY <1>6, <1>7 DEF Orderly, JoinsLater
  <2>1. ASSUME NEW j \in 1..(n + 1), pipe'[s][j] = mbus_register_object, Wants(s, g)'
        PROVE  \E k \in 1..(n + 1) : j < k /\ pipe'[s][k] = mbus_join_group(g)
    <3>1. j \in 1..n
      <4>1. j # n + 1
        BY <1>6, <2>1, Requests
      <4>. QED
        BY <4>1
    <3>2. Wants(s, g)
      BY <1>1, <1>2, <2>1, WantsKept
    <3>3. \E k \in 1..n : j < k /\ pipe[s][k] = mbus_join_group(g)
      BY <1>6, <2>0, <2>1, <3>1, <3>2
    <3>4. 1..n \subseteq 1..(n + 1)
      OBVIOUS
    <3>. QED
      BY <1>6, <3>3, <3>4
  <2>. QED
    BY <1>6, <2>1 DEF JoinsLater, mbus_join_group, mbus_register_object
<1>10. ASSUME NEW g \in Group
       PROVE  Requested(s, mbus_join_group(g)) => Requested(s, mbus_join_group(g))'
  <2>1. ASSUME NEW k \in 1..n, pipe[s][k] = mbus_join_group(g)
        PROVE  Requested(s, mbus_join_group(g))'
    <3>1. k \in 1..(n + 1) /\ pipe'[s][k] = mbus_join_group(g)
      BY <1>6, <2>1
    <3>. QED
      BY <1>6, <3>1 DEF Requested, mbus_join_group
  <2>. QED
    BY <1>6, <2>1 DEF Requested
<1>11. ASSUME NEW g \in Group PROVE JoinedAt(s, g)'
  <2>1. Wants(s, g)' => Wants(s, g)
    BY <1>1, <1>2, WantsKept
  <2>2. JoinedAt(s, g)
    BY <1>7 DEF Orderly
  <2>. QED
    BY <1>1, <1>10, <2>1, <2>2 DEF JoinedAt
<1>12. CleanWhenFree(s)'
  BY <1>1, <1>3, <1>7 DEF Orderly, CleanWhenFree, BusSystemAssumption
<1>13. Orderly(s)'
  BY <1>8, <1>9, <1>11, <1>12 DEF Orderly
<1>. QED
  BY <1>4, <1>13 DEF GroupInv

LEMMA EndOrderly ==
    ASSUME BusSystemAssumption, TypeOK, GroupInv, NEW p \in Program, End(p)
    PROVE  GroupInv'
PROOF
<1>1. /\ UNCHANGED <<open, who, groups, joined, owner>>
      /\ link' = [link EXCEPT ![p] = NoConn]
  BY DEF End, bus
<1>2. ASSUME NEW t \in Conn PROVE Ghost(t) => Ghost(t)'
  <2>1. ASSUME Ghost(t) PROVE link'[owner[t]] # t
    BY <1>1, <2>1 DEF Ghost, TypeOK, BusSystemAssumption
  <2>. QED
    BY <1>1, <2>1 DEF Ghost
<1>3. ASSUME NEW t \in Conn, t # link[p] PROVE Orderly(t)'
  <2>1. pipe'[t] = pipe[t]
    BY <1>3 DEF End, TypeOK
  <2>2. owner[t] # Nobody /\ ~Ghost(t)' => owner[t] # p
    BY <1>2, <1>3 DEF Ghost
  <2>3. owner[t] # p => options'[owner[t]] = options[owner[t]]
    BY DEF End, TypeOK
  <2>. QED
    BY <1>1, <1>2, <2>1, <2>2, <2>3, Untouched DEF GroupInv
<1>4. ASSUME NEW s \in Conn, link[p] = s PROVE Orderly(s)'
  <2>1. pipe[s] \in Seq(Request) /\ owner[s] = p /\ p # Nobody /\ s # NoConn
    BY <1>4 DEF TypeOK, BusSystemAssumption
  <2>2. Ghost(s)'
    BY <1>1, <2>1 DEF Ghost, TypeOK
  <2>3. PICK n \in 0..Len(pipe[s]) : pipe' = [pipe EXCEPT ![s] = SubSeq(@, 1, n)]
    BY <1>4, <2>1 DEF End
  <2>4. pipe'[s] = SubSeq(pipe[s], 1, n)
    BY <2>3 DEF TypeOK
  <2>5. /\ DOMAIN pipe'[s] = 1..n /\ 1..n \subseteq DOMAIN pipe[s]
        /\ \A i \in 1..n : pipe'[s][i] = pipe[s][i]
    BY <2>1, <2>4
  <2>6. Orderly(s)
    BY DEF GroupInv
  <2>7. ASSUME NEW g \in Group PROVE CreatesFirst(s, g)'
    <3>1. ASSUME NEW j \in 1..n, pipe'[s][j] = mbus_join_group(g)
          PROVE  \/ g \in groups'
                 \/ \E i \in 1..n : i < j /\ pipe'[s][i] = mbus_create_group(g)
      <4>1. \/ g \in groups
            \/ \E i \in DOMAIN pipe[s] : i < j /\ pipe[s][i] = mbus_create_group(g)
        BY <2>5, <2>6, <3>1 DEF Orderly, CreatesFirst
      <4>2. CASE g \in groups
        BY <1>1, <4>2
      <4>3. ASSUME NEW i \in DOMAIN pipe[s], i < j, pipe[s][i] = mbus_create_group(g)
            PROVE  \E k \in 1..n : k < j /\ pipe'[s][k] = mbus_create_group(g)
        <5>1. i \in 1..n
          BY <2>1, <4>3
        <5>. QED
          BY <2>5, <4>3, <5>1
      <4>. QED
        BY <4>1, <4>2, <4>3
    <3>. QED
      BY <2>5, <3>1 DEF CreatesFirst, mbus_join_group, mbus_create_group
  <2>8. ASSUME NEW g \in Group PROVE JoinsLater(s, g)' /\ JoinedAt(s, g)'
    <3>1. ~Wants(s, g)'
      BY <2>2, WantsPrimed
    <3>. QED
      BY <3>1 DEF JoinsLater, JoinedAt
  <2>9. CleanWhenFree(s)'
    BY <1>1, <2>1, <2>6 DEF Orderly, CleanWhenFree
  <2>. QED
    BY <2>7, <2>8, <2>9 DEF Orderly
<1>. QED
  BY <1>3, <1>4 DEF GroupInv

LEMMA AcceptOrderly ==
    ASSUME BusSystemAssumption, TypeOK, GroupInv, NEW s \in Conn, handle_accept(s)
    PROVE  GroupInv'
PROOF
<1>1. /\ UNCHANGED <<who, groups, joined, link, owner, options, pipe>>
      /\ open' = open \cup {s} /\ owner[s] # Nobody
  BY DEF handle_accept, Bus!Connect, programs
<1>2. \A t \in Conn : Ghost(t)' <=> Ghost(t)
  BY <1>1 DEF Ghost
<1>3. ASSUME NEW t \in Conn \ {s} PROVE Orderly(t)'
  BY <1>1, <1>2, <1>3, Untouched DEF GroupInv
<1>4. Orderly(s)'
  <2>1. Orderly(s)
    BY DEF GroupInv
  <2>2. CleanWhenFree(s)'
    BY <1>1, <2>1 DEF Orderly, CleanWhenFree
  <2>3. ASSUME NEW g \in Group PROVE CreatesFirst(s, g)'
    BY <1>1, <2>1 DEF Orderly, CreatesFirst, mbus_create_group, mbus_join_group
  <2>4. ASSUME NEW g \in Group PROVE Wants(s, g)' => Wants(s, g)
    BY <1>1, <1>2, WantsKept
  <2>5. ASSUME NEW g \in Group PROVE JoinsLater(s, g)'
    <3>1. Wants(s, g) => \A j \in DOMAIN pipe[s] :
            pipe[s][j] = mbus_register_object =>
                \E k \in DOMAIN pipe[s] : j < k /\ pipe[s][k] = mbus_join_group(g)
      BY <2>1 DEF Orderly, JoinsLater
    <3>. QED
      BY <1>1, <2>4, <3>1 DEF JoinsLater, mbus_join_group, mbus_register_object
  <2>6. ASSUME NEW g \in Group PROVE JoinedAt(s, g)'
    <3>1. Requested(s, mbus_join_group(g))' <=> Requested(s, mbus_join_group(g))
      BY <1>1 DEF Requested, mbus_join_group
    <3>. QED
      BY <1>1, <2>1, <2>4, <3>1 DEF Orderly, JoinedAt
  <2>. QED
    BY <2>2, <2>3, <2>5, <2>6 DEF Orderly
<1>. QED
  BY <1>3, <1>4 DEF GroupInv

(* What handling the request m of s does to who and what s is, and that it *)
(* leaves the other connections alone.                                     *)
LEMMA Handled ==
    ASSUME BusSystemAssumption, TypeOK, NEW s \in open, NEW m \in Request, handle_msg(s, m)
    PROVE  /\ \A t \in Conn \ {s} : who'[t] = who[t] /\ joined'[t] = joined[t]
           /\ open' = open
           /\ groups \subseteq groups'
           /\ \A g \in Group : m = mbus_create_group(g) => g \in groups'
           /\ m # mbus_register_object => who'[s] = who[s]
           /\ joined[s] \subseteq joined'[s]
           /\ \A g \in Group :
                 m = mbus_join_group(g) /\ g \in groups /\ who[s] # Nobody => g \in joined'[s]
PROOF
<1>1. /\ who \in [Conn -> User \cup {Nobody}] /\ joined \in [Conn -> SUBSET Group]
      /\ s \in Conn
  BY DEF TypeOK, Bus!TypeOK
<1>. DEFINE Done ==
           /\ \A t \in Conn \ {s} : who'[t] = who[t] /\ joined'[t] = joined[t]
           /\ open' = open
           /\ groups \subseteq groups'
           /\ \A g \in Group : m = mbus_create_group(g) => g \in groups'
           /\ m # mbus_register_object => who'[s] = who[s]
           /\ joined[s] \subseteq joined'[s]
           /\ \A g \in Group :
                 m = mbus_join_group(g) /\ g \in groups /\ who[s] # Nobody => g \in joined'[s]
<1>2. ASSUME m = mbus_register_object, Bus!Login(s, name[owner[s]]) PROVE Done
  <2>1. UNCHANGED <<open, groups, joined>>
    BY <1>2 DEF Bus!Login
  <2>2. \A t \in Conn \ {s} : who'[t] = who[t]
    BY <1>1, <1>2 DEF Bus!Login
  <2>. QED
    BY <1>2, <2>1, <2>2, Requests
<1>3. ASSUME NEW h \in Group, m = mbus_create_group(h), Bus!CreateGroup(s, h) PROVE Done
  <2>1. UNCHANGED <<open, who, joined>> /\ groups' = groups \cup {h}
    BY <1>3 DEF Bus!CreateGroup
  <2>2. \A g \in Group : m = mbus_create_group(g) => g = h
    BY <1>3 DEF mbus_create_group
  <2>3. \A g \in Group : m # mbus_join_group(g)
    BY <1>3, Requests
  <2>. QED
    BY <2>1, <2>2, <2>3
<1>4. ASSUME NEW h \in Group, m = mbus_join_group(h), Bus!JoinGroup(s, h) PROVE Done
  <2>1. UNCHANGED <<open, who, groups>>
    BY <1>4 DEF Bus!JoinGroup
  <2>2. joined' = IF who[s] # Nobody /\ h \in groups
                  THEN [joined EXCEPT ![s] = @ \cup {h}] ELSE joined
    BY <1>4 DEF Bus!JoinGroup, Bus!LoggedIn
  <2>3. \A g \in Group : m # mbus_create_group(g)
    BY <1>4, Requests
  <2>4. \A g \in Group : m = mbus_join_group(g) => g = h
    BY <1>4, Requests
  <2>5. /\ \A t \in Conn \ {s} : joined'[t] = joined[t]
        /\ joined[s] \subseteq joined'[s]
        /\ who[s] # Nobody /\ h \in groups => h \in joined'[s]
    BY <1>1, <2>2
  <2>. QED
    BY <2>1, <2>3, <2>4, <2>5
<1>5. ASSUME UNCHANGED <<open, who, groups, joined>>, m \in Message PROVE Done
  <2>1. \A g \in Group : m # mbus_create_group(g) /\ m # mbus_join_group(g)
    BY <1>5, Requests
  <2>. QED
    BY <1>5, <2>1
<1>6. ASSUME NEW h \in Group, m = mbus_sendmsg_in_group(h), Bus!GroupMsg(s, h)
      PROVE  UNCHANGED <<open, who, groups, joined>> /\ m \in Message
  BY <1>6 DEF Bus!GroupMsg, Message
<1>7. ASSUME NEW u \in User, m = mbus_sendmsg_private(u), Bus!PrivateMsg(s, u)
      PROVE  UNCHANGED <<open, who, groups, joined>> /\ m \in Message
  BY <1>7 DEF Bus!PrivateMsg, Message
<1>8. Done
  <2>. HIDE DEF Done
  <2>. QED
    BY <1>2, <1>3, <1>4, <1>5, <1>6, <1>7 DEF handle_msg
<1>. QED
  BY <1>8

LEMMA ReadOrderly ==
    ASSUME BusSystemAssumption, TypeOK, GroupInv, NEW s \in Conn, handle_read(s)
    PROVE  GroupInv'
PROOF
<1>1. /\ pipe[s] \in Seq(Request) /\ pipe[s] # <<>> /\ s \in open
      /\ handle_msg(s, Head(pipe[s]))
      /\ pipe' = [pipe EXCEPT ![s] = Tail(@)]
      /\ UNCHANGED <<link, owner, options>>
  BY DEF handle_read, TypeOK, programs
<1>. PICK m \in Request : m = Head(pipe[s])
  BY <1>1
<1>2. /\ \A t \in Conn \ {s} : who'[t] = who[t] /\ joined'[t] = joined[t]
      /\ open' = open
      /\ groups \subseteq groups'
      /\ \A g \in Group : m = mbus_create_group(g) => g \in groups'
      /\ m # mbus_register_object => who'[s] = who[s]
      /\ joined[s] \subseteq joined'[s]
      /\ \A g \in Group :
            m = mbus_join_group(g) /\ g \in groups /\ who[s] # Nobody => g \in joined'[s]
  BY <1>1, Handled
<1>3. \A t \in Conn : Ghost(t)' <=> Ghost(t)
  BY <1>1 DEF Ghost
<1>4. ASSUME NEW t \in Conn \ {s} PROVE Orderly(t)'
  <2>1. pipe'[t] = pipe[t]
    BY <1>1 DEF TypeOK
  <2>. QED
    BY <1>1, <1>2, <1>3, <2>1, Untouched DEF GroupInv
<1>. PICK n \in Nat : n = Len(pipe[s])
  BY <1>1
<1>5. /\ n > 0 /\ DOMAIN pipe[s] = 1..n /\ pipe[s][1] = m
      /\ DOMAIN pipe'[s] = 1..(n - 1)
      /\ \A i \in 1..(n - 1) : pipe'[s][i] = pipe[s][i + 1]
  <2>. PICK u \in Seq(Request) : u = pipe[s]
    BY <1>1
  <2>. PICK v : v = pipe'[s]
    OBVIOUS
  <2>1. v = Tail(u) /\ u # <<>> /\ n = Len(u) /\ m = Head(u)
    BY <1>1 DEF TypeOK
  <2>2. n > 0 /\ DOMAIN u = 1..n /\ u[1] = m
    BY <2>1
  <2>3. DOMAIN v = 1..(n - 1) /\ \A i \in 1..(n - 1) : v[i] = u[i + 1]
    BY <2>1, HeadTailProperties
  <2>. QED
    BY <2>2, <2>3
<1>6. Orderly(s)
  BY DEF GroupInv
<1>7. ASSUME NEW g \in Group PROVE CreatesFirst(s, g)'
  <2>1. \A j \in 1..n : pipe[s][j] = mbus_join_group(g) =>
            \/ g \in groups
            \/ \E i \in 1..n : i < j /\ pipe[s][i] = mbus_create_group(g)
    BY <1>5, <1>6 DEF Orderly, CreatesFirst
  <2>2. ASSUME NEW j \in 1..(n - 1), pipe'[s][j] = mbus_join_group(g), g \notin groups'
        PROVE  \E i \in 1..(n - 1) : i < j /\ pipe'[s][i] = mbus_create_group(g)
    <3>1. j + 1 \in 1..n /\ pipe[s][j + 1] = mbus_join_group(g)
      BY <1>5, <2>2
    <3>2. PICK i \in 1..n : i < j + 1 /\ pipe[s][i] = mbus_create_group(g)
      BY <1>2, <2>1, <2>2, <3>1
    <3>3. i # 1
      BY <1>2, <1>5, <2>2, <3>2
    <3>4. i - 1 \in 1..(n - 1) /\ i - 1 < j /\ (i - 1) + 1 = i
      BY <3>2, <3>3
    <3>. QED
      BY <1>5, <3>2, <3>4
  <2>. QED
    BY <1>5, <2>2 DEF CreatesFirst, mbus_join_group, mbus_create_group
<1>8. ASSUME NEW g \in Group, Wants(s, g), NEW j \in 1..n, pipe[s][j] = mbus_register_object
      PROVE  \E k \in 1..n : j < k /\ pipe[s][k] = mbus_join_group(g)
  BY <1>5, <1>6, <1>8 DEF Orderly, JoinsLater
<1>9. ASSUME NEW g \in Group PROVE Wants(s, g)' => Wants(s, g)
  BY <1>1, <1>3, WantsKept
<1>10. ASSUME NEW g \in Group PROVE JoinsLater(s, g)'
  <2>1. ASSUME NEW j \in 1..(n - 1), pipe'[s][j] = mbus_register_object, Wants(s, g)'
        PROVE  \E k \in 1..(n - 1) : j < k /\ pipe'[s][k] = mbus_join_group(g)
    <3>1. j + 1 \in 1..n /\ pipe[s][j + 1] = mbus_register_object
      BY <1>5, <2>1
    <3>2. PICK k \in 1..n : j + 1 < k /\ pipe[s][k] = mbus_join_group(g)
      BY <1>8, <1>9, <2>1, <3>1
    <3>3. k - 1 \in 1..(n - 1) /\ j < k - 1 /\ (k - 1) + 1 = k
      BY <3>2
    <3>. QED
      BY <1>5, <3>2, <3>3
  <2>. QED
    BY <1>5, <2>1 DEF JoinsLater, mbus_join_group, mbus_register_object
<1>11. ASSUME NEW g \in Group PROVE JoinedAt(s, g)'
  <2>1. SUFFICES ASSUME who'[s] # Nobody, Wants(s, g)', ~Requested(s, mbus_join_group(g))'
                 PROVE  g \in joined'[s]
    BY DEF JoinedAt
  <2>2. \A i \in 1..(n - 1) : pipe[s][i + 1] # mbus_join_group(g)
    BY <1>5, <2>1 DEF Requested, mbus_join_group
  <2>3. \A i \in 1..n : i # 1 => pipe[s][i] # mbus_join_group(g)
    <3>1. ASSUME NEW i \in 1..n, i # 1 PROVE pipe[s][i] # mbus_join_group(g)
      <4>1. i - 1 \in 1..(n - 1) /\ (i - 1) + 1 = i
        BY <3>1
      <4>. QED
        BY <2>2, <4>1
    <3>. QED
      BY <3>1
  <2>4. m # mbus_register_object
    <3>1. ASSUME m = mbus_register_object PROVE FALSE
      <4>1. 1 \in 1..n
        BY <1>5
      <4>2. PICK k \in 1..n : 1 < k /\ pipe[s][k] = mbus_join_group(g)
        BY <1>5, <1>8, <1>9, <2>1, <3>1, <4>1
      <4>. QED
        BY <2>3, <4>2
    <3>. QED
      BY <3>1
  <2>5. who[s] # Nobody
    BY <1>2, <2>1, <2>4
  <2>6. CASE m = mbus_join_group(g)
    <3>1. g \in groups
      <4>1. 1 \in 1..n /\ ~\E i \in 1..n : i < 1
        BY <1>5
      <4>. QED
        BY <1>5, <1>6, <2>6, <4>1 DEF Orderly, CreatesFirst
    <3>. QED
      BY <1>2, <2>5, <2>6, <3>1
  <2>7. CASE m # mbus_join_group(g)
    <3>1. ~Requested(s, mbus_join_group(g))
      BY <1>5, <2>3, <2>7 DEF Requested
    <3>2. g \in joined[s]
      BY <1>6, <1>9, <2>1, <2>5, <3>1 DEF Orderly, JoinedAt
    <3>. QED
      BY <1>2, <3>2
  <2>. QED
    BY <2>6, <2>7
<1>12. CleanWhenFree(s)'
  BY <1>1, <1>2, <1>6 DEF Orderly, CleanWhenFree
<1>13. Orderly(s)'
  BY <1>7, <1>10, <1>11, <1>12 DEF Orderly
<1>. QED
  BY <1>4, <1>13 DEF GroupInv

LEMMA EndsOrderly ==
    ASSUME NEW how, Ends(how)
    PROVE  GroupInv'
BY DEF Ends, GroupInv, Orderly, CreatesFirst, JoinsLater, JoinedAt, CleanWhenFree

LEMMA CloseOrderly ==
    ASSUME BusSystemAssumption, TypeOK, GroupInv, NEW s \in Conn, handle_close(s)
    PROVE  GroupInv'
PROOF
<1>1. /\ open' = open \ {s} /\ who' = [who EXCEPT ![s] = Nobody]
      /\ joined' = [joined EXCEPT ![s] = {}] /\ groups' = groups
      /\ owner' = [owner EXCEPT ![s] = Nobody]
      /\ UNCHANGED <<link, options, pipe>> /\ pipe[s] = <<>>
  BY DEF handle_close, Bus!Disconnect
<1>2. ASSUME NEW t \in Conn \ {s} PROVE Orderly(t)'
  <2>1. who'[t] = who[t] /\ joined'[t] = joined[t] /\ owner'[t] = owner[t]
    BY <1>1 DEF TypeOK, Bus!TypeOK
  <2>2. Ghost(t) => Ghost(t)'
    BY <1>1, <2>1 DEF Ghost
  <2>. QED
    BY <1>1, <2>1, <2>2, Untouched DEF GroupInv
<1>3. Orderly(s)'
  <2>1. who'[s] = Nobody /\ joined'[s] = {} /\ pipe'[s] = <<>> /\ s \notin open'
    BY <1>1 DEF TypeOK, Bus!TypeOK
  <2>. QED
    BY <2>1 DEF Orderly, CreatesFirst, JoinsLater, JoinedAt, CleanWhenFree
<1>. QED
  BY <1>2, <1>3 DEF GroupInv

LEMMA SameOrderly ==
    ASSUME GroupInv, UNCHANGED <<open, who, groups, joined, link, owner, options, pipe>>
    PROVE  GroupInv'
PROOF
<1>1. ASSUME NEW t \in Conn PROVE Orderly(t)'
  BY Untouched DEF GroupInv, Ghost
<1>. QED
  BY <1>1 DEF GroupInv

-----------------------------------------------------------------------------

(* Queues: the program at the end of a queue either runs, or ended when it *)
(* had one.                                                                *)
LEMMA QueueStep ==
    ASSUME BusSystemAssumption, TypeOK, QueueInv, [Next]_vars
    PROVE  QueueInv'
PROOF
<1>1. ASSUME NEW p \in Program, Start(p) PROVE QueueInv'
  <2>1. PICK s \in Conn : /\ owner[s] = Nobody
                          /\ owner' = [owner EXCEPT ![s] = p]
                          /\ link' = [link EXCEPT ![p] = s]
    BY <1>1 DEF Start
  <2>2. UNCHANGED <<open, daemon, queued, slow>> /\ s \notin queued
    BY <1>1, <2>1 DEF Start, bus, TypeOK
  <2>3. \A t \in queued : Ghost(t)' => Ghost(t)
    BY <1>1, <2>1, <2>2 DEF Ghost, TypeOK, Bus!TypeOK, Start, BusSystemAssumption
  <2>. QED
    BY <2>2, <2>3 DEF QueueInv, OutlivesQuickReaders
<1>2. ASSUME NEW p \in Program, End(p) PROVE QueueInv'
  <2>1. UNCHANGED <<daemon, queued, owner>> /\ link' = [link EXCEPT ![p] = NoConn]
    BY <1>2 DEF End
  <2>2. slow' = (slow \/ (link[p] # NoConn /\ link[p] \in queued))
    BY <1>2 DEF End, TypeOK
  <2>3. \A t \in queued : Ghost(t)' => Ghost(t) \/ t = link[p]
    BY <2>1 DEF Ghost, TypeOK
  <2>4. \A t \in queued : t # NoConn
    BY DEF TypeOK, Bus!TypeOK, BusSystemAssumption
  <2>. QED
    BY <2>1, <2>2, <2>3, <2>4 DEF QueueInv, OutlivesQuickReaders
<1>3. ASSUME NEW s \in Conn, handle_read(s) PROVE QueueInv'
  <2>1. PICK full \in SUBSET {t \in delivered' : ~Ghost(t)} : queued' = queued \cup full
    BY <1>3 DEF handle_read
  <2>2. UNCHANGED <<daemon, link, owner, slow>>
    BY <1>3 DEF handle_read, programs
  <2>. QED
    BY <2>1, <2>2 DEF QueueInv, OutlivesQuickReaders, Ghost
<1>4. ASSUME NEW how \in {"broken", "killed"}, Ends(how), how = "broken" => slow PROVE QueueInv'
  BY <1>4 DEF Ends, QueueInv, OutlivesQuickReaders
<1>5. ASSUME NEW s \in Conn, handle_close(s) PROVE QueueInv'
  <2>1. /\ UNCHANGED <<daemon, link, slow>> /\ queued' = queued \ {s}
        /\ owner' = [owner EXCEPT ![s] = Nobody]
    BY <1>5 DEF handle_close
  <2>2. \A t \in queued' : Ghost(t)' => Ghost(t)
    BY <2>1 DEF Ghost, TypeOK
  <2>. QED
    BY <2>1, <2>2 DEF QueueInv, OutlivesQuickReaders
<1>6. ASSUME NEW s \in Conn, handle_write(s) PROVE QueueInv'
  <2>1. CASE queued' = queued \ {s} /\ UNCHANGED <<bus, daemon, programs, pipe, slow>>
    BY <2>1 DEF QueueInv, OutlivesQuickReaders, Ghost, programs
  <2>2. CASE Ghost(s) /\ Ends("broken")
    BY <1>4, <1>6, <2>2 DEF handle_write, QueueInv
  <2>. QED
    BY <1>6, <2>1, <2>2 DEF handle_write
<1>7. CASE Restart
  BY <1>7 DEF Restart, QueueInv, OutlivesQuickReaders, Ghost, programs
<1>8. CASE UNCHANGED <<daemon, queued, link, owner, slow>>
  BY <1>8 DEF QueueInv, OutlivesQuickReaders, Ghost
<1>. QED
  BY <1>1, <1>2, <1>3, <1>4, <1>5, <1>6, <1>7, <1>8
     DEF Next, Register, Publish, handle_accept, vars, programs

Inv == TypeOK /\ GroupInv /\ QueueInv

LEMMA Step ==
    ASSUME BusSystemAssumption, Inv, [Next]_vars
    PROVE  Inv'
PROOF
<1>. USE BusSystemAssumption DEF Inv
<1>1. ASSUME NEW p \in Program, Start(p) PROVE TypeOK' /\ GroupInv'
  BY <1>1, StartType, StartOrderly
<1>2. ASSUME NEW p \in Program, Register(p) PROVE TypeOK' /\ GroupInv'
  BY <1>2, RegisterType, RegisterOrderly
<1>3. ASSUME NEW p \in Program, End(p) PROVE TypeOK' /\ GroupInv'
  BY <1>3, EndType, EndOrderly
<1>4. ASSUME NEW p \in Program, NEW m \in Message, Publish(p, m) PROVE TypeOK' /\ GroupInv'
  BY <1>4, PublishType, PublishOrderly
<1>5. ASSUME NEW s \in Conn, handle_accept(s) PROVE TypeOK' /\ GroupInv'
  BY <1>5, AcceptType, AcceptOrderly
<1>6. ASSUME NEW s \in Conn, handle_read(s) PROVE TypeOK' /\ GroupInv'
  BY <1>6, ReadType, ReadOrderly
<1>7. ASSUME NEW s \in Conn, handle_close(s) PROVE TypeOK' /\ GroupInv'
  BY <1>7, CloseType, CloseOrderly
<1>8. ASSUME NEW s \in Conn, handle_write(s) PROVE TypeOK' /\ GroupInv'
  <2>1. GroupInv'
    BY <1>8, EndsOrderly, SameOrderly DEF handle_write, bus, programs
  <2>. QED
    BY <1>8, <2>1, WriteType
<1>9. ASSUME Ends("killed") PROVE TypeOK' /\ GroupInv'
  BY <1>9, EndsType, EndsOrderly
<1>10. ASSUME Restart PROVE TypeOK' /\ GroupInv'
  <2>1. TypeOK'
    BY <1>10 DEF Restart, TypeOK, Bus!TypeOK, bus, programs
  <2>. QED
    BY <1>10, <2>1, SameOrderly DEF Restart, bus, programs
<1>11. ASSUME UNCHANGED vars PROVE TypeOK' /\ GroupInv'
  <2>1. TypeOK'
    BY <1>11 DEF vars, TypeOK, Bus!TypeOK, bus, programs
  <2>. QED
    BY <1>11, <2>1, SameOrderly DEF vars, bus, programs
<1>12. TypeOK' /\ GroupInv'
  BY <1>1, <1>2, <1>3, <1>4, <1>5, <1>6, <1>7, <1>8, <1>9, <1>10, <1>11 DEF Next
<1>. QED
  BY <1>12, QueueStep

(* Every state is of its type, the invariants of the registration and of   *)
(* the daemon's queues hold: all actions of programs and daemon.           *)
THEOREM Invariant == Spec => []Inv
PROOF
<1>1. ASSUME Init PROVE Inv
  <2>1. TypeOK
    BY <1>1, InitType, BusSystemAssumption
  <2>2. GroupInv
    BY <1>1 DEF Init, Bus!Init, GroupInv, Orderly, CreatesFirst, JoinsLater, JoinedAt,
                CleanWhenFree
  <2>3. QueueInv
    BY <1>1 DEF Init, QueueInv, OutlivesQuickReaders
  <2>. QED
    BY <2>1, <2>2, <2>3 DEF Inv
<1>2. Inv /\ [Next]_vars => Inv'
  BY Step, BusSystemAssumption
<1>. QED
  BY <1>1, <1>2, PTL DEF Spec

(* The type invariant, of which that a program's connection is its own is  *)
(* the part the others rest on: Start, End and handle_close.               *)
THEOREM TypeCorrect == Spec => []TypeOK
BY Invariant, PTL DEF Inv

(* An accepted program is in every group it asked for when its requests to *)
(* join have been handled: agent and manager in the mesh group, mbus_cli   *)
(* in the one it sends its text to, under every command line.  This is so  *)
(* for any number of programs that start, end, share names and create      *)
(* groups at once, and across restarts of the daemon.                      *)
THEOREM AcceptedAreMembers == Spec => []RegisteredJoins
PROOF
<1>1. Inv => RegisteredJoins
  <2>1. SUFFICES ASSUME Inv, NEW s \in open, who[s] # Nobody, ~Ghost(s),
                        NEW g \in Joins(owner[s]), ~Requested(s, mbus_join_group(g))
                 PROVE  g \in joined[s]
    BY DEF RegisteredJoins
  <2>2. s \in Conn /\ owner[s] \in Program /\ owner[s] # Nobody /\ TypeOK
    BY <2>1 DEF Inv, TypeOK, Bus!TypeOK
  <2>3. Joins(owner[s]) = AsksFor(owner[s], options[owner[s]])
    BY <2>2, RegistrationOrdered
  <2>4. g \in Group
    BY DEF Joins
  <2>5. Wants(s, g)
    BY <2>1, <2>2, <2>3 DEF Wants
  <2>. QED
    BY <2>1, <2>2, <2>4, <2>5 DEF Inv, GroupInv, Orderly, JoinedAt
<1>. QED
  BY <1>1, Invariant, PTL

(* Programs that read what they are sent never end the daemon, however     *)
(* many end at once and whatever is being sent to them: io_write and       *)
(* handle_write.                                                           *)
THEOREM QuickReadersEndSafely == Spec => []OutlivesQuickReaders
PROOF
<1>1. Inv => OutlivesQuickReaders
  BY DEF Inv, QueueInv
<1>. QED
  BY <1>1, Invariant, PTL

-----------------------------------------------------------------------------
(* A connection carries one login, whatever programs do: what the daemon's *)
(* proof assumes of its clients.                                           *)

LoginsIn(q) == {k \in DOMAIN q : q[k] = mbus_register_object}

OneLogin(s) ==
    /\ \A j, k \in LoginsIn(pipe[s]) : j = k
    /\ LoginsIn(pipe[s]) # {} => who[s] = Nobody

(* No connection is sent a login while it has another, or a name. *)
LoginsOnce == \A s \in Conn : OneLogin(s)

(* Before its timer has run a program has neither asked for a name nor got *)
(* one.                                                                    *)
Unasked(s) == LoginsIn(pipe[s]) = {} /\ who[s] = Nobody

ArmedFirst == \A p \in armed : link[p] # NoConn => Unasked(link[p])

(* The name of a connection is that of the program it is, or was, of. *)
NamesOwn == \A s \in Conn : who[s] # Nobody => owner[s] # Nobody /\ who[s] = name[owner[s]]

LoginInv == LoginsOnce /\ ArmedFirst /\ NamesOwn

LEMMA LoginsRegistered ==
    ASSUME NEW q \in Seq(Request), LoginsIn(q) = {}, NEW r, WellOrdered(r)
    PROVE  \A j, k \in LoginsIn(q \o r) : j = k
PROOF
<1>. PICK v : v = q \o r
  OBVIOUS
<1>1. r \in Seq(Request)
  BY DEF WellOrdered
<1>. PICK n \in Nat, l \in Nat : Behind(q, r, v, n, l)
  BY <1>1, Appended
<1>2. /\ DOMAIN q = 1..n /\ DOMAIN r = 1..l /\ DOMAIN v = 1..(n + l)
      /\ \A i \in 1..n : v[i] = q[i]
      /\ \A k \in 1..l : v[n + k] = r[k]
      /\ \A j \in 1..(n + l) : j \in 1..n \/ \E k \in 1..l : j = n + k
  BY DEF Behind
<1>3. \A i \in 1..n : v[i] # mbus_register_object
  BY <1>2 DEF LoginsIn
<1>4. ASSUME NEW j \in 1..(n + l), v[j] = mbus_register_object PROVE j = n + 1
  <2>1. j \notin 1..n
    BY <1>3, <1>4
  <2>2. PICK k \in 1..l : j = n + k
    BY <1>2, <2>1
  <2>3. k = 1
    BY <1>2, <1>4, <2>2 DEF WellOrdered
  <2>. QED
    BY <2>2, <2>3
<1>5. \A j \in LoginsIn(v) : j = n + 1
  BY <1>2, <1>4 DEF LoginsIn
<1>. QED
  BY <1>5

LEMMA LoginsAppended ==
    ASSUME NEW q \in Seq(Request), NEW m \in Message
    PROVE  LoginsIn(Append(q, m)) = LoginsIn(q)
PROOF
<1>1. m \in Request
  BY DEF Request
<1>2. /\ DOMAIN Append(q, m) = 1..(Len(q) + 1) /\ DOMAIN q = 1..Len(q)
      /\ \A i \in 1..Len(q) : Append(q, m)[i] = q[i]
      /\ Append(q, m)[Len(q) + 1] = m
  BY <1>1
<1>3. m # mbus_register_object
  BY Requests
<1>. DEFINE v == Append(q, m)
            n == Len(q)
<1>4. n \in Nat /\ 1..(n + 1) = (1..n) \cup {n + 1}
  OBVIOUS
<1>. HIDE DEF v, n
<1>5. LoginsIn(v) = LoginsIn(q)
  BY <1>2, <1>3, <1>4 DEF LoginsIn, v, n
<1>. QED
  BY <1>5 DEF v

LEMMA LoginsCut ==
    ASSUME NEW q \in Seq(Request), NEW n \in 0..Len(q)
    PROVE  LoginsIn(SubSeq(q, 1, n)) \subseteq LoginsIn(q)
PROOF
<1>1. /\ DOMAIN SubSeq(q, 1, n) = 1..n /\ 1..n \subseteq DOMAIN q
      /\ \A i \in 1..n : SubSeq(q, 1, n)[i] = q[i]
  OBVIOUS
<1>. QED
  BY <1>1 DEF LoginsIn

LEMMA LoginsTail ==
    ASSUME NEW q \in Seq(Request), q # <<>>
    PROVE  /\ \A j \in LoginsIn(Tail(q)) : j + 1 \in LoginsIn(q) /\ j \in Nat /\ j > 0
           /\ Head(q) = mbus_register_object => 1 \in LoginsIn(q)
PROOF
<1>1. /\ DOMAIN q = 1..Len(q) /\ Len(q) > 0 /\ Len(q) \in Nat /\ Head(q) = q[1]
      /\ DOMAIN Tail(q) = 1..(Len(q) - 1)
      /\ \A j \in 1..(Len(q) - 1) : Tail(q)[j] = q[j + 1]
  OBVIOUS
<1>2. \A j \in 1..(Len(q) - 1) : j + 1 \in 1..Len(q) /\ j \in Nat /\ j > 0
  BY <1>1
<1>. QED
  BY <1>1, <1>2 DEF LoginsIn

LEMMA Primed ==
    ASSUME NEW s \in Conn
    PROVE  /\ OneLogin(s)' <=> /\ \A j, k \in LoginsIn(pipe'[s]) : j = k
                               /\ LoginsIn(pipe'[s]) # {} => who'[s] = Nobody
           /\ Unasked(s)' <=> LoginsIn(pipe'[s]) = {} /\ who'[s] = Nobody
BY DEF OneLogin, Unasked, LoginsIn, mbus_register_object

(* A connection whose queue only gets shorter, and whose name stays or is  *)
(* freed.                                                                  *)
LEMMA Fewer ==
    ASSUME NEW s \in Conn, LoginsIn(pipe'[s]) \subseteq LoginsIn(pipe[s]),
           who'[s] = who[s] \/ who'[s] = Nobody
    PROVE  /\ OneLogin(s) => OneLogin(s)'
           /\ Unasked(s) => Unasked(s)'
PROOF
<1>. DEFINE A == LoginsIn(pipe[s])
            B == LoginsIn(pipe'[s])
<1>1. B \subseteq A
  OBVIOUS
<1>2. /\ OneLogin(s) <=> (\A j, k \in A : j = k) /\ (A # {} => who[s] = Nobody)
      /\ Unasked(s) <=> A = {} /\ who[s] = Nobody
      /\ OneLogin(s)' <=> (\A j, k \in B : j = k) /\ (B # {} => who'[s] = Nobody)
      /\ Unasked(s)' <=> B = {} /\ who'[s] = Nobody
  BY Primed DEF OneLogin, Unasked
<1>. HIDE DEF A, B
<1>. QED
  BY <1>1, <1>2

LEMMA LinksDiffer ==
    ASSUME BusSystemAssumption, TypeOK, NEW p \in Program, NEW r \in Program,
           p # r, link[p] # NoConn
    PROVE  link[p] # link[r] /\ link[p] \in Conn
BY DEF TypeOK, BusSystemAssumption

(* The steps that only shorten queues and free names. *)
LEMMA ShrinkLogins ==
    ASSUME BusSystemAssumption, TypeOK, LoginInv,
           \A s \in Conn : /\ LoginsIn(pipe'[s]) \subseteq LoginsIn(pipe[s])
                           /\ who'[s] = who[s] \/ who'[s] = Nobody,
           armed' \subseteq armed,
           \A p \in Program : link'[p] = link[p] \/ link'[p] = NoConn
    PROVE  LoginsOnce' /\ ArmedFirst'
PROOF
<1>1. ASSUME NEW s \in Conn PROVE OneLogin(s)'
  BY <1>1, Fewer DEF LoginInv, LoginsOnce
<1>2. ASSUME NEW p \in armed', link'[p] # NoConn PROVE Unasked(link[p])'
  <2>1. p \in armed /\ p \in Program /\ link'[p] = link[p]
    BY <1>2 DEF TypeOK
  <2>2. link[p] \in Conn /\ Unasked(link[p])
    BY <1>2, <2>1 DEF TypeOK, LoginInv, ArmedFirst
  <2>. PICK s \in Conn : s = link[p]
    BY <2>2
  <2>3. Unasked(s)'
    BY <2>2, Fewer
  <2>4. s = link'[p]
    BY <2>1
  <2>. QED
    BY <2>3, <2>4 DEF Unasked
<1>. QED
  BY <1>1, <1>2 DEF LoginsOnce, ArmedFirst, Unasked

LEMMA StartLogins ==
    ASSUME BusSystemAssumption, TypeOK, GroupInv, LoginInv, NEW p \in Program, Start(p)
    PROVE  LoginInv'
PROOF
<1>1. PICK s \in Conn : /\ owner[s] = Nobody
                        /\ owner' = [owner EXCEPT ![s] = p]
                        /\ link' = [link EXCEPT ![p] = s]
  BY DEF Start
<1>2. UNCHANGED <<who, pipe>> /\ armed' = armed \cup {p}
  BY DEF Start, bus
<1>3. pipe[s] = <<>> /\ who[s] = Nobody
  BY <1>1 DEF GroupInv, Orderly, CleanWhenFree
<1>4. Unasked(s)
  BY <1>3 DEF Unasked, LoginsIn
<1>5. \A t \in Conn : (OneLogin(t) => OneLogin(t)') /\ (Unasked(t) => Unasked(t)')
  BY <1>2, Fewer
<1>6. LoginsOnce'
  BY <1>5 DEF LoginInv, LoginsOnce
<1>7. ASSUME NEW r \in armed', link'[r] # NoConn PROVE Unasked(link[r])'
  <2>1. CASE r = p
    <3>1. link'[r] = s
      BY <1>1, <2>1 DEF TypeOK
    <3>2. Unasked(s)'
      BY <1>4, <1>5
    <3>. QED
      BY <3>1, <3>2 DEF Unasked
  <2>2. CASE r # p
    <3>1. r \in armed /\ r \in Program /\ link'[r] = link[r]
      BY <1>1, <1>2, <1>7, <2>2 DEF TypeOK
    <3>2. link[r] \in Conn /\ Unasked(link[r])
      BY <1>7, <3>1 DEF TypeOK, LoginInv, ArmedFirst
    <3>3. PICK t \in Conn : t = link[r]
      BY <3>2
    <3>4. Unasked(t)' /\ t = link'[r]
      BY <1>5, <3>1, <3>2, <3>3
    <3>. QED
      BY <3>4 DEF Unasked
  <2>. QED
    BY <2>1, <2>2
<1>8. ArmedFirst'
  BY <1>7 DEF ArmedFirst, Unasked
<1>9. NamesOwn'
  <2>1. ASSUME NEW t \in Conn, who'[t] # Nobody
        PROVE  owner'[t] # Nobody /\ who'[t] = name[owner'[t]]
    BY <1>1, <1>2, <1>3, <2>1 DEF LoginInv, NamesOwn, TypeOK
  <2>. QED
    BY <2>1 DEF NamesOwn
<1>. QED
  BY <1>6, <1>8, <1>9 DEF LoginInv

LEMMA SameNames ==
    ASSUME LoginInv, UNCHANGED <<who, owner>>
    PROVE  NamesOwn'
BY DEF LoginInv, NamesOwn

LEMMA RegisterLogins ==
    ASSUME BusSystemAssumption, TypeOK, LoginInv, NEW p \in Program, Register(p)
    PROVE  LoginInv'
PROOF
<1>1. /\ UNCHANGED <<who, owner, link>> /\ armed' = armed \ {p} /\ p \in armed
  BY DEF Register, bus
<1>2. NamesOwn'
  BY <1>1, SameNames
<1>3. CASE link[p] = NoConn
  <2>1. pipe' = pipe
    BY <1>3 DEF Register
  <2>. QED
    BY <1>1, <1>2, <2>1, ShrinkLogins DEF LoginInv
<1>4. CASE link[p] # NoConn
  <2>1. link[p] \in Conn
    BY <1>4 DEF TypeOK
  <2>2. PICK s \in Conn : s = link[p]
    BY <2>1
  <2>3. pipe' = [pipe EXCEPT ![s] = @ \o Registration(p)] /\ pipe \in [Conn -> Seq(Request)]
    BY <1>4, <2>2 DEF Register, TypeOK
  <2>4. pipe'[s] = pipe[s] \o Registration(p) /\ pipe[s] \in Seq(Request)
    BY <2>3
  <2>5. \A t \in Conn \ {s} : pipe'[t] = pipe[t]
    BY <2>3
  <2>6. LoginsIn(pipe[s]) = {} /\ who[s] = Nobody
    BY <1>1, <1>4, <2>2 DEF LoginInv, ArmedFirst, Unasked
  <2>7. \A j, k \in LoginsIn(pipe'[s]) : j = k
    <3>1. WellOrdered(Registration(p))
      BY RegistrationOrdered
    <3>. QED
      BY <2>4, <2>6, <3>1, LoginsRegistered
  <2>8. OneLogin(s)'
    BY <1>1, <2>6, <2>7, Primed
  <2>9. \A t \in Conn \ {s} : (OneLogin(t) => OneLogin(t)') /\ (Unasked(t) => Unasked(t)')
    BY <1>1, <2>5, Fewer
  <2>10. LoginsOnce'
    BY <2>8, <2>9 DEF LoginInv, LoginsOnce
  <2>11. ASSUME NEW r \in armed', link'[r] # NoConn PROVE Unasked(link[r])'
    <3>1. r \in armed /\ r \in Program /\ r # p /\ link'[r] = link[r]
      BY <1>1, <2>11 DEF TypeOK
    <3>2. link[r] # s /\ link[r] \in Conn
      BY <1>4, <2>2, <2>11, <3>1 DEF TypeOK
    <3>3. Unasked(link[r])
      BY <2>11, <3>1 DEF LoginInv, ArmedFirst
    <3>4. PICK t \in Conn : t = link[r]
      BY <3>2
    <3>5. Unasked(t)' /\ t = link'[r]
      BY <2>9, <3>1, <3>2, <3>3, <3>4
    <3>. QED
      BY <3>5 DEF Unasked
  <2>12. ArmedFirst'
    BY <2>11 DEF ArmedFirst, Unasked
  <2>. QED
    BY <1>2, <2>10, <2>12 DEF LoginInv
<1>. QED
  BY <1>3, <1>4

LEMMA PublishLogins ==
    ASSUME BusSystemAssumption, TypeOK, LoginInv, NEW p \in Program, NEW m \in Message,
           Publish(p, m)
    PROVE  LoginInv'
PROOF
<1>1. /\ UNCHANGED <<who, owner, link, armed>> /\ link[p] # NoConn
      /\ pipe' = [pipe EXCEPT ![link[p]] = Append(@, m)]
  BY DEF Publish, bus, programs
<1>2. link[p] \in Conn /\ pipe \in [Conn -> Seq(Request)]
  BY <1>1 DEF TypeOK
<1>3. pipe'[link[p]] = Append(pipe[link[p]], m) /\ \A t \in Conn \ {link[p]} : pipe'[t] = pipe[t]
  BY <1>1, <1>2
<1>4. LoginsIn(pipe'[link[p]]) = LoginsIn(pipe[link[p]])
  BY <1>2, <1>3, LoginsAppended
<1>5. \A t \in Conn : LoginsIn(pipe'[t]) = LoginsIn(pipe[t])
  BY <1>3, <1>4
<1>6. LoginsOnce' /\ ArmedFirst'
  BY <1>1, <1>5, ShrinkLogins
<1>. QED
  BY <1>1, <1>6, SameNames DEF LoginInv

LEMMA EndLogins ==
    ASSUME BusSystemAssumption, TypeOK, LoginInv, NEW p \in Program, End(p)
    PROVE  LoginInv'
PROOF
<1>1. /\ UNCHANGED <<who, owner>> /\ armed' = armed \ {p}
      /\ link' = [link EXCEPT ![p] = NoConn]
  BY DEF End, bus
<1>2. \A r \in Program : link'[r] = link[r] \/ link'[r] = NoConn
  BY <1>1 DEF TypeOK
<1>3. ASSUME NEW t \in Conn PROVE LoginsIn(pipe'[t]) \subseteq LoginsIn(pipe[t])
  <2>1. CASE link[p] = t
    <3>1. t # NoConn /\ pipe[t] \in Seq(Request)
      BY DEF BusSystemAssumption, TypeOK
    <3>2. PICK n \in 0..Len(pipe[t]) : pipe' = [pipe EXCEPT ![t] = SubSeq(@, 1, n)]
      BY <2>1, <3>1 DEF End
    <3>3. pipe'[t] = SubSeq(pipe[t], 1, n)
      BY <3>2 DEF TypeOK
    <3>. QED
      BY <3>1, <3>3, LoginsCut
  <2>2. CASE link[p] # t
    <3>1. pipe'[t] = pipe[t]
      BY <2>2 DEF End, TypeOK
    <3>. QED
      BY <3>1
  <2>. QED
    BY <2>1, <2>2
<1>4. LoginsOnce' /\ ArmedFirst'
  BY <1>1, <1>2, <1>3, ShrinkLogins
<1>. QED
  BY <1>1, <1>4, SameNames DEF LoginInv

(* A login is the only request that changes a name, and gives the name of  *)
(* the program at the other end.                                           *)
LEMMA HandledName ==
    ASSUME BusSystemAssumption, TypeOK, NEW s \in open, NEW m \in Request, handle_msg(s, m)
    PROVE  who'[s] = who[s] \/ (m = mbus_register_object /\ who'[s] = name[owner[s]])
PROOF
<1>1. m # mbus_register_object => who'[s] = who[s]
  BY Handled
<1>2. CASE m = mbus_register_object
  <2>1. Bus!Login(s, name[owner[s]])
    BY <1>2, Requests DEF handle_msg, Message
  <2>2. s \in Conn /\ who \in [Conn -> User \cup {Nobody}]
    BY DEF TypeOK, Bus!TypeOK
  <2>. QED
    BY <1>2, <2>1, <2>2 DEF Bus!Login
<1>. QED
  BY <1>1, <1>2

LEMMA ReadLogins ==
    ASSUME BusSystemAssumption, TypeOK, LoginInv, NEW s \in Conn, handle_read(s)
    PROVE  LoginInv'
PROOF
<1>1. /\ pipe[s] \in Seq(Request) /\ pipe[s] # <<>> /\ s \in open
      /\ handle_msg(s, Head(pipe[s]))
      /\ pipe' = [pipe EXCEPT ![s] = Tail(@)]
      /\ UNCHANGED <<link, owner, armed>>
  BY DEF handle_read, TypeOK, programs
<1>. PICK m \in Request : m = Head(pipe[s])
  BY <1>1
<1>2. \A t \in Conn \ {s} : who'[t] = who[t]
  BY <1>1, Handled
<1>3. who'[s] = who[s] \/ (m = mbus_register_object /\ who'[s] = name[owner[s]])
  BY <1>1, HandledName
<1>4. pipe'[s] = Tail(pipe[s]) /\ \A t \in Conn \ {s} : pipe'[t] = pipe[t]
  BY <1>1 DEF TypeOK
<1>5. /\ \A j \in LoginsIn(pipe'[s]) : j + 1 \in LoginsIn(pipe[s]) /\ j \in Nat /\ j > 0
      /\ m = mbus_register_object => 1 \in LoginsIn(pipe[s])
  BY <1>1, <1>4, LoginsTail
<1>6. \A j, k \in LoginsIn(pipe[s]) : j = k
  BY DEF LoginInv, LoginsOnce, OneLogin
<1>7. m = mbus_register_object => LoginsIn(pipe'[s]) = {}
  <2>1. ASSUME m = mbus_register_object, NEW j \in LoginsIn(pipe'[s]) PROVE FALSE
    <3>1. j + 1 = 1 /\ j \in Nat /\ j > 0
      BY <1>5, <1>6, <2>1
    <3>. QED
      BY <3>1
  <2>. QED
    BY <2>1
<1>8. \A t \in Conn \ {s} : (OneLogin(t) => OneLogin(t)') /\ (Unasked(t) => Unasked(t)')
  BY <1>2, <1>4, Fewer
<1>9. OneLogin(s)'
  <2>1. \A j, k \in LoginsIn(pipe'[s]) : j = k
    <3>1. ASSUME NEW j \in LoginsIn(pipe'[s]), NEW k \in LoginsIn(pipe'[s]) PROVE j = k
      <4>1. j + 1 = k + 1 /\ j \in Nat /\ k \in Nat
        BY <1>5, <1>6
      <4>. QED
        BY <4>1
    <3>. QED
      BY <3>1
  <2>2. ASSUME LoginsIn(pipe'[s]) # {} PROVE who'[s] = Nobody
    <3>1. LoginsIn(pipe[s]) # {} /\ who'[s] = who[s]
      BY <1>3, <1>5, <1>7, <2>2
    <3>. QED
      BY <3>1 DEF LoginInv, LoginsOnce, OneLogin
  <2>. QED
    BY <2>1, <2>2, Primed
<1>10. Unasked(s) => Unasked(s)'
  <2>1. ASSUME Unasked(s) PROVE LoginsIn(pipe'[s]) = {} /\ who'[s] = Nobody
    BY <1>3, <1>5, <2>1 DEF Unasked
  <2>. QED
    BY <2>1, Primed
<1>11. LoginsOnce'
  BY <1>8, <1>9 DEF LoginInv, LoginsOnce
<1>12. ASSUME NEW r \in armed', link'[r] # NoConn PROVE Unasked(link[r])'
  <2>1. r \in armed /\ r \in Program /\ link'[r] = link[r]
    BY <1>1, <1>12 DEF TypeOK
  <2>2. link[r] \in Conn /\ Unasked(link[r])
    BY <1>12, <2>1 DEF TypeOK, LoginInv, ArmedFirst
  <2>3. PICK t \in Conn : t = link[r]
    BY <2>2
  <2>4. Unasked(t)' /\ t = link'[r]
    BY <1>8, <1>10, <2>1, <2>2, <2>3
  <2>. QED
    BY <2>4 DEF Unasked
<1>13. ArmedFirst'
  BY <1>12 DEF ArmedFirst, Unasked
<1>14. NamesOwn'
  <2>1. owner[s] # Nobody
    BY <1>1 DEF TypeOK
  <2>2. ASSUME NEW t \in Conn, who'[t] # Nobody
        PROVE  owner'[t] # Nobody /\ who'[t] = name[owner'[t]]
    BY <1>1, <1>2, <1>3, <2>1, <2>2 DEF LoginInv, NamesOwn
  <2>. QED
    BY <2>2 DEF NamesOwn
<1>. QED
  BY <1>11, <1>13, <1>14 DEF LoginInv

LEMMA EndsLogins ==
    ASSUME TypeOK, NEW how, Ends(how)
    PROVE  LoginInv'
PROOF
<1>1. /\ who' = [s \in Conn |-> Nobody] /\ pipe' = [s \in Conn |-> <<>>]
      /\ link' = [p \in Program |-> NoConn] /\ armed' = armed /\ armed \subseteq Program
  BY DEF Ends, TypeOK
<1>2. ASSUME NEW s \in Conn PROVE OneLogin(s)'
  <2>1. LoginsIn(pipe'[s]) = {}
    BY <1>1 DEF LoginsIn
  <2>. QED
    BY <2>1, Primed
<1>. QED
  BY <1>1, <1>2 DEF LoginInv, LoginsOnce, ArmedFirst, NamesOwn

LEMMA CloseLogins ==
    ASSUME BusSystemAssumption, TypeOK, LoginInv, NEW s \in Conn, handle_close(s)
    PROVE  LoginInv'
PROOF
<1>1. /\ who' = [who EXCEPT ![s] = Nobody]
      /\ owner' = [owner EXCEPT ![s] = Nobody]
      /\ UNCHANGED <<link, pipe, armed>>
  BY DEF handle_close, Bus!Disconnect
<1>2. LoginsOnce' /\ ArmedFirst'
  <2>1. \A t \in Conn : who'[t] = who[t] \/ who'[t] = Nobody
    BY <1>1 DEF TypeOK, Bus!TypeOK
  <2>. QED
    BY <1>1, <2>1, ShrinkLogins
<1>3. NamesOwn'
  BY <1>1 DEF LoginInv, NamesOwn, TypeOK, Bus!TypeOK
<1>. QED
  BY <1>2, <1>3 DEF LoginInv

LEMMA LoginStep ==
    ASSUME BusSystemAssumption, Inv, LoginInv, [Next]_vars
    PROVE  LoginInv'
PROOF
<1>. USE BusSystemAssumption DEF Inv
<1>1. ASSUME NEW p \in Program, Start(p) PROVE LoginInv'
  BY <1>1, StartLogins
<1>2. ASSUME NEW p \in Program, Register(p) PROVE LoginInv'
  BY <1>2, RegisterLogins
<1>3. ASSUME NEW p \in Program, End(p) PROVE LoginInv'
  BY <1>3, EndLogins
<1>4. ASSUME NEW p \in Program, NEW m \in Message, Publish(p, m) PROVE LoginInv'
  BY <1>4, PublishLogins
<1>5. ASSUME UNCHANGED <<who, owner, link, pipe, armed>> PROVE LoginInv'
  BY <1>5, ShrinkLogins, SameNames DEF LoginInv
<1>6. ASSUME NEW s \in Conn, handle_read(s) PROVE LoginInv'
  BY <1>6, ReadLogins
<1>7. ASSUME NEW s \in Conn, handle_close(s) PROVE LoginInv'
  BY <1>7, CloseLogins
<1>8. ASSUME NEW s \in Conn, handle_write(s) PROVE LoginInv'
  BY <1>5, <1>8, EndsLogins DEF handle_write, bus, programs
<1>9. ASSUME Ends("killed") PROVE LoginInv'
  BY <1>9, EndsLogins
<1>. QED
  BY <1>1, <1>2, <1>3, <1>4, <1>5, <1>6, <1>7, <1>8, <1>9
     DEF Next, Restart, handle_accept, Bus!Connect, vars, bus, programs

LEMMA LoginInvariant == Spec => []LoginInv
PROOF
<1>1. Init => LoginInv
  BY DEF Init, Bus!Init, LoginInv, LoginsOnce, OneLogin, LoginsIn, ArmedFirst, NamesOwn
<1>2. Inv /\ LoginInv /\ [Next]_vars => LoginInv'
  BY LoginStep, BusSystemAssumption
<1>. QED
  BY <1>1, <1>2, Invariant, PTL DEF Spec

(* Each connection logs in once: no program sends a second login on it,    *)
(* whatever programs and daemon end and start again.  What the daemon does *)
(* with a second one (the pointer to its client is overwritten) is         *)
(* therefore out of reach of the programs of the repository, and the       *)
(* assumption of one login per connection that Mbusd makes holds of them.  *)
THEOREM OneLoginEach == Spec => []LoginsOnce
BY LoginInvariant, PTL DEF LoginInv

(* No program is ever known by the name of another: a name is freed with   *)
(* its connection before the descriptor is used again (handle_close), and  *)
(* the end of the daemon frees all.                                        *)
THEOREM KnownByOwnName == Spec => []NamesOwn
BY LoginInvariant, PTL DEF LoginInv

-----------------------------------------------------------------------------
(* What the daemon does in company is what MsgBus says, until it ends.     *)

BusEnds == Bus!Init'

OnTheBus == [][Bus!Next \/ BusEnds]_bus

LEMMA MessageIsBusStep ==
    ASSUME BusSystemAssumption, TypeOK, NEW s \in open, NEW m, handle_msg(s, m)
    PROVE  Bus!Next
PROOF
<1>1. s \in Conn /\ name[owner[s]] \in User
  BY DEF TypeOK, Bus!TypeOK, BusSystemAssumption
<1>2. CASE Bus!Login(s, name[owner[s]])
  BY <1>1, <1>2 DEF Bus!Next
<1>3. ASSUME NEW g \in Group, Bus!CreateGroup(s, g) \/ Bus!JoinGroup(s, g) \/ Bus!GroupMsg(s, g)
      PROVE  Bus!Next
  BY <1>1, <1>3 DEF Bus!Next
<1>4. ASSUME NEW u \in User, Bus!PrivateMsg(s, u) PROVE Bus!Next
  BY <1>1, <1>4 DEF Bus!Next
<1>. QED
  BY <1>2, <1>3, <1>4 DEF handle_msg

LEMMA BusSteps ==
    ASSUME BusSystemAssumption, TypeOK, [Next]_vars
    PROVE  [Bus!Next \/ BusEnds]_bus
PROOF
<1>1. ASSUME NEW s \in Conn, handle_accept(s) PROVE Bus!Next
  BY <1>1 DEF handle_accept, Bus!Next
<1>2. ASSUME NEW s \in Conn, handle_read(s) PROVE Bus!Next
  BY <1>2, MessageIsBusStep DEF handle_read
<1>3. ASSUME NEW s \in Conn, handle_close(s) PROVE Bus!Next
  BY <1>3 DEF handle_close, Bus!Next
<1>4. ASSUME NEW how, Ends(how) PROVE BusEnds
  BY <1>4 DEF Ends, BusEnds, Bus!Init
<1>5. CASE UNCHANGED bus
  BY <1>5
<1>. QED
  BY <1>1, <1>2, <1>3, <1>4, <1>5
     DEF Next, Start, Register, Publish, End, handle_write, Restart, vars

(* Every step of the programs and the daemon is one of the message bus, or *)
(* none, or the end of the daemon, which leaves the bus as it starts.      *)
THEOREM CompanyIsABus == Spec => OnTheBus
PROOF
<1>1. Inv /\ [Next]_vars => [Bus!Next \/ BusEnds]_bus
  BY BusSteps, BusSystemAssumption DEF Inv
<1>. QED
  BY <1>1, Invariant, PTL DEF Spec, OnTheBus

BusInv == Bus!TypeOK /\ Bus!OneHolderPerName /\ Bus!MembersAreLoggedIn

LEMMA BusStart == Bus!Init => BusInv
BY DEF Bus!Init, BusInv, Bus!TypeOK, Bus!OneHolderPerName, Bus!MembersAreLoggedIn, Bus!LoggedIn

LEMMA BusStep == BusInv /\ [Bus!Next \/ BusEnds]_bus => BusInv'
PROOF
<1>. SUFFICES ASSUME BusInv, [Bus!Next \/ BusEnds]_bus PROVE BusInv'
  OBVIOUS
<1>. USE DEF BusInv, Bus!TypeOK, Bus!OneHolderPerName, Bus!MembersAreLoggedIn, Bus!LoggedIn
<1>1. ASSUME NEW s \in Conn, Bus!Connect(s) PROVE BusInv'
  BY <1>1 DEF Bus!Connect
<1>2. ASSUME NEW s \in Conn, NEW u \in User, Bus!Login(s, u) PROVE BusInv'
  <2>1. CASE Bus!InUse(u)
    BY <1>2, <2>1 DEF Bus!Login
  <2>2. CASE ~Bus!InUse(u)
    <3>1. /\ s \in open /\ who[s] = Nobody
          /\ who' = [who EXCEPT ![s] = u]
          /\ UNCHANGED <<open, groups, joined>> /\ delivered' = {}
      BY <1>2, <2>2 DEF Bus!Login
    <3>2. \A t \in Conn : who[t] # u
      BY <2>2 DEF Bus!InUse
    <3>3. joined[s] = {}
      BY <3>1
    <3>. QED
      BY <3>1, <3>2, <3>3
  <2>. QED
    BY <2>1, <2>2
<1>3. ASSUME NEW s \in Conn, NEW g \in Group, Bus!CreateGroup(s, g) PROVE BusInv'
  BY <1>3 DEF Bus!CreateGroup
<1>4. ASSUME NEW s \in Conn, NEW g \in Group, Bus!JoinGroup(s, g) PROVE BusInv'
  BY <1>4 DEF Bus!JoinGroup
<1>5. ASSUME NEW s \in Conn, NEW g \in Group, Bus!LeaveGroup(s, g) PROVE BusInv'
  BY <1>5 DEF Bus!LeaveGroup
<1>6. ASSUME NEW s \in Conn, NEW g \in Group, Bus!GroupMsg(s, g) PROVE BusInv'
  BY <1>6 DEF Bus!GroupMsg
<1>7. ASSUME NEW s \in Conn, NEW u \in User, Bus!PrivateMsg(s, u) PROVE BusInv'
  BY <1>7 DEF Bus!PrivateMsg
<1>8. ASSUME NEW s \in Conn, Bus!Heartbeat(s) PROVE BusInv'
  BY <1>8 DEF Bus!Heartbeat
<1>9. ASSUME NEW s \in Conn, Bus!Disconnect(s) PROVE BusInv'
  BY <1>9 DEF Bus!Disconnect
<1>10. CASE BusEnds
  BY <1>10 DEF BusEnds, Bus!Init
<1>11. CASE UNCHANGED bus
  BY <1>11 DEF bus
<1>. QED
  BY <1>1, <1>2, <1>3, <1>4, <1>5, <1>6, <1>7, <1>8, <1>9, <1>10, <1>11 DEF Bus!Next

LEMMA BusInvariant == Spec => []BusInv
PROOF
<1>1. Init => Bus!Init
  BY DEF Init
<1>. QED
  BY <1>1, BusStart, BusStep, CompanyIsABus, PTL DEF Spec, OnTheBus

(* Of two programs with one name, one at most is known by it: whichever of *)
(* them connects first, and although a program that starts again meets its *)
(* own connection of before, which the daemon has not closed yet.          *)
THEOREM NameInCompany == Spec => []Bus!OneHolderPerName
BY BusInvariant, PTL DEF BusInv

(* No member of a group is left behind by a program that ended, nor by a *)
(* daemon that did: memberships are of open connections with a name.       *)
THEOREM MembersInCompany == Spec => []Bus!MembersAreLoggedIn
BY BusInvariant, PTL DEF BusInv

-----------------------------------------------------------------------------
(* What is published arrives. *)

(* A program that asked for the group, is accepted, and has no request to  *)
(* join it pending.                                                        *)
Registered(t, g) ==
    /\ who[t] # Nobody /\ ~Ghost(t)
    /\ g \in Joins(owner[t]) /\ ~Requested(t, mbus_join_group(g))

(* When the daemon handles a message to a group, from a program that it    *)
(* knows, it sends it to every other program that is registered for it.    *)
PublishReaches ==
    \A s \in Conn, g \in Group \ {Unnamed} :
        handle_read(s) /\ Head(pipe[s]) = mbus_sendmsg_in_group(g) /\ who[s] # Nobody =>
            \A t \in open \ {s} : Registered(t, g) => t \in delivered'

LEMMA GroupReached ==
    ASSUME BusSystemAssumption, RegisteredJoins, BusInv,
           NEW s \in Conn, NEW g \in Group \ {Unnamed},
           handle_read(s), Head(pipe[s]) = mbus_sendmsg_in_group(g), who[s] # Nobody,
           NEW t \in open \ {s}, Registered(t, g)
    PROVE  t \in delivered'
PROOF
<1>1. handle_msg(s, mbus_sendmsg_in_group(g))
  BY DEF handle_read
<1>2. Bus!GroupMsg(s, g)
  BY <1>1 DEF handle_msg, mbus_sendmsg_in_group, mbus_register_object, mbus_create_group,
              mbus_join_group, mbus_sendmsg_private
<1>3. t \in Conn /\ g \in joined[t]
  BY DEF RegisteredJoins, Registered, BusInv, Bus!TypeOK
<1>4. g \in groups
  BY <1>3 DEF BusInv, Bus!MembersAreLoggedIn
<1>. QED
  BY <1>2, <1>3, <1>4 DEF Bus!GroupMsg, Bus!LoggedIn, BusSystemAssumption

(* A message that is published to a group reaches all programs registered  *)
(* for it, whatever else started, ended or failed before: that is what the *)
(* agent and the configuration manager build on when they publish to the   *)
(* mesh group and never ask who is there.  An mbus_cli that is accepted    *)
(* but asked for no group, as with -p alone, is sent nothing that way.     *)
THEOREM PublishedToAll == Spec => [][PublishReaches]_vars
PROOF
<1>1. RegisteredJoins /\ BusInv /\ [Next]_vars => [PublishReaches]_vars
  BY GroupReached, BusSystemAssumption DEF PublishReaches
<1>. QED
  BY <1>1, AcceptedAreMembers, BusInvariant, PTL DEF Spec

-----------------------------------------------------------------------------
(* What a program waits for happens: the steps GhostsFreed and             *)
(* EventuallyMember, which are about fairness, are made of.                *)

(* The login of a program whose name no other connection has is granted. *)
NotRefused ==
    \A p \in Program :
        link[p] # NoConn /\ handle_read(link[p]) /\ Head(pipe[link[p]]) = mbus_register_object
            /\ Alone(p) => who'[link[p]] = name[p]

LEMMA FreeNameGranted ==
    ASSUME BusSystemAssumption, TypeOK, LoginInv,
           NEW p \in Program, link[p] # NoConn, handle_read(link[p]),
           Head(pipe[link[p]]) = mbus_register_object, Alone(p)
    PROVE  who'[link[p]] = name[p]
PROOF
<1>1. /\ link[p] \in Conn /\ owner[link[p]] = p
      /\ handle_msg(link[p], mbus_register_object)
      /\ pipe[link[p]] \in Seq(Request) /\ pipe[link[p]] # <<>>
      /\ who \in [Conn -> User \cup {Nobody}] /\ name[p] \in User /\ Nobody \notin User
  BY DEF TypeOK, Bus!TypeOK, handle_read, BusSystemAssumption
<1>2. Bus!Login(link[p], name[p])
  BY <1>1, Requests DEF handle_msg, Message
<1>3. 1 \in LoginsIn(pipe[link[p]])
  BY <1>1, LoginsTail
<1>4. who[link[p]] = Nobody
  BY <1>1, <1>3 DEF LoginInv, LoginsOnce, OneLogin
<1>5. ASSUME NEW t \in Conn, who[t] = name[p] PROVE FALSE
  <2>1. t # link[p] /\ owner[t] # Nobody /\ name[owner[t]] = name[p]
    BY <1>1, <1>4, <1>5 DEF LoginInv, NamesOwn
  <2>. QED
    BY <2>1 DEF Alone
<1>6. ~Bus!InUse(name[p])
  BY <1>5 DEF Bus!InUse
<1>. QED
  BY <1>1, <1>2, <1>6 DEF Bus!Login

(* A program is refused only for a name another connection has, whether    *)
(* its user has it or not yet: since each name the daemon has granted is   *)
(* that of the program at its connection, a name that no connection's      *)
(* program has is free.                                                    *)
THEOREM FreeNamesGranted == Spec => [][NotRefused]_vars
PROOF
<1>1. TypeOK /\ LoginInv /\ [Next]_vars => [NotRefused]_vars
  BY FreeNameGranted, BusSystemAssumption DEF NotRefused
<1>. QED
  BY <1>1, TypeCorrect, LoginInvariant, PTL DEF Spec

(* Nothing is added to the requests of a program that has ended, and its   *)
(* connection is nobody else's before it is closed: there the daemon's     *)
(* handlers run down what is left.                                         *)
GhostRunsDown ==
    \A s \in Conn : Ghost(s) =>
        \/ owner'[s] = Nobody /\ s \notin open' /\ who'[s] = Nobody
        \/ /\ Ghost(s)' /\ owner'[s] = owner[s]
           /\ Len(pipe'[s]) <= Len(pipe[s])
           /\ handle_read(s) => Len(pipe'[s]) < Len(pipe[s])

LEMMA GhostStep ==
    ASSUME BusSystemAssumption, TypeOK, [Next]_vars, NEW s \in Conn, Ghost(s)
    PROVE  \/ owner'[s] = Nobody /\ s \notin open' /\ who'[s] = Nobody
           \/ /\ Ghost(s)' /\ owner'[s] = owner[s]
              /\ Len(pipe'[s]) <= Len(pipe[s])
              /\ handle_read(s) => Len(pipe'[s]) < Len(pipe[s])
PROOF
<1>. DEFINE Freed == owner'[s] = Nobody /\ s \notin open' /\ who'[s] = Nobody
            Stays == Ghost(s)' /\ owner'[s] = owner[s]
<1>1. /\ pipe[s] \in Seq(Request) /\ owner[s] \in Program /\ link[owner[s]] # s
      /\ \A p \in Program : link[p] # s
      /\ Len(pipe[s]) \in Nat
  BY DEF Ghost, TypeOK
<1>2. ASSUME NEW t \in Conn, handle_read(t)
      PROVE  /\ Stays /\ pipe'[s] = IF t = s THEN Tail(pipe[s]) ELSE pipe[s]
             /\ pipe[t] # <<>>
  BY <1>2 DEF handle_read, programs, Ghost, TypeOK
<1>3. ASSUME handle_read(s) PROVE Len(pipe'[s]) < Len(pipe[s])
  <2>1. pipe'[s] = Tail(pipe[s]) /\ pipe[s] # <<>>
    BY <1>2, <1>3
  <2>2. Len(Tail(pipe[s])) = Len(pipe[s]) - 1
    BY <1>1, <2>1
  <2>. QED
    BY <1>1, <2>1, <2>2
<1>4. ASSUME NEW p \in Program, Start(p) PROVE Stays /\ pipe'[s] = pipe[s]
  <2>1. PICK t \in Conn : /\ owner[t] = Nobody
                          /\ owner' = [owner EXCEPT ![t] = p]
                          /\ link' = [link EXCEPT ![p] = t]
    BY <1>4 DEF Start
  <2>. QED
    BY <1>1, <1>4, <2>1 DEF Start, Ghost, TypeOK, BusSystemAssumption
<1>5. ASSUME NEW p \in Program, Register(p) PROVE Stays /\ pipe'[s] = pipe[s]
  BY <1>1, <1>5 DEF Register, Ghost, TypeOK
<1>6. ASSUME NEW p \in Program, NEW m \in Message, Publish(p, m) PROVE Stays /\ pipe'[s] = pipe[s]
  BY <1>1, <1>6 DEF Publish, Ghost, TypeOK, programs
<1>7. ASSUME NEW p \in Program, End(p) PROVE Stays /\ pipe'[s] = pipe[s]
  <2>1. owner' = owner /\ link' = [link EXCEPT ![p] = NoConn] /\ s # NoConn
    BY <1>7 DEF End, BusSystemAssumption
  <2>2. pipe'[s] = pipe[s]
    BY <1>1, <1>7 DEF End, TypeOK
  <2>. QED
    BY <1>1, <2>1, <2>2 DEF Ghost, TypeOK
<1>8. ASSUME NEW t \in Conn, handle_close(t) PROVE Freed \/ (Stays /\ pipe'[s] = pipe[s])
  <2>1. /\ open' = open \ {t} /\ who' = [who EXCEPT ![t] = Nobody]
        /\ owner' = [owner EXCEPT ![t] = Nobody] /\ UNCHANGED <<link, pipe>>
    BY <1>8 DEF handle_close, Bus!Disconnect
  <2>. QED
    BY <1>1, <2>1 DEF Ghost, TypeOK, Bus!TypeOK
<1>9. ASSUME NEW how, Ends(how) PROVE Freed
  BY <1>9 DEF Ends
<1>10. ASSUME UNCHANGED <<link, owner, pipe>> PROVE Stays /\ pipe'[s] = pipe[s]
  BY <1>10 DEF Ghost
<1>11. Freed \/ (Stays /\ (pipe'[s] = pipe[s] \/ handle_read(s)))
  <2>1. ASSUME NEW t \in Conn, handle_write(t) PROVE Freed \/ (Stays /\ pipe'[s] = pipe[s])
    BY <1>9, <1>10, <2>1 DEF handle_write, programs
  <2>2. ASSUME NEW t \in Conn, handle_accept(t) PROVE Stays /\ pipe'[s] = pipe[s]
    BY <1>10, <2>2 DEF handle_accept, programs
  <2>3. ASSUME NEW t \in Conn, handle_read(t)
        PROVE  Stays /\ (pipe'[s] = pipe[s] \/ handle_read(s))
    BY <1>2, <2>3
  <2>4. CASE Restart \/ UNCHANGED vars
    BY <1>10, <2>4 DEF Restart, vars, programs
  <2>. HIDE DEF Freed, Stays
  <2>. QED
    BY <1>4, <1>5, <1>6, <1>7, <1>8, <1>9, <2>1, <2>2, <2>3, <2>4 DEF Next
<1>. QED
  BY <1>1, <1>3, <1>11

(* The daemon is busy with a program that ended for as many requests as it *)
(* left and no longer, and frees its name and its slot with the last: no   *)
(* other program, its successor included, gets hold of the connection      *)
(* before.                                                                 *)
THEOREM GhostsRunDown == Spec => [][GhostRunsDown]_vars
PROOF
<1>1. TypeOK /\ [Next]_vars => [GhostRunsDown]_vars
  BY GhostStep, BusSystemAssumption DEF GhostRunsDown
<1>. QED
  BY <1>1, TypeCorrect, PTL DEF Spec
=============================================================================
