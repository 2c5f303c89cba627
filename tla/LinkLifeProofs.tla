--------------------------- MODULE LinkLifeProofs ---------------------------
(***************************************************************************)
(* Proofs about the life of a device, for every set of devices, sockets,   *)
(* PDRs and CPUs: whoever closes, deletes, fails or unloads in whatever    *)
(* order, references are exact and nothing in use is freed.                *)
(***************************************************************************)
EXTENDS LinkLife, TLAPS, FiniteSetTheorems

-----------------------------------------------------------------------------
\* The inductive invariant

\* The PDRs that hold a reference to socket s.
Holders(s) == {p \in Pdr : pdr[p].life # "free" /\ pdr[p].sk = s}

\* A PDR has a socket until its callback has run.
PdrHolds == \A p \in Pdr : pdr[p].life # "free" => pdr[p].sk \in Sock

\* Where a socket is in newlink, its tunnel is already there.
SockStage ==
  rtnl.at = "sock" =>
    \E d \in Dev :
      /\ rtnl.devs = {d} /\ dev[d] = [NoDev EXCEPT !.mem = TRUE]
      /\ rtnl.sock # None => sock[rtnl.sock].user = d

\* A link that newlink has not finished, before and after its arrays are there.
Building ==
  /\ rtnl.at \in {"tables", "register", "list"} =>
       \E d \in Dev :
         /\ rtnl.devs = {d} /\ dev[d].mem /\ ~dev[d].listed
         /\ dev[d].up <=> rtnl.at = "list"
         /\ dev[d].tables = IF rtnl.at = "tables" THEN {} ELSE Tables
  /\ rtnl.at \in {"sock", "tables", "register", "list"} => \A d \in rtnl.devs : PdrsOf(d) = {}

\* What the teardown has taken from a device.
Emptying(d) == PdrsOf(d) = {}
Empty(d) == PdrsOf(d) = {} /\ dev[d].tables = {} /\ ~dev[d].listed

Removal == {"unlink", "free", "close", "uninit", "drop"}

Teardown ==
  /\ rtnl.at \in Removal => rtnl.todo \subseteq rtnl.devs /\ \A d \in rtnl.devs : dev[d].mem
  /\ rtnl.at = "unlink" => \A d \in rtnl.devs \ rtnl.todo : Empty(d)
  /\ rtnl.at = "free" =>
       \E e \in rtnl.devs \ rtnl.todo :
         Emptying(e) /\ \A d \in rtnl.devs \ rtnl.todo : d # e => Empty(d)
  /\ rtnl.at \in {"close", "uninit", "drop"} => \A d \in rtnl.devs : Empty(d)
  /\ rtnl.at \in {"uninit", "drop"} => \A d \in rtnl.devs : ~dev[d].up
  /\ rtnl.at = "uninit" => \A d \in rtnl.devs \ rtnl.todo : dev[d].sk1u = None
  /\ rtnl.at = "drop" => \A d \in rtnl.devs : dev[d].sk1u = None

\* A device that no operation is about is registered; no operation, no device.
Settled ==
  /\ \A d \in Dev \ rtnl.devs : dev[d].mem => dev[d].up /\ dev[d].tables = Tables
  /\ \A d \in Dev : dev[d].up \/ dev[d].listed => dev[d].mem
  /\ rtnl.at = "idle" => rtnl.devs = {}

\* How far the module is registered; without its link operations there is no
\* device but those that are being removed.
Loading == { {}, {"rtnl"}, {"rtnl", "genl"}, {"rtnl", "genl", "pernet"} }
Registered ==
  /\ mod.phase = "load" => mod.reg \in Loading
  /\ mod.phase = "out" => mod.reg = {} /\ rtnl.at = "idle"
  /\ mod.phase = "in" => "rtnl" \in mod.reg
  /\ "rtnl" \notin mod.reg =>
       \A d \in Dev : dev[d].mem => d \in rtnl.devs /\ rtnl.at \in Removal \cup {"idle"}

\* What a handler holds waits for it.
RxHolds ==
  \A c \in Cpu :
    /\ rx[c].at = "idle" => rx[c] = Idle
    /\ rx[c].at # "idle" => rx[c].dev \in Dev
    /\ rx[c].sk # None => \/ sock[rx[c].sk].life = "live"
                          \/ sock[rx[c].sk].life = "dying" /\ c \in sock[rx[c].sk].wait
    /\ rx[c].pdr # None => \/ pdr[rx[c].pdr].life = "live"
                           \/ pdr[rx[c].pdr].life = "dying" /\ c \in pdr[rx[c].pdr].wait

IInv ==
  /\ TypeOK
  /\ RefsExact /\ PdrHolds
  /\ EncapExact /\ SockStage
  /\ NothingLeft /\ Building /\ Teardown /\ Settled
  /\ Registered
  /\ RxHolds

-----------------------------------------------------------------------------
\* Operators

\* A reference that is dropped, and what the last one does.
LEMMA PutIs ==
  ASSUME NEW S \in [Sock -> SockType], NEW s \in Sock, S[s].refs # 0
  PROVE  /\ Put(S, s) \in [Sock -> SockType]
         /\ \A t \in Sock : t # s => Put(S, s)[t] = S[t]
         /\ Put(S, s)[s].fd = S[s].fd
         /\ Put(S, s)[s].user = S[s].user
         /\ Put(S, s)[s].refs = S[s].refs - 1
         /\ Put(S, s)[s].life = IF S[s].refs = 1 THEN "dying" ELSE S[s].life
         /\ Put(S, s)[s].wait = IF S[s].refs = 1 THEN InSection ELSE S[s].wait
<1> DEFINE r == IF S[s].refs = 1
                THEN [S[s] EXCEPT !.refs = 0, !.life = "dying", !.wait = InSection]
                ELSE [S[s] EXCEPT !.refs = @ - 1]
<1>1. Put(S, s) = [S EXCEPT ![s] = r]
  BY DEF Put
<1>2. S[s] \in SockType /\ InSection \in SUBSET Cpu
  BY DEF InSection
<1>3. /\ r \in SockType
      /\ r.fd = S[s].fd /\ r.user = S[s].user /\ r.refs = S[s].refs - 1
      /\ r.life = IF S[s].refs = 1 THEN "dying" ELSE S[s].life
      /\ r.wait = IF S[s].refs = 1 THEN InSection ELSE S[s].wait
  <2>1. CASE S[s].refs = 1
    <3>1. r = [S[s] EXCEPT !.refs = 0, !.life = "dying", !.wait = InSection]
      BY <2>1
    <3>. HIDE DEF r
    <3>2. r \in SockType
      BY <1>2, <3>1 DEF SockType
    <3>3. r.fd = S[s].fd /\ r.user = S[s].user /\ r.refs = 0 /\ r.life = "dying"
          /\ r.wait = InSection
      BY <1>2, <3>1 DEF SockType
    <3>. QED
      BY <2>1, <3>2, <3>3
  <2>2. CASE S[s].refs # 1
    <3>1. r = [S[s] EXCEPT !.refs = @ - 1]
      BY <2>2
    <3>2. S[s].refs \in Nat /\ S[s].refs - 1 \in Nat
      BY <1>2 DEF SockType
    <3>. HIDE DEF r
    <3>. QED
      BY <1>2, <2>2, <3>1, <3>2 DEF SockType
  <2>. QED
    BY <2>1, <2>2
<1>. HIDE DEF r
<1>. QED
  BY <1>1, <1>3

\* A tunnel that is disabled takes its reference along.
LEMMA DisabledSockIs ==
  ASSUME TypeOK, RefsExact, NEW s \in Sock
  PROVE  /\ DisabledSock(s) \in [Sock -> SockType]
         /\ \A t \in Sock : t # s => DisabledSock(s)[t] = sock[t]
         /\ sock[s].user = None => DisabledSock(s) = sock
         /\ DisabledSock(s)[s].fd = sock[s].fd
         /\ DisabledSock(s)[s].user = None
         /\ sock[s].user # None =>
              LET last == sock[s].refs = 1
              IN  /\ sock[s].refs # 0
                  /\ DisabledSock(s)[s].refs = sock[s].refs - 1
                  /\ DisabledSock(s)[s].life = IF last THEN "dying" ELSE sock[s].life
                  /\ DisabledSock(s)[s].wait = IF last THEN InSection ELSE sock[s].wait
<1>1. s # None
  BY LinkAssumption
<1>2. CASE sock[s].user = None
  BY <1>1, <1>2 DEF DisabledSock, User, TypeOK, SockType
<1>3. CASE sock[s].user # None
  <2> DEFINE S == [sock EXCEPT ![s].user = None]
  <2>1. /\ S \in [Sock -> SockType]
        /\ \A t \in Sock : t # s => S[t] = sock[t]
        /\ S[s] = [sock[s] EXCEPT !.user = None]
    BY DEF TypeOK, SockType
  <2>2. sock[s].refs # 0
    <3>1. sock[s].refs = Count(sock[s].fd # "closed") + Count(sock[s].user # None)
                         + Cardinality(Holders(s))
      BY DEF RefsExact, Holders
    <3>2. Holders(s) \in SUBSET Pdr /\ IsFiniteSet(Pdr)
      BY LinkAssumption DEF Holders
    <3>3. Cardinality(Holders(s)) \in Nat
      BY <3>2, FS_Subset, FS_CardinalityType
    <3>. QED
      BY <1>3, <3>1, <3>3 DEF Count
  <2>3. DisabledSock(s) = Put(S, s)
    BY <1>1, <1>3 DEF DisabledSock, User
  <2>4. /\ S[s].refs = sock[s].refs /\ S[s].life = sock[s].life /\ S[s].wait = sock[s].wait
        /\ S[s].user = None /\ S[s].fd = sock[s].fd
    BY <2>1 DEF TypeOK, SockType
  <2>. HIDE DEF S
  <2>5. /\ Put(S, s) \in [Sock -> SockType]
        /\ \A t \in Sock : t # s => Put(S, s)[t] = S[t]
        /\ Put(S, s)[s].fd = S[s].fd
        /\ Put(S, s)[s].user = S[s].user
        /\ Put(S, s)[s].refs = S[s].refs - 1
        /\ Put(S, s)[s].life = IF S[s].refs = 1 THEN "dying" ELSE S[s].life
        /\ Put(S, s)[s].wait = IF S[s].refs = 1 THEN InSection ELSE S[s].wait
    BY <2>1, <2>2, <2>4, PutIs
  <2>. QED
    BY <1>3, <2>1, <2>2, <2>3, <2>4, <2>5
<1>. QED
  BY <1>2, <1>3

LEMMA DisabledNone == DisabledSock(None) = sock /\ DisabledDev(None) = dev
  BY DEF DisabledSock, DisabledDev, User

LEMMA DisabledDevIs ==
  ASSUME TypeOK, NEW s \in Sock
  PROVE  /\ DisabledDev(s) \in [Dev -> DevType]
         /\ \A d \in Dev : d # sock[s].user => DisabledDev(s)[d] = dev[d]
         /\ \A d \in Dev : d = sock[s].user => DisabledDev(s)[d] = [dev[d] EXCEPT !.sk1u = None]
<1>1. s # None /\ None \notin Dev
  BY LinkAssumption
<1>. QED
  BY <1>1 DEF DisabledDev, User, TypeOK, DevType, SockType

-----------------------------------------------------------------------------
\* Types

\* The socket of a device that names one.
LEMMA SkOfDev ==
  ASSUME TypeOK, NEW d \in Dev
  PROVE  dev[d].sk1u \in Sock \/ dev[d].sk1u = None
  BY DEF TypeOK, DevType

\* Disabling the tunnel of a device, whether it has one or not.
LEMMA DisabledTyped ==
  ASSUME TypeOK, RefsExact, NEW d \in Dev
  PROVE  /\ DisabledSock(dev[d].sk1u) \in [Sock -> SockType]
         /\ DisabledDev(dev[d].sk1u) \in [Dev -> DevType]
<1>1. CASE dev[d].sk1u = None
  BY <1>1, DisabledNone DEF TypeOK
<1>2. CASE dev[d].sk1u \in Sock
  BY <1>2, DisabledSockIs, DisabledDevIs
<1>. QED
  BY <1>1, <1>2, SkOfDev

LEMMA RefsPositive ==
  ASSUME TypeOK, RefsExact, NEW s \in Sock,
         \/ sock[s].fd # "closed" \/ sock[s].user # None
         \/ \E p \in Pdr : pdr[p].life # "free" /\ pdr[p].sk = s
  PROVE  /\ sock[s].refs \in Nat \ {0} /\ sock[s].life = "live"
         /\ sock[s].fd # "closed" /\ sock[s].user # None => sock[s].refs # 1
<1>1. /\ sock[s].refs = Count(sock[s].fd # "closed") + Count(sock[s].user # None)
                        + Cardinality(Holders(s))
      /\ sock[s].life = "live" <=> sock[s].refs > 0
  BY DEF RefsExact, Holders
<1>2. IsFiniteSet(Holders(s))
  <2>1. Holders(s) \in SUBSET Pdr /\ IsFiniteSet(Pdr)
    BY LinkAssumption DEF Holders
  <2>. QED
    BY <2>1, FS_Subset
<1>3. Cardinality(Holders(s)) \in Nat
  BY <1>2, FS_CardinalityType
<1>4. Holders(s) # {} => Cardinality(Holders(s)) # 0
  BY <1>2, FS_EmptySet
<1>5. sock[s].refs \in Nat
  BY DEF TypeOK, SockType
<1>6. CASE sock[s].fd # "closed" \/ sock[s].user # None
  BY <1>1, <1>3, <1>5, <1>6 DEF Count
<1>7. CASE \E p \in Pdr : pdr[p].life # "free" /\ pdr[p].sk = s
  <2>1. Holders(s) # {}
    BY <1>7 DEF Holders
  <2>. QED
    BY <1>1, <1>3, <1>4, <1>5, <2>1 DEF Count
<1>. QED
  BY <1>6, <1>7

\* The close of a socket drops the tunnel's reference and the file's.
LEMMA DestroyIs ==
  ASSUME TypeOK, RefsExact, NEW s \in Sock, sock[s].fd = "closing"
  PROVE  LET new == Put([DisabledSock(s) EXCEPT ![s].fd = "closed"], s)
         IN  /\ new \in [Sock -> SockType]
             /\ \A t \in Sock : t # s => new[t] = sock[t]
             /\ new[s].fd = "closed" /\ new[s].user = None
             /\ new[s].refs = sock[s].refs - Count(sock[s].user # None) - 1
             /\ new[s].life = IF new[s].refs = 0 THEN "dying" ELSE "live"
             /\ new[s].refs = 0 => new[s].wait = InSection
<1> DEFINE mid == DisabledSock(s)
           shut == [mid EXCEPT ![s].fd = "closed"]
           new == Put(shut, s)
<1>1. /\ mid \in [Sock -> SockType]
      /\ \A t \in Sock : t # s => mid[t] = sock[t]
      /\ mid[s].user = None
      /\ mid[s].refs = sock[s].refs - Count(sock[s].user # None)
      /\ mid[s].refs # 0
      /\ mid[s].life = "live"
  <2>1. sock[s].refs \in Nat \ {0} /\ sock[s].life = "live"
        /\ (sock[s].user # None => sock[s].refs # 1)
    BY RefsPositive
  <2>2. CASE sock[s].user = None
    BY <2>1, <2>2, DisabledSockIs DEF Count, TypeOK
  <2>3. CASE sock[s].user # None
    BY <2>1, <2>3, DisabledSockIs DEF Count
  <2>. QED
    BY <2>2, <2>3
<1>. HIDE DEF mid
<1>2. /\ shut \in [Sock -> SockType]
      /\ \A t \in Sock : t # s => shut[t] = sock[t]
      /\ shut[s].fd = "closed" /\ shut[s].user = None
      /\ shut[s].refs = mid[s].refs /\ shut[s].life = "live"
  BY <1>1 DEF SockType
<1>. HIDE DEF shut
<1>3. /\ new \in [Sock -> SockType]
      /\ \A t \in Sock : t # s => new[t] = shut[t]
      /\ new[s].fd = shut[s].fd /\ new[s].user = shut[s].user
      /\ new[s].refs = shut[s].refs - 1
      /\ new[s].life = IF shut[s].refs = 1 THEN "dying" ELSE shut[s].life
      /\ new[s].wait = IF shut[s].refs = 1 THEN InSection ELSE shut[s].wait
  BY <1>1, <1>2, PutIs
<1>4. sock[s].refs \in Nat /\ mid[s].refs \in Nat
  BY <1>1 DEF TypeOK, SockType
<1>. HIDE DEF new
<1>5. new[s].refs = 0 <=> shut[s].refs = 1
  BY <1>2, <1>3, <1>4
<1>6. new[s].refs = sock[s].refs - Count(sock[s].user # None) - 1
  BY <1>1, <1>2, <1>3
<1>7. new[s].life = IF new[s].refs = 0 THEN "dying" ELSE "live"
  BY <1>2, <1>3, <1>5
<1>8. new[s].refs = 0 => new[s].wait = InSection
  BY <1>3, <1>5
<1>9. \A t \in Sock : t # s => new[t] = sock[t]
  BY <1>1, <1>2, <1>3
<1>10. new[s].fd = "closed" /\ new[s].user = None
  BY <1>2, <1>3
<1>. QED
  BY <1>3, <1>6, <1>7, <1>8, <1>9, <1>10 DEF mid, shut, new

\* Which actions there are, in the groups in which they are looked at below.
NewSteps ==
  \E d \in Dev :
    \/ NewSk(d) \/ NewBadRole(d) \/ NewTables(d) \/ Register(d) \/ List(d)
    \/ \E k \in Tables : NewTablesFail(d, k)
    \/ \E s \in Sock \cup {None} : NewLink(d, s)

RemovalSteps ==
  \/ \E d \in Dev : DelLink(d) \/ UnlinkRules(d) \/ FreeTables(d) \/ Uninit(d)
  \/ CloseDevs \/ DropDevs \/ NetExit

ModuleSteps ==
  \/ Load \/ RegisterNext \/ RegisterFails \/ Unload \/ Gone
  \/ \E x \in Facilities : Unregister(x)

SockSteps == \E s \in Sock : Close(s) \/ CloseDestroy(s) \/ FreeSock(s) \/ Open(s)

PdrSteps == \E p \in Pdr : FreePdr(p) \/ \E d \in Dev : AddPdr(d, p)

SectionSteps ==
  \E c \in Cpu :
    \/ Lookup(c) \/ Echo(c)
    \/ \E s \in Sock : RxRecv(c, s)
    \/ \E d \in Dev : Xmit(c, d) \/ FindDev(c, d)

LeaveSteps ==
  \E c \in Cpu, p \in Pdr \cup {None} :
    Leave(c, p) /\ (p # None => rx[c].at = "genl" /\ p \in PdrsOf(rx[c].dev))

FaultSteps ==
  /\ UNCHANGED <<dev, sock, pdr, rx, rtnl, mod>>
  /\ fault' \in {"memory", "table", "null", "twice", "net", "text"}

LEMMA NextCases ==
  ASSUME Next
  PROVE  \/ NewSteps \/ RemovalSteps \/ ModuleSteps \/ SockSteps \/ PdrSteps
         \/ SectionSteps \/ LeaveSteps \/ FaultSteps
<1>1. CASE LinkStep
  BY <1>1 DEF LinkStep, NewSteps, RemovalSteps, FaultSteps, RegisterOops, ListOops, Fails
<1>2. CASE \E c \in Cpu : HandlerStep(c)
  BY <1>2 DEF HandlerStep, SectionSteps, LeaveSteps, FaultSteps, Done, DelPdr,
              EchoOops, LookupOops, MemoryOops, Fails, PdrsOf
<1>3. CASE AddPdrOops \/ FreePdrOops
  BY <1>3 DEF AddPdrOops, FreePdrOops, FaultSteps, Fails
<1>4. CASE NetExit \/ \E d \in Dev : DelLink(d)
  BY <1>4 DEF RemovalSteps
<1>5. CASE \E d \in Dev, s \in Sock \cup {None} : NewLink(d, s)
  BY <1>5 DEF NewSteps
<1>6. CASE (\E d \in Dev, p \in Pdr : AddPdr(d, p)) \/ \E p \in Pdr : FreePdr(p)
  BY <1>6 DEF PdrSteps
<1>7. CASE \/ \E c \in Cpu, d \in Dev : Xmit(c, d) \/ FindDev(c, d)
           \/ \E c \in Cpu, s \in Sock : RxRecv(c, s)
  BY <1>7 DEF SectionSteps
<1>8. CASE \/ Load \/ RegisterNext \/ RegisterFails \/ Unload \/ Gone
           \/ \E x \in Facilities : Unregister(x)
  BY <1>8 DEF ModuleSteps
<1>9. CASE \E s \in Sock : Close(s) \/ CloseDestroy(s) \/ FreeSock(s) \/ Open(s)
  BY <1>9 DEF SockSteps
<1>. QED
  BY <1>1, <1>2, <1>3, <1>4, <1>5, <1>6, <1>7, <1>8, <1>9 DEF Next

\* The updates of a device.
LEMMA DevUpdates ==
  ASSUME NEW x \in DevType
  PROVE  /\ [x EXCEPT !.up = TRUE] \in DevType
         /\ [x EXCEPT !.up = FALSE] \in DevType
         /\ [x EXCEPT !.mem = FALSE] \in DevType
         /\ [x EXCEPT !.listed = TRUE] \in DevType
         /\ [x EXCEPT !.tables = {}, !.listed = FALSE] \in DevType
<1>1. [x EXCEPT !.up = TRUE] \in DevType
  BY DEF DevType
<1>2. [x EXCEPT !.up = FALSE] \in DevType
  BY DEF DevType
<1>3. [x EXCEPT !.mem = FALSE] \in DevType
  BY DEF DevType
<1>4. [x EXCEPT !.listed = TRUE] \in DevType
  BY DEF DevType
<1>5. [x EXCEPT !.tables = {}, !.listed = FALSE] \in DevType
  BY DEF DevType
<1>. QED
  BY <1>1, <1>2, <1>3, <1>4, <1>5

LEMMA NewTyped ==
  ASSUME TypeOK, RefsExact, NewSteps
  PROVE  TypeOK'
<1>. USE DEF TypeOK
<1>1. ASSUME NEW d \in Dev, NewSk(d) PROVE TypeOK'
  <2>1. dev' \in [Dev -> DevType]
    BY <1>1 DEF NewSk, DevType, RtnlType
  <2>2. rtnl' \in RtnlType
    BY <1>1 DEF NewSk, RtnlType
  <2>. QED
    BY <1>1, <2>1, <2>2 DEF NewSk
<1>2. ASSUME NEW d \in Dev, NewBadRole(d) PROVE TypeOK'
  <2>1. dev' \in [Dev -> DevType]
    BY <1>2 DEF NewBadRole, DevType, NoDev
  <2>2. sock' \in [Sock -> SockType]
    BY <1>2, DisabledTyped DEF NewBadRole
  <2>3. rtnl' \in RtnlType
    BY <1>2 DEF NewBadRole, RtnlType, Unlocked
  <2>. QED
    BY <1>2, <2>1, <2>2, <2>3 DEF NewBadRole
<1>3. ASSUME NEW d \in Dev, NewTables(d) PROVE TypeOK'
  <2>1. dev' \in [Dev -> DevType]
    BY <1>3 DEF NewTables, DevType, RtnlType
  <2>2. rtnl' \in RtnlType
    BY <1>3 DEF NewTables, RtnlType
  <2>. QED
    BY <1>3, <2>1, <2>2 DEF NewTables
<1>4. ASSUME NEW d \in Dev, Register(d) PROVE TypeOK'
  <2>1. dev' \in [Dev -> DevType]
    BY <1>4, DevUpdates DEF Register
  <2>2. rtnl' \in RtnlType
    BY <1>4 DEF Register, RtnlType
  <2>. QED
    BY <1>4, <2>1, <2>2 DEF Register
<1>5. ASSUME NEW d \in Dev, List(d) PROVE TypeOK'
  <2>1. dev' \in [Dev -> DevType]
    BY <1>5, DevUpdates DEF List
  <2>2. rtnl' \in RtnlType
    BY <1>5 DEF List, RtnlType, Unlocked
  <2>. QED
    BY <1>5, <2>1, <2>2 DEF List
<1>6. ASSUME NEW d \in Dev, NEW k \in Tables, NewTablesFail(d, k) PROVE TypeOK'
  <2>1. dev' \in [Dev -> DevType]
    BY <1>6 DEF NewTablesFail, Ladder, DevType, NoDev
  <2>2. sock' \in [Sock -> SockType]
    BY <1>6, DisabledTyped DEF NewTablesFail
  <2>3. rtnl' \in RtnlType
    BY <1>6 DEF NewTablesFail, RtnlType, Unlocked
  <2>. QED
    BY <1>6, <2>1, <2>2, <2>3 DEF NewTablesFail
<1>7. ASSUME NEW d \in Dev, NEW s \in Sock \cup {None}, NewLink(d, s) PROVE TypeOK'
  <2>1. dev' \in [Dev -> DevType]
    BY <1>7 DEF NewLink, DevType
  <2>2. sock' \in [Sock -> SockType]
    <3>1. CASE s = None
      BY <1>7, <3>1 DEF NewLink
    <3>2. CASE s \in Sock
      <4>1. sock[s] \in SockType /\ s # None /\ sock[s].refs + 1 \in Nat
        BY <3>2, LinkAssumption DEF SockType
      <4>2. [sock[s] EXCEPT !.user = d, !.refs = sock[s].refs + 1] \in SockType
        BY <4>1 DEF SockType
      <4>3. sock' = [sock EXCEPT ![s] = [sock[s] EXCEPT !.user = d, !.refs = sock[s].refs + 1]]
        BY <1>7, <4>1 DEF NewLink
      <4>. QED
        BY <4>2, <4>3
    <3>. QED
      BY <3>1, <3>2
  <2>3. rtnl' \in RtnlType
    BY <1>7 DEF NewLink, RtnlType, Unlocked
  <2>. QED
    BY <1>7, <2>1, <2>2, <2>3 DEF NewLink
<1>. QED
  BY <1>1, <1>2, <1>3, <1>4, <1>5, <1>6, <1>7 DEF NewSteps

LEMMA RemovalTyped ==
  ASSUME TypeOK, RefsExact, RemovalSteps
  PROVE  TypeOK'
<1>. USE DEF TypeOK
<1>1. ASSUME NEW d \in Dev, DelLink(d) PROVE TypeOK'
  <2>1. TearDown({d}) \in RtnlType
    BY DEF TearDown, RtnlType, Unlocked
  <2>. QED
    BY <1>1, <2>1 DEF DelLink
<1>2. ASSUME NEW d \in Dev, UnlinkRules(d) PROVE TypeOK'
  <2>1. InSection \in SUBSET Cpu
    BY DEF InSection
  <2>2. \A p \in Pdr : Unlinked(pdr[p], InSection) \in PdrType
    BY <2>1 DEF Unlinked, PdrType
  <2>3. pdr' \in [Pdr -> PdrType]
    BY <1>2, <2>2 DEF UnlinkRules
  <2>4. rtnl' \in RtnlType
    BY <1>2, <2>1 DEF UnlinkRules, RtnlType
  <2>. QED
    BY <1>2, <2>3, <2>4 DEF UnlinkRules
<1>3. ASSUME NEW d \in Dev, FreeTables(d) PROVE TypeOK'
  <2>1. dev' \in [Dev -> DevType]
    <3>1. dev' = [dev EXCEPT ![d] = [dev[d] EXCEPT !.tables = {}, !.listed = FALSE]]
      BY <1>3 DEF FreeTables
    <3>2. [dev[d] EXCEPT !.tables = {}, !.listed = FALSE] \in DevType
      BY DevUpdates
    <3>. QED
      BY <3>1, <3>2
  <2>2. rtnl' \in RtnlType
    BY <1>3 DEF FreeTables, RtnlType
  <2>. QED
    BY <1>3, <2>1, <2>2 DEF FreeTables
<1>4. ASSUME NEW d \in Dev, Uninit(d) PROVE TypeOK'
  <2>1. /\ [rtnl EXCEPT !.at = "drop", !.todo = {}, !.wait = InSection] \in RtnlType
        /\ [rtnl EXCEPT !.todo = rtnl.todo \ {d}] \in RtnlType
    BY DEF RtnlType, InSection
  <2>2. rtnl' \in RtnlType
    BY <1>4, <2>1 DEF Uninit
  <2>3. dev' \in [Dev -> DevType] /\ sock' \in [Sock -> SockType]
    BY <1>4, DisabledTyped DEF Uninit
  <2>. QED
    BY <1>4, <2>2, <2>3 DEF Uninit
<1>5. CASE CloseDevs
  <2>1. dev' \in [Dev -> DevType]
    BY <1>5, DevUpdates DEF CloseDevs
  <2>2. rtnl' \in RtnlType
    BY <1>5 DEF CloseDevs, RtnlType, InSection
  <2>. QED
    BY <1>5, <2>1, <2>2 DEF CloseDevs
<1>6. CASE DropDevs
  <2>1. dev' \in [Dev -> DevType]
    BY <1>6, DevUpdates DEF DropDevs
  <2>2. rtnl' \in RtnlType
    BY <1>6 DEF DropDevs, RtnlType, Unlocked
  <2>. QED
    BY <1>6, <2>1, <2>2 DEF DropDevs
<1>7. CASE NetExit
  BY <1>7 DEF NetExit, TearDown, Listed, RtnlType, Unlocked
<1>. QED
  BY <1>1, <1>2, <1>3, <1>4, <1>5, <1>6, <1>7 DEF RemovalSteps

\* Cardinalities of what is registered while the module loads.
LEMMA LoadingSizes ==
  /\ Cardinality({}) = 0 /\ Cardinality({"rtnl"}) = 1
  /\ Cardinality({"rtnl", "genl"}) = 2
  /\ Cardinality({"rtnl", "genl", "pernet"}) = 3
<1>1. Cardinality({}) = 0 /\ IsFiniteSet({})
  BY FS_EmptySet
<1>2. IsFiniteSet({"rtnl"}) /\ Cardinality({"rtnl"}) = 1
  BY FS_Singleton
<1>3. IsFiniteSet({"rtnl"} \cup {"genl"}) /\ Cardinality({"rtnl"} \cup {"genl"}) = 2
  BY <1>2, FS_AddElement
<1>4. {"rtnl"} \cup {"genl"} = {"rtnl", "genl"}
  OBVIOUS
<1>5. Cardinality({"rtnl", "genl"} \cup {"pernet"}) = 3
  BY <1>3, <1>4, FS_AddElement
<1>6. {"rtnl", "genl"} \cup {"pernet"} = {"rtnl", "genl", "pernet"}
  OBVIOUS
<1>. QED
  BY <1>1, <1>2, <1>3, <1>4, <1>5, <1>6

\* The next registration, from each of the states of the load.
LEMMA RegisterNextIs ==
  ASSUME Registered, RegisterNext
  PROVE  \/ mod.reg \in Loading \ {{"rtnl", "genl", "pernet"}} /\ mod'.phase = "load"
              /\ mod'.reg \in Loading /\ "rtnl" \in mod'.reg
         \/ mod'.phase = "in" /\ mod'.reg = Facilities
<1>1. mod.reg \in Loading
  BY DEF Registered, RegisterNext
<1>2. mod' = [phase |-> IF Cardinality(mod.reg) + 1 = 4 THEN "in" ELSE "load",
              reg |-> mod.reg \cup {LoadOrder[Cardinality(mod.reg) + 1]}]
  BY DEF RegisterNext
<1>3. CASE mod.reg = {}
  BY <1>2, <1>3, LoadingSizes DEF LoadOrder, Loading
<1>4. CASE mod.reg = {"rtnl"}
  BY <1>2, <1>4, LoadingSizes DEF LoadOrder, Loading
<1>5. CASE mod.reg = {"rtnl", "genl"}
  BY <1>2, <1>5, LoadingSizes DEF LoadOrder, Loading
<1>6. CASE mod.reg = {"rtnl", "genl", "pernet"}
  BY <1>2, <1>6, LoadingSizes DEF LoadOrder, Facilities
<1>. QED
  BY <1>1, <1>3, <1>4, <1>5, <1>6 DEF Loading

LEMMA ModuleTyped ==
  ASSUME TypeOK, Registered, ModuleSteps
  PROVE  TypeOK'
<1>. USE DEF TypeOK
<1>1. CASE Load \/ RegisterFails \/ Unload \/ Gone
  BY <1>1 DEF Load, RegisterFails, Unload, Gone
<1>2. CASE RegisterNext
  <2>1. mod'.phase \in {"load", "in"} /\ mod'.reg \subseteq Facilities
    BY <1>2, RegisterNextIs DEF Loading, Facilities
  <2>2. mod' = [phase |-> mod'.phase, reg |-> mod'.reg]
    BY <1>2 DEF RegisterNext
  <2>. QED
    BY <1>2, <2>1, <2>2 DEF RegisterNext
<1>3. ASSUME NEW x \in Facilities, Unregister(x) PROVE TypeOK'
  <2>1. TearDown(Up) \in RtnlType /\ TearDown(Listed) \in RtnlType
    BY DEF TearDown, Up, Listed, Unlocked, RtnlType
  <2>2. rtnl' = rtnl \/ rtnl' = TearDown(Up) \/ rtnl' = TearDown(Listed)
    <3>1. CASE x = "genl"
      BY <1>3, <3>1 DEF Unregister
    <3>2. CASE x = "rtnl"
      BY <1>3, <3>2 DEF Unregister
    <3>3. CASE x = "pernet"
      BY <1>3, <3>3 DEF Unregister
    <3>4. CASE x = "proc"
      BY <1>3, <3>4 DEF Unregister
    <3>. QED
      BY <3>1, <3>2, <3>3, <3>4 DEF Facilities
  <2>. QED
    BY <1>3, <2>1, <2>2 DEF Unregister
<1>. QED
  BY <1>1, <1>2, <1>3 DEF ModuleSteps

LEMMA SockTyped ==
  ASSUME TypeOK, RefsExact, SockSteps
  PROVE  TypeOK'
<1>. USE DEF TypeOK
<1>1. ASSUME NEW s \in Sock, Close(s) PROVE TypeOK'
  <2>1. CASE sock[s].user # None
    BY <1>1, <2>1 DEF Close, SockType
  <2>2. CASE sock[s].user = None
    <3> DEFINE S == [sock EXCEPT ![s].fd = "closed"]
    <3>1. S \in [Sock -> SockType] /\ S[s].refs = sock[s].refs
      BY DEF SockType
    <3>2. sock[s].refs # 0
      BY <1>1, RefsPositive DEF Close
    <3>. HIDE DEF S
    <3>3. Put(S, s) \in [Sock -> SockType]
      BY <3>1, <3>2, PutIs
    <3>. QED
      BY <1>1, <2>2, <3>3 DEF Close, S
  <2>. QED
    BY <2>1, <2>2
<1>2. ASSUME NEW s \in Sock, CloseDestroy(s) PROVE TypeOK'
  <2>1. sock' \in [Sock -> SockType]
    BY <1>2, DestroyIs DEF CloseDestroy
  <2>2. dev' \in [Dev -> DevType]
    BY <1>2, DisabledDevIs DEF CloseDestroy
  <2>. QED
    BY <1>2, <2>1, <2>2 DEF CloseDestroy
<1>3. ASSUME NEW s \in Sock, FreeSock(s) PROVE TypeOK'
  BY <1>3 DEF FreeSock, SockType
<1>4. ASSUME NEW s \in Sock, Open(s) PROVE TypeOK'
  BY <1>4 DEF Open, SockType, NewSock
<1>. QED
  BY <1>1, <1>2, <1>3, <1>4 DEF SockSteps

LEMMA PdrTyped ==
  ASSUME TypeOK, RefsExact, PdrHolds, PdrSteps
  PROVE  TypeOK'
<1>. USE DEF TypeOK
<1>1. ASSUME NEW p \in Pdr, FreePdr(p) PROVE TypeOK'
  <2>1. pdr[p].sk \in Sock
    BY <1>1 DEF FreePdr, PdrHolds
  <2>2. sock[pdr[p].sk].refs # 0
    BY <1>1, <2>1, RefsPositive DEF FreePdr
  <2>3. sock' \in [Sock -> SockType]
    BY <1>1, <2>1, <2>2, PutIs DEF FreePdr
  <2>. QED
    BY <1>1, <2>3 DEF FreePdr, PdrType, NoPdr
<1>2. ASSUME NEW p \in Pdr, NEW d \in Dev, AddPdr(d, p) PROVE TypeOK'
  <2>1. dev[d].sk1u \in Sock
    BY <1>2, SkOfDev DEF AddPdr
  <2>2. sock' \in [Sock -> SockType]
    <3>1. PICK t \in Sock : dev[d].sk1u = t
      BY <2>1
    <3>2. sock[t] \in SockType /\ sock[t].refs + 1 \in Nat
      BY DEF SockType
    <3>3. [sock[t] EXCEPT !.refs = sock[t].refs + 1] \in SockType
      BY <3>2 DEF SockType
    <3>4. sock' = [sock EXCEPT ![t] = [sock[t] EXCEPT !.refs = sock[t].refs + 1]]
      BY <1>2, <3>1 DEF AddPdr
    <3>. QED
      BY <3>3, <3>4
  <2> DEFINE new == [NoPdr EXCEPT !.life = "live", !.dev = d, !.sk = dev[d].sk1u]
  <2>3. new \in PdrType /\ Unlinked(new, InSection) \in PdrType
    BY <2>1 DEF PdrType, Unlinked, NoPdr, InSection
  <2>4. pdr' = [pdr EXCEPT ![p] = new] \/ pdr' = [pdr EXCEPT ![p] = Unlinked(new, InSection)]
    BY <1>2 DEF AddPdr
  <2>. HIDE DEF new
  <2>. QED
    BY <1>2, <2>2, <2>3, <2>4 DEF AddPdr
<1>. QED
  BY <1>1, <1>2 DEF PdrSteps

LEMMA SectionTyped ==
  ASSUME TypeOK, RxHolds, SectionSteps
  PROVE  TypeOK'
<1>. USE DEF TypeOK
<1>1. ASSUME NEW c \in Cpu, Lookup(c) PROVE TypeOK'
  <2>1. PICK p \in Pdr \cup {None} : rx' = [rx EXCEPT ![c].at = "found", ![c].pdr = p]
    BY <1>1 DEF Lookup, PdrsOf
  <2>2. rx' = [rx EXCEPT ![c] = [rx[c] EXCEPT !.at = "found", !.pdr = p]]
    BY <2>1
  <2>3. [rx[c] EXCEPT !.at = "found", !.pdr = p] \in RxType
    <3>1. rx[c] \in RxType
      OBVIOUS
    <3>. QED
      BY <3>1 DEF RxType
  <2>. QED
    BY <1>1, <2>2, <2>3 DEF Lookup
<1>2. ASSUME NEW c \in Cpu, Echo(c) PROVE TypeOK'
  <2>1. dev[rx[c].dev].sk1u \in Sock
    BY <1>2, SkOfDev DEF Echo, RxHolds
  <2>2. [rx[c] EXCEPT !.at = "found", !.sk = dev[rx[c].dev].sk1u] \in RxType
    BY <2>1 DEF RxType
  <2>3. rx' = [rx EXCEPT ![c] = [rx[c] EXCEPT !.at = "found", !.sk = dev[rx[c].dev].sk1u]]
    BY <1>2 DEF Echo
  <2>. QED
    BY <1>2, <2>2, <2>3 DEF Echo
<1>3. ASSUME NEW c \in Cpu, NEW s \in Sock, RxRecv(c, s) PROVE TypeOK'
  BY <1>3 DEF RxRecv, RxType, SockType, Idle
<1>4. ASSUME NEW c \in Cpu, NEW d \in Dev, Xmit(c, d) \/ FindDev(c, d) PROVE TypeOK'
  <2>1. \A at \in {"tx", "genl"} : [Idle EXCEPT !.at = at, !.dev = d] \in RxType
    BY DEF RxType, Idle
  <2>2. \E at \in {"tx", "genl"} : rx' = [rx EXCEPT ![c] = [Idle EXCEPT !.at = at, !.dev = d]]
    BY <1>4 DEF Xmit, FindDev
  <2>. QED
    BY <1>4, <2>1, <2>2 DEF Xmit, FindDev
<1>. QED
  BY <1>1, <1>2, <1>3, <1>4 DEF SectionSteps

LEMMA LeaveTyped ==
  ASSUME TypeOK, LeaveSteps
  PROVE  TypeOK'
<1>. USE DEF TypeOK
<1>1. PICK c \in Cpu, p \in Pdr \cup {None} : Leave(c, p)
  BY DEF LeaveSteps
<1>2. rx' \in [Cpu -> RxType]
  BY <1>1 DEF Leave, RxType, Idle
<1>3. pdr' \in [Pdr -> PdrType]
  <2>1. \A q \in Pdr : Unlinked(pdr[q], InSection \ {c}) \in PdrType
    BY DEF Unlinked, InSection, PdrType
  <2>2. \A q \in Pdr : [pdr[q] EXCEPT !.wait = pdr[q].wait \ {c}] \in PdrType
    BY DEF PdrType
  <2>. QED
    BY <1>1, <2>1, <2>2 DEF Leave
<1>4. sock' \in [Sock -> SockType]
  <2>1. \A s \in Sock : [sock[s] EXCEPT !.wait = sock[s].wait \ {c}] \in SockType
    BY DEF SockType
  <2>. QED
    BY <1>1, <2>1 DEF Leave
<1>5. rtnl' \in RtnlType
  BY <1>1 DEF Leave, RtnlType
<1>. QED
  BY <1>1, <1>2, <1>3, <1>4, <1>5 DEF Leave

LEMMA FaultTyped ==
  ASSUME TypeOK, FaultSteps
  PROVE  TypeOK'
  BY DEF TypeOK, FaultSteps

-----------------------------------------------------------------------------
\* References

LEMMA HoldersFinite ==
  ASSUME NEW s
  PROVE  IsFiniteSet(Holders(s)) /\ Cardinality(Holders(s)) \in Nat
<1>1. Holders(s) \in SUBSET Pdr /\ IsFiniteSet(Pdr)
  BY LinkAssumption DEF Holders
<1>2. IsFiniteSet(Holders(s))
  BY <1>1, FS_Subset
<1>. QED
  BY <1>2, FS_CardinalityType

\* What RefsExact says of one socket.
Exact(s) ==
  /\ sock[s].refs = Count(sock[s].fd # "closed") + Count(sock[s].user # None)
                    + Cardinality(Holders(s))
  /\ sock[s].life = "live" <=> sock[s].refs > 0

LEMMA RefsExactIs == RefsExact <=> \A s \in Sock : Exact(s)
  BY DEF RefsExact, Exact, Holders

LEMMA RefsExactIsNext == RefsExact' <=> \A s \in Sock : Exact(s)'
  BY DEF RefsExact, Exact, Holders

\* A socket of which nothing that counts has changed.
LEMMA ExactSame ==
  ASSUME NEW s \in Sock, Exact(s), Holders(s)' = Holders(s),
         sock'[s].fd = sock[s].fd, sock'[s].user = sock[s].user,
         sock'[s].refs = sock[s].refs, sock'[s].life = sock[s].life
  PROVE  Exact(s)'
  BY DEF Exact

LEMMA HoldersSame ==
  ASSUME UNCHANGED pdr
  PROVE  \A s : Holders(s)' = Holders(s)
  BY DEF Holders

LEMMA DisabledExact ==
  ASSUME TypeOK, RefsExact, NEW d \in Dev, UNCHANGED pdr,
         sock' = DisabledSock(dev[d].sk1u)
  PROVE  RefsExact'
<1>1. CASE dev[d].sk1u = None
  BY <1>1, DisabledNone DEF RefsExact
<1>2. CASE dev[d].sk1u \in Sock
  <2>0. PICK t \in Sock : dev[d].sk1u = t
    BY <1>2
  <2>1. /\ \A s \in Sock : s # t => sock'[s] = sock[s]
        /\ sock[t].user = None => sock' = sock
        /\ sock'[t].fd = sock[t].fd
        /\ sock'[t].user = None
        /\ sock[t].user # None =>
             /\ sock[t].refs # 0
             /\ sock'[t].refs = sock[t].refs - 1
             /\ sock'[t].life = IF sock[t].refs = 1 THEN "dying" ELSE sock[t].life
    BY <2>0, DisabledSockIs
  <2>2. \A s \in Sock : Exact(s)
    BY RefsExactIs
  <2>3. \A s \in Sock : s # t => Exact(s)'
    BY <2>1, <2>2, HoldersSame, ExactSame
  <2>4. Exact(t)'
    <3>1. CASE sock[t].user = None
      BY <2>1, <2>2, <3>1, HoldersSame, ExactSame
    <3>2. CASE sock[t].user # None
      <4>1. sock[t].refs \in Nat
        BY DEF TypeOK, SockType
      <4>2. Cardinality(Holders(t)) \in Nat /\ Holders(t)' = Holders(t)
        BY HoldersFinite, HoldersSame
      <4>3. Exact(t)
        BY <2>2
      <4>4. sock[t].refs = Count(sock[t].fd # "closed") + 1 + Cardinality(Holders(t))
        BY <3>2, <4>1, <4>2, <4>3 DEF Exact, Count
      <4>5. Count(sock[t].fd # "closed") \in Nat
        BY DEF Count
      <4>6. sock'[t].refs = Count(sock'[t].fd # "closed") + Count(sock'[t].user # None)
                            + Cardinality(Holders(t)')
        BY <2>1, <3>2, <4>1, <4>2, <4>4, <4>5 DEF Count
      <4>7. sock'[t].life = "live" <=> sock'[t].refs > 0
        BY <2>1, <3>2, <4>1, <4>3 DEF Exact
      <4>. QED
        BY <4>6, <4>7 DEF Exact
    <3>. QED
      BY <3>1, <3>2
  <2>. QED
    BY <2>3, <2>4, RefsExactIsNext
<1>. QED
  BY <1>1, <1>2, SkOfDev

LEMMA NewLinkRefs ==
  ASSUME TypeOK, RefsExact, NEW d \in Dev, NEW s \in Sock \cup {None}, NewLink(d, s)
  PROVE  RefsExact'
<1>1. CASE s = None
  BY <1>1 DEF NewLink, RefsExact
<1>2. CASE s \in Sock
  <2>1. s # None /\ d # None
    BY <1>2, LinkAssumption
  <2>2. /\ sock[s].fd = "open" /\ sock[s].user = None
        /\ sock' = [sock EXCEPT ![s].user = d, ![s].refs = @ + 1]
        /\ UNCHANGED pdr
    BY <2>1 DEF NewLink
  <2>3. \A t \in Sock : Exact(t)
    BY RefsExactIs
  <2>4. /\ \A t \in Sock : t # s => sock'[t] = sock[t]
        /\ sock'[s].fd = sock[s].fd /\ sock'[s].user = d
        /\ sock'[s].refs = sock[s].refs + 1 /\ sock'[s].life = sock[s].life
    BY <1>2, <2>2 DEF TypeOK, SockType
  <2>5. \A t \in Sock : t # s => Exact(t)'
    BY <2>2, <2>3, <2>4, HoldersSame, ExactSame
  <2>6. Exact(s)'
    <3>1. sock[s].refs \in Nat /\ Cardinality(Holders(s)) \in Nat
      BY <1>2, HoldersFinite DEF TypeOK, SockType
    <3>2. Holders(s)' = Holders(s)
      BY <2>2, HoldersSame
    <3>3. Exact(s) /\ sock[s].refs > 0
      BY <1>2, <2>2, <2>3, RefsPositive
    <3>. QED
      BY <2>1, <2>2, <2>4, <3>1, <3>2, <3>3 DEF Exact, Count
  <2>. QED
    BY <2>5, <2>6, RefsExactIsNext
<1>. QED
  BY <1>1, <1>2

LEMMA CloseRefs ==
  ASSUME TypeOK, RefsExact, NEW s \in Sock, Close(s)
  PROVE  RefsExact'
<1>1. \A t \in Sock : Exact(t) /\ Holders(t)' = Holders(t)
  BY RefsExactIs, HoldersSame DEF Close
<1>2. sock[s].fd = "open" /\ sock[s].refs # 0 /\ sock[s].life = "live"
  BY RefsPositive DEF Close
<1>3. sock[s].refs \in Nat /\ Cardinality(Holders(s)) \in Nat
  BY HoldersFinite DEF TypeOK, SockType
<1>4. CASE sock[s].user # None
  <2>1. /\ \A t \in Sock : t # s => sock'[t] = sock[t]
        /\ sock'[s] = [sock[s] EXCEPT !.fd = "closing"]
    BY <1>4 DEF Close, TypeOK
  <2>2. /\ sock'[s].fd = "closing" /\ sock'[s].user = sock[s].user
        /\ sock'[s].refs = sock[s].refs /\ sock'[s].life = sock[s].life
    BY <2>1 DEF TypeOK, SockType
  <2>3. \A t \in Sock : t # s => Exact(t)'
    BY <1>1, <2>1, ExactSame
  <2>4. Exact(s)'
    BY <1>1, <1>2, <2>2 DEF Exact, Count
  <2>. QED
    BY <2>3, <2>4, RefsExactIsNext
<1>5. CASE sock[s].user = None
  <2> DEFINE S == [sock EXCEPT ![s].fd = "closed"]
  <2>1. /\ S \in [Sock -> SockType]
        /\ \A t \in Sock : t # s => S[t] = sock[t]
        /\ S[s].fd = "closed" /\ S[s].user = sock[s].user
        /\ S[s].refs = sock[s].refs /\ S[s].life = sock[s].life
    BY DEF TypeOK, SockType
  <2>2. sock' = Put(S, s)
    BY <1>5 DEF Close
  <2>. HIDE DEF S
  <2>3. /\ \A t \in Sock : t # s => sock'[t] = sock[t]
        /\ sock'[s].fd = "closed" /\ sock'[s].user = None
        /\ sock'[s].refs = sock[s].refs - 1
        /\ sock'[s].life = IF sock[s].refs = 1 THEN "dying" ELSE sock[s].life
    BY <1>2, <1>5, <2>1, <2>2, PutIs
  <2>4. \A t \in Sock : t # s => Exact(t)'
    BY <1>1, <2>3, ExactSame
  <2>5. Exact(s)'
    <3>1. sock[s].refs = 1 + Cardinality(Holders(s))
      BY <1>1, <1>2, <1>3, <1>5 DEF Exact, Count
    <3>2. sock'[s].refs = Count(sock'[s].fd # "closed") + Count(sock'[s].user # None)
                          + Cardinality(Holders(s)')
      BY <1>1, <1>3, <2>3, <3>1 DEF Count
    <3>3. sock'[s].life = "live" <=> sock'[s].refs > 0
      BY <1>2, <1>3, <2>3
    <3>. QED
      BY <3>2, <3>3 DEF Exact
  <2>. QED
    BY <2>4, <2>5, RefsExactIsNext
<1>. QED
  BY <1>4, <1>5

LEMMA CloseDestroyRefs ==
  ASSUME TypeOK, RefsExact, NEW s \in Sock, CloseDestroy(s)
  PROVE  RefsExact'
<1>1. \A t \in Sock : Exact(t) /\ Holders(t)' = Holders(t)
  BY RefsExactIs, HoldersSame DEF CloseDestroy
<1>2. sock[s].fd = "closing" /\ sock' = Put([DisabledSock(s) EXCEPT ![s].fd = "closed"], s)
  BY DEF CloseDestroy
<1>3. /\ sock' \in [Sock -> SockType]
      /\ \A t \in Sock : t # s => sock'[t] = sock[t]
      /\ sock'[s].fd = "closed" /\ sock'[s].user = None
      /\ sock'[s].refs = sock[s].refs - Count(sock[s].user # None) - 1
      /\ sock'[s].life = IF sock'[s].refs = 0 THEN "dying" ELSE "live"
  BY <1>2, DestroyIs
<1>4. sock[s].refs \in Nat /\ sock'[s].refs \in Nat /\ Cardinality(Holders(s)) \in Nat
  BY <1>3, HoldersFinite DEF TypeOK, SockType
<1>5. \A t \in Sock : t # s => Exact(t)'
  BY <1>1, <1>3, ExactSame
<1>6. Exact(s)'
  <2>1. Holders(s)' = Holders(s)
    BY <1>1
  <2>2. sock[s].refs = 1 + Count(sock[s].user # None) + Cardinality(Holders(s))
    BY <1>1, <1>2, <1>4 DEF Exact, Count
  <2>3. sock'[s].refs = Cardinality(Holders(s))
    BY <1>3, <1>4, <2>2 DEF Count
  <2>. QED
    BY <1>3, <1>4, <2>1, <2>3 DEF Exact, Count
<1>. QED
  BY <1>5, <1>6, RefsExactIsNext

LEMMA FreeOpenRefs ==
  ASSUME TypeOK, RefsExact, NEW s \in Sock, FreeSock(s) \/ Open(s)
  PROVE  RefsExact'
<1>1. \A t \in Sock : Exact(t) /\ Holders(t)' = Holders(t)
  BY RefsExactIs, HoldersSame DEF FreeSock, Open
<1>2. sock[s].refs \in Nat /\ Cardinality(Holders(s)) \in Nat /\ sock[s].life # "live"
  BY HoldersFinite DEF TypeOK, SockType, FreeSock, Open
<1>3. sock[s].refs = 0 /\ sock[s].fd = "closed" /\ sock[s].user = None
      /\ Cardinality(Holders(s)) = 0
  <2>1. sock[s].refs = 0
    BY <1>1, <1>2 DEF Exact
  <2>2. /\ Count(sock[s].fd # "closed") \in {0, 1} /\ Count(sock[s].user # None) \in {0, 1}
        /\ 0 = Count(sock[s].fd # "closed") + Count(sock[s].user # None)
                + Cardinality(Holders(s))
    BY <1>1, <2>1 DEF Exact, Count
  <2>3. /\ Count(sock[s].fd # "closed") = 0 /\ Count(sock[s].user # None) = 0
        /\ Cardinality(Holders(s)) = 0
    BY <1>2, <2>2
  <2>. QED
    BY <2>1, <2>3 DEF Count
<1>4. \A t \in Sock : t # s => sock'[t] = sock[t]
  BY DEF FreeSock, Open, TypeOK
<1>5. \A t \in Sock : t # s => Exact(t)'
  BY <1>1, <1>4, ExactSame
<1>6. CASE FreeSock(s)
  <2>1. sock'[s] = [sock[s] EXCEPT !.life = "freed"]
    BY <1>6 DEF FreeSock, TypeOK
  <2>2. /\ sock'[s].fd = sock[s].fd /\ sock'[s].user = sock[s].user
        /\ sock'[s].refs = sock[s].refs /\ sock'[s].life = "freed"
    BY <2>1 DEF TypeOK, SockType
  <2>. QED
    BY <1>1, <1>2, <1>3, <1>5, <2>2, RefsExactIsNext DEF Exact
<1>7. CASE Open(s)
  <2>1. sock'[s] = NewSock
    BY <1>7 DEF Open, TypeOK
  <2>2. Exact(s)'
    BY <1>1, <1>2, <1>3, <2>1 DEF Exact, Count, NewSock
  <2>. QED
    BY <1>5, <2>2, RefsExactIsNext
<1>. QED
  BY <1>6, <1>7

LEMMA AddPdrRefs ==
  ASSUME TypeOK, RefsExact, PdrHolds, EncapExact, NEW p \in Pdr, NEW d \in Dev, AddPdr(d, p)
  PROVE  RefsExact' /\ PdrHolds'
<1>0. PICK t \in Sock : dev[d].sk1u = t
  BY SkOfDev DEF AddPdr
<1>1. t # None
  BY <1>0 DEF AddPdr
<1>2. sock[t].user = d /\ d # None
  BY <1>0, <1>1, LinkAssumption DEF EncapExact
<1>3. sock[t].refs > 0 /\ sock[t].life = "live" /\ sock[t].refs \in Nat
  BY <1>2, RefsPositive DEF TypeOK, SockType
<1>4. /\ \A s \in Sock : s # t => sock'[s] = sock[s]
      /\ sock'[t].fd = sock[t].fd /\ sock'[t].user = sock[t].user
      /\ sock'[t].refs = sock[t].refs + 1 /\ sock'[t].life = sock[t].life
  BY <1>0 DEF AddPdr, TypeOK, SockType
<1>5. /\ pdr[p].life = "free"
      /\ \A q \in Pdr : q # p => pdr'[q] = pdr[q]
      /\ pdr'[p].life # "free" /\ pdr'[p].sk = t
  <2> DEFINE new == [NoPdr EXCEPT !.life = "live", !.dev = d, !.sk = dev[d].sk1u]
  <2>1. pdr' = [pdr EXCEPT ![p] = new] \/ pdr' = [pdr EXCEPT ![p] = Unlinked(new, InSection)]
    BY DEF AddPdr
  <2>2. new.life = "live" /\ new.sk = t
    BY <1>0 DEF NoPdr
  <2>3. Unlinked(new, InSection).life = "dying" /\ Unlinked(new, InSection).sk = t
    BY <1>0 DEF NoPdr, Unlinked
  <2>4. pdr[p].life = "free"
    BY DEF AddPdr, CanAdd, NoPdr
  <2>. HIDE DEF new
  <2>. QED
    BY <2>1, <2>2, <2>3, <2>4 DEF TypeOK
<1>6. \A s \in Sock : s # t => Holders(s)' = Holders(s)
  BY <1>5 DEF Holders
<1>7. Holders(t)' = Holders(t) \cup {p} /\ p \notin Holders(t)
  BY <1>5 DEF Holders
<1>8. Cardinality(Holders(t)') = Cardinality(Holders(t)) + 1 /\ Cardinality(Holders(t)) \in Nat
  BY <1>7, HoldersFinite, FS_AddElement
<1>9. \A s \in Sock : Exact(s)
  BY RefsExactIs
<1>10. \A s \in Sock : s # t => Exact(s)'
  BY <1>4, <1>6, <1>9, ExactSame
<1>11. Exact(t)'
  <2>1. Exact(t)
    BY <1>9
  <2>2. Cardinality(Holders(t))' = Cardinality(Holders(t)) + 1
    BY <1>8
  <2>. QED
    BY <1>3, <1>4, <1>8, <2>1, <2>2 DEF Exact, Count
<1>12. PdrHolds'
  BY <1>5 DEF PdrHolds
<1>. QED
  BY <1>10, <1>11, <1>12, RefsExactIsNext

LEMMA FreePdrRefs ==
  ASSUME TypeOK, RefsExact, PdrHolds, NEW p \in Pdr, FreePdr(p)
  PROVE  RefsExact' /\ PdrHolds'
<1>1. PICK t \in Sock : pdr[p].sk = t
  BY DEF FreePdr, PdrHolds
<1>5. pdr[p].life = "dying"
  BY DEF FreePdr
<1>2. sock[t].refs # 0 /\ sock[t].life = "live" /\ sock[t].refs \in Nat
  BY <1>1, <1>5, RefsPositive DEF TypeOK, SockType
<1>3. /\ \A s \in Sock : s # t => sock'[s] = sock[s]
      /\ sock'[t].fd = sock[t].fd /\ sock'[t].user = sock[t].user
      /\ sock'[t].refs = sock[t].refs - 1
      /\ sock'[t].life = IF sock[t].refs = 1 THEN "dying" ELSE sock[t].life
  BY <1>1, <1>2, PutIs DEF FreePdr, TypeOK
<1>4. (\A q \in Pdr : q # p => pdr'[q] = pdr[q]) /\ pdr'[p].life = "free"
  BY DEF FreePdr, NoPdr, TypeOK
<1>6. \A s \in Sock : s # t => Holders(s)' = Holders(s)
  BY <1>1, <1>4 DEF Holders
<1>7. Holders(t)' = Holders(t) \ {p} /\ p \in Holders(t)
  BY <1>1, <1>4, <1>5 DEF Holders
<1>8. Cardinality(Holders(t)') = Cardinality(Holders(t)) - 1 /\ Cardinality(Holders(t)) \in Nat
  BY <1>7, HoldersFinite, FS_RemoveElement
<1>9. \A s \in Sock : Exact(s)
  BY RefsExactIs
<1>10. \A s \in Sock : s # t => Exact(s)'
  BY <1>3, <1>6, <1>9, ExactSame
<1>11. Exact(t)'
  <2>1. Exact(t)
    BY <1>9
  <2>2. Cardinality(Holders(t))' = Cardinality(Holders(t)) - 1
    BY <1>8
  <2>. QED
    BY <1>2, <1>3, <1>8, <2>1, <2>2 DEF Exact, Count
<1>12. PdrHolds'
  BY <1>4 DEF PdrHolds
<1>. QED
  BY <1>10, <1>11, <1>12, RefsExactIsNext

\* Steps that move PDRs from their device to their callback, or end a wait.
LEMMA UnlinkRefs ==
  ASSUME TypeOK, RefsExact, PdrHolds,
         \A q \in Pdr : /\ pdr'[q].life = "free" <=> pdr[q].life = "free"
                        /\ pdr'[q].sk = pdr[q].sk,
         \A s \in Sock : /\ sock'[s].fd = sock[s].fd /\ sock'[s].user = sock[s].user
                         /\ sock'[s].refs = sock[s].refs /\ sock'[s].life = sock[s].life
  PROVE  RefsExact' /\ PdrHolds'
<1>1. \A s \in Sock : Holders(s)' = Holders(s)
  BY DEF Holders
<1>2. \A s \in Sock : Exact(s)'
  BY <1>1, RefsExactIs, ExactSame
<1>. QED
  BY <1>2, RefsExactIsNext DEF PdrHolds

LEMMA RefsStep ==
  ASSUME IInv, Next
  PROVE  RefsExact' /\ PdrHolds'
<1>. USE DEF IInv
<1>1. ASSUME UNCHANGED <<sock, pdr>> PROVE RefsExact' /\ PdrHolds'
  BY <1>1 DEF RefsExact, PdrHolds
<1>2. ASSUME UNCHANGED pdr PROVE PdrHolds'
  BY <1>2 DEF PdrHolds
<1>3. CASE NewSteps
  <2>1. ASSUME NEW d \in Dev, NewSk(d) \/ NewTables(d) \/ Register(d) \/ List(d)
        PROVE  UNCHANGED <<sock, pdr>>
    BY <2>1 DEF NewSk, NewTables, Register, List
  <2>2. ASSUME NEW d \in Dev, NewBadRole(d) \/ \E k \in Tables : NewTablesFail(d, k)
        PROVE  RefsExact' /\ PdrHolds'
    BY <1>2, <2>2, DisabledExact DEF NewBadRole, NewTablesFail
  <2>3. ASSUME NEW d \in Dev, NEW s \in Sock \cup {None}, NewLink(d, s)
        PROVE  RefsExact' /\ PdrHolds'
    BY <1>2, <2>3, NewLinkRefs DEF NewLink
  <2>. QED
    BY <1>1, <1>3, <2>1, <2>2, <2>3 DEF NewSteps
<1>4. CASE RemovalSteps
  <2>1. ASSUME \/ \E d \in Dev : DelLink(d) \/ FreeTables(d)
               \/ CloseDevs \/ DropDevs \/ NetExit
        PROVE  UNCHANGED <<sock, pdr>>
    BY <2>1 DEF DelLink, FreeTables, CloseDevs, DropDevs, NetExit
  <2>2. ASSUME NEW d \in Dev, UnlinkRules(d)
        PROVE  RefsExact' /\ PdrHolds'
    <3>1. \A q \in Pdr : /\ pdr'[q].life = "free" <=> pdr[q].life = "free"
                         /\ pdr'[q].sk = pdr[q].sk
      BY <2>2 DEF UnlinkRules, Unlinked, PdrsOf, TypeOK, PdrType
    <3>. QED
      BY <2>2, <3>1, UnlinkRefs DEF UnlinkRules
  <2>3. ASSUME NEW d \in Dev, Uninit(d)
        PROVE  RefsExact' /\ PdrHolds'
    BY <1>2, <2>3, DisabledExact DEF Uninit
  <2>. QED
    BY <1>1, <1>4, <2>1, <2>2, <2>3 DEF RemovalSteps
<1>5. CASE ModuleSteps
  BY <1>1, <1>5 DEF ModuleSteps, Load, RegisterNext, RegisterFails, Unload, Gone, Unregister
<1>6. CASE SockSteps
  <2>1. UNCHANGED pdr
    BY <1>6 DEF SockSteps, Close, CloseDestroy, FreeSock, Open
  <2>. QED
    BY <1>2, <1>6, <2>1, CloseRefs, CloseDestroyRefs, FreeOpenRefs DEF SockSteps
<1>7. CASE PdrSteps
  BY <1>7, AddPdrRefs, FreePdrRefs DEF PdrSteps
<1>8. CASE SectionSteps
  BY <1>1, <1>8 DEF SectionSteps, Lookup, Echo, RxRecv, Xmit, FindDev
<1>9. CASE LeaveSteps
  <2>1. PICK c \in Cpu, p \in Pdr \cup {None} :
          Leave(c, p) /\ (p # None => rx[c].at = "genl" /\ p \in PdrsOf(rx[c].dev))
    BY <1>9 DEF LeaveSteps
  <2>2. \A q \in Pdr : /\ pdr'[q].life = "free" <=> pdr[q].life = "free"
                       /\ pdr'[q].sk = pdr[q].sk
    <3>1. \A q \in Pdr : q # None
      BY LinkAssumption
    <3>. QED
      BY <2>1, <3>1 DEF Leave, Unlinked, PdrsOf, TypeOK, PdrType
  <2>3. \A s \in Sock : /\ sock'[s].fd = sock[s].fd /\ sock'[s].user = sock[s].user
                        /\ sock'[s].refs = sock[s].refs /\ sock'[s].life = sock[s].life
    BY <2>1 DEF Leave, TypeOK, SockType
  <2>. QED
    BY <2>2, <2>3, UnlinkRefs
<1>10. CASE FaultSteps
  BY <1>1, <1>10 DEF FaultSteps
<1>. QED
  BY <1>3, <1>4, <1>5, <1>6, <1>7, <1>8, <1>9, <1>10, NextCases

-----------------------------------------------------------------------------
\* Tunnels

\* Disabling the tunnel of a device: exactly its socket loses the device.
LEMMA DisabledUsers ==
  ASSUME TypeOK, RefsExact, NEW d \in Dev
  PROVE  \A t \in Sock : DisabledSock(dev[d].sk1u)[t].user =
                           IF t = dev[d].sk1u THEN None ELSE sock[t].user
<1>1. CASE dev[d].sk1u = None
  <2>1. \A t \in Sock : t # None
    BY LinkAssumption
  <2>. QED
    BY <1>1, <2>1, DisabledNone
<1>2. CASE dev[d].sk1u \in Sock
  BY <1>2, DisabledSockIs
<1>. QED
  BY <1>1, <1>2, SkOfDev

\* And exactly the device loses its socket.
LEMMA DisabledDevs ==
  ASSUME TypeOK, EncapExact, NEW d \in Dev
  PROVE  DisabledDev(dev[d].sk1u) = [dev EXCEPT ![d].sk1u = None]
<1>1. CASE dev[d].sk1u = None
  <2>1. [dev EXCEPT ![d].sk1u = None] = dev
    BY <1>1 DEF TypeOK, DevType
  <2>. QED
    BY <1>1, <2>1, DisabledNone
<1>2. CASE dev[d].sk1u \in Sock
  <2>1. d # None /\ dev[d].sk1u # None
    BY <1>2, LinkAssumption
  <2>2. User(dev[d].sk1u) = d
    BY <2>1 DEF EncapExact, User
  <2>. QED
    BY <2>1, <2>2 DEF DisabledDev
<1>. QED
  BY <1>1, <1>2, SkOfDev

\* The device and its socket forget each other.
LEMMA TunnelGoes ==
  ASSUME TypeOK, EncapExact, NEW d \in Dev, rtnl.at # "sock", rtnl'.at # "sock",
         \A t \in Sock : sock'[t].user = IF t = dev[d].sk1u THEN None ELSE sock[t].user,
         \A e \in Dev : e # d => dev'[e] = dev[e],
         dev'[d].sk1u = None
  PROVE  EncapExact' /\ SockStage'
<1>1. ASSUME NEW s \in Sock, sock'[s].user # None
      PROVE  dev'[sock'[s].user].mem /\ dev'[sock'[s].user].sk1u = s
  <2>1. PICK e \in Dev : sock[s].user = e /\ sock'[s].user = e /\ s # dev[d].sk1u
    BY <1>1 DEF TypeOK, SockType
  <2>2. dev[e].mem /\ dev[e].sk1u = s
    BY <1>1, <2>1 DEF EncapExact
  <2>3. e # d
    BY <2>1, <2>2
  <2>. QED
    BY <2>1, <2>2, <2>3
<1>2. ASSUME NEW e \in Dev, dev'[e].sk1u # None
      PROVE  sock'[dev'[e].sk1u].user = e
  <2>1. e # d /\ dev'[e].sk1u = dev[e].sk1u /\ dev[e].sk1u \in Sock
    BY <1>2, SkOfDev
  <2>2. sock[dev[e].sk1u].user = e
    BY <1>2, <2>1 DEF EncapExact
  <2>3. dev[e].sk1u # dev[d].sk1u
    BY <1>2, <2>1, <2>2 DEF EncapExact
  <2>. QED
    BY <2>1, <2>2, <2>3
<1>. QED
  BY <1>1, <1>2 DEF EncapExact, SockStage

\* Nobody's tunnel changes, and newlink is not between its two assignments,
\* or stays there.
LEMMA TunnelSame ==
  ASSUME TypeOK, EncapExact, SockStage,
         \A t \in Sock : sock'[t].user = sock[t].user,
         \A e \in Dev : dev'[e].mem = dev[e].mem /\ dev'[e].sk1u = dev[e].sk1u,
         \/ rtnl.at # "sock" /\ rtnl'.at # "sock"
         \/ /\ rtnl'.at = rtnl.at /\ rtnl'.devs = rtnl.devs /\ rtnl'.sock = rtnl.sock
            /\ UNCHANGED dev
  PROVE  EncapExact' /\ SockStage'
<1>1. \A s \in Sock : sock[s].user # None => sock[s].user \in Dev
  BY DEF TypeOK, SockType
<1>2. \A d \in Dev : dev[d].sk1u # None => dev[d].sk1u \in Sock
  BY DEF TypeOK, DevType
<1>3. rtnl.sock # None => rtnl.sock \in Sock
  BY DEF TypeOK, RtnlType
<1>4. EncapExact'
  BY <1>1, <1>2 DEF EncapExact
<1>5. SockStage'
  BY <1>3 DEF SockStage
<1>. QED
  BY <1>4, <1>5

LEMMA NewTunnel ==
  ASSUME IInv, NewSteps
  PROVE  EncapExact' /\ SockStage'
<1>. USE DEF IInv
<1>1. ASSUME NEW d \in Dev, NEW s \in Sock \cup {None}, NewLink(d, s)
      PROVE  EncapExact' /\ SockStage'
  <2>1. /\ rtnl.at = "idle" /\ dev[d] = NoDev /\ d # None
        /\ \A e \in Dev : e # d => dev'[e] = dev[e]
        /\ dev'[d] = [NoDev EXCEPT !.mem = TRUE]
        /\ rtnl'.at = "sock" /\ rtnl'.devs = {d} /\ rtnl'.sock = s
    BY <1>1, LinkAssumption DEF NewLink, Fresh, TypeOK, Unlocked
  <2>2. /\ \A t \in Sock : sock'[t].user = IF t = s THEN d ELSE sock[t].user
        /\ s # None => sock[s].user = None
    <3>1. CASE s = None
      <4>1. \A t \in Sock : t # None
        BY LinkAssumption
      <4>. QED
        BY <1>1, <3>1, <4>1 DEF NewLink
    <3>2. CASE s \in Sock
      <4>1. s # None
        BY <3>2, LinkAssumption
      <4>. QED
        BY <1>1, <3>2, <4>1 DEF NewLink, TypeOK, SockType
    <3>. QED
      BY <3>1, <3>2
  <2>3. ~dev[d].mem /\ dev[d].sk1u = None /\ dev'[d].mem /\ dev'[d].sk1u = None
    BY <2>1 DEF NoDev
  <2>4. ASSUME NEW t \in Sock, sock'[t].user # None
        PROVE  /\ dev'[sock'[t].user].mem
               /\ \/ dev'[sock'[t].user].sk1u = t
                  \/ rtnl'.at = "sock" /\ rtnl'.sock = t /\ rtnl'.devs = {sock'[t].user}
    <3>1. CASE t = s
      BY <2>1, <2>2, <2>3, <3>1
    <3>2. CASE t # s
      <4>1. PICK e \in Dev : sock[t].user = e /\ sock'[t].user = e /\ e # None
        BY <2>2, <2>4, <3>2 DEF TypeOK, SockType
      <4>2. dev[e].mem /\ dev[e].sk1u = t
        BY <2>1, <4>1 DEF EncapExact
      <4>. QED
        BY <2>1, <2>3, <4>1, <4>2
    <3>. QED
      BY <3>1, <3>2
  <2>5. ASSUME NEW e \in Dev, dev'[e].sk1u # None
        PROVE  sock'[dev'[e].sk1u].user = e
    <3>1. e # d /\ dev'[e].sk1u = dev[e].sk1u /\ dev[e].sk1u \in Sock /\ e # None
      BY <2>1, <2>3, <2>5, SkOfDev, LinkAssumption
    <3>2. sock[dev[e].sk1u].user = e
      BY <2>5, <3>1 DEF EncapExact
    <3>3. dev[e].sk1u # s
      BY <2>2, <2>5, <3>1, <3>2
    <3>. QED
      BY <2>2, <3>1, <3>2, <3>3
  <2>6. SockStage'
    BY <2>1, <2>2 DEF SockStage, TypeOK
  <2>. QED
    BY <2>4, <2>5, <2>6 DEF EncapExact
<1>2. ASSUME NEW d \in Dev, NewSk(d)
      PROVE  EncapExact' /\ SockStage'
  <2>1. /\ rtnl.at = "sock" /\ rtnl.devs = {d} /\ dev[d] = [NoDev EXCEPT !.mem = TRUE]
        /\ rtnl.sock # None => sock[rtnl.sock].user = d
    BY <1>2 DEF NewSk, SockStage
  <2>2. /\ \A e \in Dev : e # d => dev'[e] = dev[e]
        /\ dev'[d].sk1u = rtnl.sock /\ dev'[d].mem /\ dev[d].sk1u = None
        /\ rtnl'.at = "tables" /\ UNCHANGED sock
    BY <1>2, <2>1 DEF NewSk, TypeOK, DevType, NoDev
  <2>3. ASSUME NEW t \in Sock, sock[t].user # None
        PROVE  dev'[sock[t].user].mem /\ dev'[sock[t].user].sk1u = t
    <3>1. PICK e \in Dev : sock[t].user = e /\ e # None /\ t # None
      BY <2>3, LinkAssumption DEF TypeOK, SockType
    <3>2. dev[e].mem /\ (dev[e].sk1u = t \/ (rtnl.sock = t /\ {d} = {e}))
      BY <2>1, <3>1 DEF EncapExact
    <3>3. CASE e = d
      BY <2>2, <3>1, <3>2, <3>3
    <3>4. CASE e # d
      BY <2>2, <3>1, <3>2, <3>4
    <3>. QED
      BY <3>3, <3>4
  <2>4. ASSUME NEW e \in Dev, dev'[e].sk1u # None
        PROVE  sock[dev'[e].sk1u].user = e
    <3>1. CASE e = d
      BY <2>1, <2>2, <2>4, <3>1
    <3>2. CASE e # d
      BY <2>2, <2>4, <3>2 DEF EncapExact
    <3>. QED
      BY <3>1, <3>2
  <2>. QED
    BY <2>2, <2>3, <2>4 DEF EncapExact, SockStage
<1>3. ASSUME NEW d \in Dev, NewBadRole(d) \/ \E k \in Tables : NewTablesFail(d, k)
      PROVE  EncapExact' /\ SockStage'
  <2>1. /\ rtnl.at = "tables" /\ rtnl' = Unlocked
        /\ sock' = DisabledSock(dev[d].sk1u)
        /\ \A e \in Dev : e # d => dev'[e] = dev[e]
        /\ dev'[d].sk1u = None
    BY <1>3 DEF NewBadRole, NewTablesFail, NoDev, TypeOK
  <2>2. rtnl'.at = "idle"
    BY <2>1 DEF Unlocked
  <2>. QED
    BY <2>1, <2>2, DisabledUsers, TunnelGoes
<1>4. ASSUME NEW d \in Dev, NewTables(d) \/ Register(d) \/ List(d)
      PROVE  EncapExact' /\ SockStage'
  <2>1. /\ rtnl.at # "sock" /\ rtnl'.at # "sock" /\ UNCHANGED sock
        /\ \A e \in Dev : dev'[e].mem = dev[e].mem /\ dev'[e].sk1u = dev[e].sk1u
    <3>1. rtnl.at # "sock" /\ rtnl'.at # "sock" /\ UNCHANGED sock
      BY <1>4 DEF NewTables, Register, List, TypeOK, RtnlType, Unlocked
    <3>2. \/ dev' = [dev EXCEPT ![d].tables = Tables]
          \/ dev' = [dev EXCEPT ![d].up = TRUE]
          \/ dev' = [dev EXCEPT ![d].listed = TRUE]
      BY <1>4 DEF NewTables, Register, List
    <3>3. \A e \in Dev : dev'[e].mem = dev[e].mem /\ dev'[e].sk1u = dev[e].sk1u
      BY <3>2 DEF TypeOK, DevType
    <3>. QED
      BY <3>1, <3>3
  <2>. QED
    BY <2>1, TunnelSame
<1>. QED
  BY <1>1, <1>2, <1>3, <1>4 DEF NewSteps

LEMMA RemovalTunnel ==
  ASSUME IInv, RemovalSteps
  PROVE  EncapExact' /\ SockStage'
<1>. USE DEF IInv
<1>1. ASSUME NEW d \in Dev, Uninit(d)
      PROVE  EncapExact' /\ SockStage'
  <2>1. /\ rtnl.at = "uninit" /\ rtnl'.at # "sock"
        /\ sock' = DisabledSock(dev[d].sk1u)
        /\ dev' = [dev EXCEPT ![d].sk1u = None]
    BY <1>1, DisabledDevs DEF Uninit, TypeOK, RtnlType
  <2>2. (\A e \in Dev : e # d => dev'[e] = dev[e]) /\ dev'[d].sk1u = None
    BY <2>1 DEF TypeOK, DevType
  <2>. QED
    BY <2>1, <2>2, DisabledUsers, TunnelGoes
<1>2. CASE DropDevs
  <2>1. /\ rtnl.at = "drop" /\ rtnl'.at = "idle" /\ UNCHANGED sock
        /\ \A d \in rtnl.devs : dev[d].sk1u = None
        /\ \A d \in Dev : dev'[d].sk1u = dev[d].sk1u
        /\ \A d \in Dev : d \notin rtnl.devs => dev'[d].mem = dev[d].mem
    BY <1>2 DEF DropDevs, Teardown, Unlocked, TypeOK, DevType
  <2>2. ASSUME NEW t \in Sock, sock[t].user # None
        PROVE  dev'[sock[t].user].mem /\ dev'[sock[t].user].sk1u = t
    <3>1. PICK e \in Dev : sock[t].user = e /\ t # None
      BY <2>2, LinkAssumption DEF TypeOK, SockType
    <3>2. dev[e].mem /\ dev[e].sk1u = t
      BY <2>1, <2>2, <3>1 DEF EncapExact
    <3>. QED
      BY <2>1, <3>1, <3>2
  <2>. QED
    BY <2>1, <2>2 DEF EncapExact, SockStage
<1>3. ASSUME \/ \E d \in Dev : DelLink(d) \/ UnlinkRules(d) \/ FreeTables(d)
             \/ CloseDevs \/ NetExit
      PROVE  EncapExact' /\ SockStage'
  <2>1. rtnl.at # "sock" /\ UNCHANGED sock
    BY <1>3 DEF DelLink, UnlinkRules, FreeTables, CloseDevs, NetExit
  <2>2. rtnl'.at # "sock"
    BY <1>3 DEF DelLink, UnlinkRules, FreeTables, CloseDevs, NetExit, TearDown, Unlocked,
                TypeOK, RtnlType
  <2>3. \A e \in Dev : dev'[e].mem = dev[e].mem /\ dev'[e].sk1u = dev[e].sk1u
    <3>1. ASSUME NEW d \in Dev, FreeTables(d)
          PROVE  \A e \in Dev : dev'[e].mem = dev[e].mem /\ dev'[e].sk1u = dev[e].sk1u
      <4>1. dev' = [dev EXCEPT ![d] = [dev[d] EXCEPT !.tables = {}, !.listed = FALSE]]
        BY <3>1 DEF FreeTables
      <4>2. /\ [dev[d] EXCEPT !.tables = {}, !.listed = FALSE].mem = dev[d].mem
            /\ [dev[d] EXCEPT !.tables = {}, !.listed = FALSE].sk1u = dev[d].sk1u
        BY DEF TypeOK, DevType
      <4>. QED
        BY <4>1, <4>2 DEF TypeOK
    <3>2. CASE CloseDevs
      <4>1. \A e \in Dev : dev'[e] = dev[e] \/ dev'[e] = [dev[e] EXCEPT !.up = FALSE]
        BY <3>2 DEF CloseDevs
      <4>. QED
        BY <4>1 DEF TypeOK, DevType
    <3>3. ASSUME (\E d \in Dev : DelLink(d) \/ UnlinkRules(d)) \/ NetExit
          PROVE  UNCHANGED dev
      BY <3>3 DEF DelLink, UnlinkRules, NetExit
    <3>. QED
      BY <1>3, <3>1, <3>2, <3>3
  <2>. QED
    BY <2>1, <2>2, <2>3, TunnelSame
<1>. QED
  BY <1>1, <1>2, <1>3 DEF RemovalSteps

\* A removal that starts, of no device at all it is not one.
LEMMA TearDownIs ==
  ASSUME NEW S
  PROVE  /\ S = {} => TearDown(S) = Unlocked /\ TearDown(S).at = "idle"
         /\ S # {} => TearDown(S).at = "unlink"
         /\ TearDown(S).devs = S /\ (S # {} => TearDown(S).todo = S)
         /\ TearDown(S).wait = {}
<1>1. CASE S = {}
  BY <1>1 DEF TearDown, Unlocked
<1>2. CASE S # {}
  BY <1>2 DEF TearDown, Unlocked
<1>. QED
  BY <1>1, <1>2

\* The link operation that an unload starts.
LEMMA UnregisterIs ==
  ASSUME NEW x \in Facilities, Unregister(x)
  PROVE  /\ mod.phase \in {"undo", "unload"} /\ x \in mod.reg
         /\ mod' = [mod EXCEPT !.reg = @ \ {x}]
         /\ UNCHANGED <<dev, sock, pdr, rx, fault>>
         /\ \/ x \notin {"rtnl", "pernet"} /\ UNCHANGED rtnl
            \/ x = "rtnl" /\ rtnl.at = "idle" /\ rtnl' = TearDown(Up)
            \/ x = "pernet" /\ rtnl.at = "idle" /\ rtnl' = TearDown(Listed)
<1>1. CASE x = "genl"
  BY <1>1 DEF Unregister, IsNext
<1>2. CASE x = "rtnl"
  BY <1>2 DEF Unregister, IsNext
<1>3. CASE x = "pernet"
  BY <1>3 DEF Unregister, IsNext
<1>4. CASE x = "proc"
  BY <1>4 DEF Unregister, IsNext
<1>. QED
  BY <1>1, <1>2, <1>3, <1>4 DEF Facilities

LEMMA ModuleTunnel ==
  ASSUME IInv, ModuleSteps
  PROVE  EncapExact' /\ SockStage'
<1>1. UNCHANGED <<dev, sock>>
  BY DEF ModuleSteps, Load, RegisterNext, RegisterFails, Unload, Gone, Unregister
<1>2. UNCHANGED rtnl \/ (rtnl.at # "sock" /\ rtnl'.at # "sock")
  <2>1. CASE Load \/ RegisterNext \/ RegisterFails \/ Unload \/ Gone
    BY <2>1 DEF Load, RegisterNext, RegisterFails, Unload, Gone
  <2>2. ASSUME NEW x \in Facilities, Unregister(x)
        PROVE  UNCHANGED rtnl \/ (rtnl.at # "sock" /\ rtnl'.at # "sock")
    BY <2>2, UnregisterIs, TearDownIs
  <2>. QED
    BY <2>1, <2>2 DEF ModuleSteps
<1>. QED
  BY <1>1, <1>2, TunnelSame DEF IInv

LEMMA SockTunnel ==
  ASSUME IInv, SockSteps
  PROVE  EncapExact' /\ SockStage'
<1>. USE DEF IInv
<1>1. ASSUME NEW s \in Sock, Close(s)
      PROVE  EncapExact' /\ SockStage'
  <2>1. \A t \in Sock : sock'[t].user = sock[t].user
    <3>1. CASE sock[s].user # None
      BY <1>1, <3>1 DEF Close, TypeOK, SockType
    <3>2. CASE sock[s].user = None
      <4> DEFINE S == [sock EXCEPT ![s].fd = "closed"]
      <4>1. /\ S \in [Sock -> SockType] /\ S[s].refs = sock[s].refs
            /\ \A t \in Sock : S[t].user = sock[t].user
        BY DEF TypeOK, SockType
      <4>2. sock[s].refs # 0 /\ sock' = Put(S, s)
        BY <1>1, <3>2, RefsPositive DEF Close
      <4>. HIDE DEF S
      <4>. QED
        BY <4>1, <4>2, PutIs
    <3>. QED
      BY <3>1, <3>2
  <2>. QED
    BY <1>1, <2>1, TunnelSame DEF Close
<1>2. ASSUME NEW s \in Sock, CloseDestroy(s)
      PROVE  EncapExact' /\ SockStage'
  <2>1. /\ rtnl.at = "idle" /\ UNCHANGED rtnl /\ sock[s].fd = "closing"
        /\ sock' = Put([DisabledSock(s) EXCEPT ![s].fd = "closed"], s)
        /\ dev' = DisabledDev(s)
    BY <1>2 DEF CloseDestroy
  <2>2. (\A t \in Sock : t # s => sock'[t] = sock[t]) /\ sock'[s].user = None
    BY <2>1, DestroyIs
  <2>3. CASE sock[s].user = None
    <3>1. UNCHANGED dev
      <4>1. \A d \in Dev : d # None
        BY LinkAssumption
      <4>. QED
        BY <2>1, <2>3, LinkAssumption DEF DisabledDev, User
    <3>2. \A t \in Sock : sock'[t].user = sock[t].user
      BY <2>2, <2>3
    <3>. QED
      BY <2>1, <3>1, <3>2, TunnelSame
  <2>4. CASE sock[s].user # None
    <3>1. PICK d \in Dev : sock[s].user = d
      BY <2>4 DEF TypeOK, SockType
    <3>2. dev[d].sk1u = s
      BY <2>1, <2>4, <3>1 DEF EncapExact
    <3>3. dev' = [dev EXCEPT ![d].sk1u = None]
      BY <2>1, <3>2, DisabledDevs
    <3>4. (\A e \in Dev : e # d => dev'[e] = dev[e]) /\ dev'[d].sk1u = None
      BY <3>3 DEF TypeOK, DevType
    <3>. QED
      BY <2>1, <2>2, <3>2, <3>4, TunnelGoes
  <2>. QED
    BY <2>3, <2>4
<1>3. ASSUME NEW s \in Sock, FreeSock(s) \/ Open(s)
      PROVE  EncapExact' /\ SockStage'
  <2>1. sock[s].user = None
    BY <1>3, RefsPositive DEF FreeSock, Open
  <2>2. \A t \in Sock : sock'[t].user = sock[t].user
    BY <1>3, <2>1 DEF FreeSock, Open, NewSock, TypeOK, SockType
  <2>. QED
    BY <1>3, <2>2, TunnelSame DEF FreeSock, Open
<1>. QED
  BY <1>1, <1>2, <1>3 DEF SockSteps

LEMMA PdrTunnel ==
  ASSUME IInv, PdrSteps
  PROVE  EncapExact' /\ SockStage'
<1>. USE DEF IInv
<1>1. UNCHANGED <<dev, rtnl>>
  BY DEF PdrSteps, AddPdr, FreePdr
<1>2. \A t \in Sock : sock'[t].user = sock[t].user
  <2>1. ASSUME NEW p \in Pdr, FreePdr(p)
        PROVE  \A t \in Sock : sock'[t].user = sock[t].user
    <3>1. pdr[p].sk \in Sock /\ pdr[p].life # "free"
      BY <2>1 DEF FreePdr, PdrHolds
    <3>2. sock[pdr[p].sk].refs # 0
      BY <3>1, RefsPositive
    <3>. QED
      BY <2>1, <3>1, <3>2, PutIs DEF FreePdr, TypeOK
  <2>2. ASSUME NEW p \in Pdr, NEW d \in Dev, AddPdr(d, p)
        PROVE  \A t \in Sock : sock'[t].user = sock[t].user
    BY <2>2 DEF AddPdr, TypeOK, SockType
  <2>. QED
    BY <2>1, <2>2 DEF PdrSteps
<1>. QED
  BY <1>1, <1>2, TunnelSame

LEMMA LeaveTunnel ==
  ASSUME IInv, LeaveSteps
  PROVE  EncapExact' /\ SockStage'
<1>. USE DEF IInv
<1>1. PICK c \in Cpu, p \in Pdr \cup {None} : Leave(c, p)
  BY DEF LeaveSteps
<1>2. \A t \in Sock : sock'[t].user = sock[t].user
  BY <1>1 DEF Leave, TypeOK, SockType
<1>3. /\ rtnl'.at = rtnl.at /\ rtnl'.devs = rtnl.devs /\ rtnl'.sock = rtnl.sock
      /\ UNCHANGED dev
  BY <1>1 DEF Leave, TypeOK, RtnlType
<1>. QED
  BY <1>2, <1>3, TunnelSame

LEMMA TunnelStep ==
  ASSUME IInv, Next
  PROVE  EncapExact' /\ SockStage'
<1>1. CASE SectionSteps \/ FaultSteps
  <2>1. UNCHANGED <<dev, sock, rtnl>>
    BY <1>1 DEF SectionSteps, FaultSteps, Lookup, Echo, RxRecv, Xmit, FindDev
  <2>. QED
    BY <2>1, TunnelSame DEF IInv
<1>. QED
  BY <1>1, NextCases, NewTunnel, RemovalTunnel, ModuleTunnel, SockTunnel, PdrTunnel, LeaveTunnel

-----------------------------------------------------------------------------
\* Devices

DevInv == NothingLeft /\ Building /\ Teardown /\ Settled

\* No device and no stage changes, and no device gets a rule it had not.
LEMMA DevicesSame ==
  ASSUME DevInv, UNCHANGED dev,
         rtnl'.at = rtnl.at, rtnl'.devs = rtnl.devs, rtnl'.todo = rtnl.todo,
         \A d \in Dev : PdrsOf(d) = {} => PdrsOf(d)' = {},
         rtnl.devs \subseteq Dev
  PROVE  DevInv'
<1>1. \A d \in Dev : Empty(d) => Empty(d)'
  BY DEF Empty
<1>2. \A d \in Dev : Emptying(d) => Emptying(d)'
  BY DEF Emptying
<1>3. NothingLeft'
  BY DEF DevInv, NothingLeft
<1>4. Building'
  BY DEF DevInv, Building
<1>5. Teardown'
  BY <1>1, <1>2 DEF DevInv, Teardown
<1>6. Settled'
  BY DEF DevInv, Settled
<1>. QED
  BY <1>3, <1>4, <1>5, <1>6 DEF DevInv

\* Devices are told apart by their fields.
LEMMA DeviceFields ==
  ASSUME NEW x \in DevType, NEW y \in DevType,
         x.mem = y.mem, x.sk1u = y.sk1u, x.tables = y.tables, x.up = y.up,
         x.listed = y.listed
  PROVE  x = y
  BY DEF DevType

LEMMA NoDevIs ==
  /\ NoDev \in DevType
  /\ [NoDev EXCEPT !.tables = {}] = NoDev
  /\ [NoDev EXCEPT !.sk1u = None] = NoDev
<1>1. NoDev \in DevType
  BY DEF NoDev, DevType
<1>2. [NoDev EXCEPT !.tables = {}] \in DevType /\ [NoDev EXCEPT !.sk1u = None] \in DevType
  BY <1>1 DEF DevType
<1>3. NoDev.tables = {} /\ NoDev.sk1u = None
  BY DEF NoDev
<1>4. [NoDev EXCEPT !.tables = {}] = NoDev
  BY <1>1, <1>2, <1>3, DeviceFields DEF DevType
<1>5. [NoDev EXCEPT !.sk1u = None] = NoDev
  BY <1>1, <1>2, <1>3, DeviceFields DEF DevType
<1>. QED
  BY <1>1, <1>4, <1>5

LEMMA PdrsSame ==
  ASSUME UNCHANGED pdr
  PROVE  \A d \in Dev : PdrsOf(d)' = PdrsOf(d)
  BY DEF PdrsOf

\* A removal starts with devices that are there.
LEMMA RemovalStarts ==
  ASSUME DevInv, UNCHANGED <<dev, pdr>>, rtnl.at = "idle",
         NEW S \in SUBSET Dev, rtnl' = TearDown(S), \A d \in S : dev[d].mem
  PROVE  DevInv'
<1>1. /\ S = {} => rtnl'.at = "idle"
      /\ S # {} => rtnl'.at = "unlink" /\ rtnl'.todo = S
      /\ rtnl'.devs = S
  BY TearDownIs
<1>2. rtnl.devs = {}
  BY DEF DevInv, Settled
<1>3. NothingLeft'
  BY PdrsSame DEF DevInv, NothingLeft
<1>4. Building' /\ Teardown'
  BY <1>1 DEF Building, Teardown, Removal
<1>5. Settled'
  BY <1>1, <1>2 DEF DevInv, Settled
<1>. QED
  BY <1>3, <1>4, <1>5 DEF DevInv

LEMMA NewDevices ==
  ASSUME IInv, NewSteps
  PROVE  DevInv'
<1>. USE DEF IInv
<1>1. UNCHANGED pdr
  BY DEF NewSteps, NewSk, NewBadRole, NewTables, NewTablesFail, Register, List, NewLink
<1>2. \A e \in Dev : PdrsOf(e)' = PdrsOf(e)
  BY <1>1, PdrsSame
<1>3. ASSUME NEW d \in Dev, NEW s \in Sock \cup {None}, NewLink(d, s)
      PROVE  DevInv'
  <2>1. /\ rtnl.at = "idle" /\ rtnl.devs = {} /\ dev[d] = NoDev /\ PdrsOf(d) = {}
        /\ rtnl'.at = "sock" /\ rtnl'.devs = {d}
        /\ \A e \in Dev : e # d => dev'[e] = dev[e]
        /\ dev'[d] = [NoDev EXCEPT !.mem = TRUE]
    BY <1>3 DEF NewLink, Fresh, Settled, NothingLeft, Unlocked, TypeOK, NoDev
  <2>2. dev'[d].mem /\ ~dev'[d].up /\ ~dev'[d].listed
    BY <2>1 DEF NoDev
  <2>3. NothingLeft'
    BY <1>2, <2>1, <2>2 DEF NothingLeft
  <2>4. Building' /\ Teardown'
    BY <1>2, <2>1 DEF Building, Teardown, Removal
  <2>5. Settled'
    <3>1. \A e \in Dev \ rtnl'.devs : dev'[e].mem => dev'[e].up /\ dev'[e].tables = Tables
      BY <2>1 DEF Settled
    <3>2. \A e \in Dev : dev'[e].up \/ dev'[e].listed => dev'[e].mem
      BY <2>1, <2>2 DEF Settled
    <3>. QED
      BY <2>1, <3>1, <3>2 DEF Settled
  <2>. QED
    BY <2>3, <2>4, <2>5 DEF DevInv
<1>4. ASSUME NEW d \in Dev, NewSk(d) \/ NewTables(d) \/ Register(d)
      PROVE  DevInv'
  <2>1. /\ rtnl.devs = {d} /\ rtnl'.devs = {d}
        /\ rtnl.at \in {"sock", "tables", "register"}
        /\ PdrsOf(d) = {} /\ dev[d].mem
    BY <1>4 DEF NewSk, NewTables, Register, SockStage, Building, TypeOK, RtnlType, NoDev
  <2>2. \A e \in Dev : e # d => dev'[e] = dev[e]
    BY <1>4 DEF NewSk, NewTables, Register, TypeOK
  <2>3. /\ dev'[d].mem /\ ~dev'[d].listed
        /\ rtnl'.at \in {"tables", "register", "list"}
        /\ dev'[d].up <=> rtnl'.at = "list"
        /\ dev'[d].tables = IF rtnl'.at = "tables" THEN {} ELSE Tables
    <3>1. CASE NewSk(d)
      <4>1. rtnl'.at = "tables" /\ dev'[d] = [dev[d] EXCEPT !.sk1u = rtnl.sock]
        BY <3>1 DEF NewSk, TypeOK, RtnlType
      <4>2. dev[d] = [NoDev EXCEPT !.mem = TRUE]
        BY <2>1, <3>1 DEF NewSk, SockStage
      <4>. QED
        BY <4>1, <4>2 DEF NoDev
    <3>2. CASE NewTables(d)
      <4>1. /\ rtnl.at = "tables" /\ rtnl'.at = "register"
            /\ dev'[d] = [dev[d] EXCEPT !.tables = Tables]
        BY <3>2 DEF NewTables, TypeOK, RtnlType
      <4>2. dev[d].mem /\ ~dev[d].listed /\ ~dev[d].up
        BY <2>1, <4>1 DEF Building
      <4>. QED
        BY <4>1, <4>2 DEF TypeOK, DevType
    <3>3. CASE Register(d)
      <4>1. /\ rtnl.at = "register" /\ rtnl'.at = "list"
            /\ dev'[d] = [dev[d] EXCEPT !.up = TRUE]
        BY <3>3 DEF Register, TypeOK, RtnlType
      <4>2. dev[d].mem /\ ~dev[d].listed /\ dev[d].tables = Tables
        BY <2>1, <4>1 DEF Building
      <4>. QED
        BY <4>1, <4>2 DEF TypeOK, DevType
    <3>. QED
      BY <1>4, <3>1, <3>2, <3>3
  <2>4. NothingLeft'
    BY <1>2, <2>2, <2>3 DEF NothingLeft
  <2>5. Building'
    BY <1>2, <2>1, <2>3 DEF Building
  <2>6. Teardown'
    BY <2>3 DEF Teardown, Removal
  <2>7. Settled'
    BY <2>1, <2>2, <2>3 DEF Settled
  <2>. QED
    BY <2>4, <2>5, <2>6, <2>7 DEF DevInv
<1>5. ASSUME NEW d \in Dev, NewBadRole(d) \/ \E k \in Tables : NewTablesFail(d, k)
      PROVE  DevInv'
  <2>1. rtnl.at = "tables" /\ rtnl.devs = {d} /\ PdrsOf(d) = {}
    BY <1>5 DEF NewBadRole, NewTablesFail, Building
  <2>2. rtnl'.at = "idle" /\ rtnl'.devs = {}
    BY <1>5 DEF NewBadRole, NewTablesFail, Unlocked
  <2>3. (\A e \in Dev : e # d => dev'[e] = dev[e]) /\ dev'[d] = NoDev
    <3>1. CASE NewBadRole(d)
      BY <3>1 DEF NewBadRole, TypeOK
    <3>2. ASSUME NEW k \in Tables, NewTablesFail(d, k)
          PROVE  (\A e \in Dev : e # d => dev'[e] = dev[e]) /\ dev'[d] = NoDev
      <4>1. dev' = [dev EXCEPT ![d] = [NoDev EXCEPT !.tables = {}]]
        BY <3>2 DEF NewTablesFail, Ladder
      <4>. QED
        BY <4>1, NoDevIs DEF TypeOK
    <3>. QED
      BY <1>5, <3>1, <3>2
  <2>4. NothingLeft'
    BY <1>2, <2>1, <2>3 DEF NothingLeft
  <2>5. Building' /\ Teardown'
    BY <2>2 DEF Building, Teardown, Removal
  <2>6. Settled'
    BY <2>1, <2>2, <2>3 DEF Settled, NoDev
  <2>. QED
    BY <2>4, <2>5, <2>6 DEF DevInv
<1>6. ASSUME NEW d \in Dev, List(d)
      PROVE  DevInv'
  <2>1. /\ rtnl.devs = {d} /\ dev[d].mem /\ dev[d].up /\ dev[d].tables = Tables
        /\ rtnl'.at = "idle" /\ rtnl'.devs = {}
    BY <1>6 DEF List, Building, Unlocked
  <2>2. /\ \A e \in Dev : e # d => dev'[e] = dev[e]
        /\ dev'[d].mem /\ dev'[d].up /\ dev'[d].tables = Tables
    BY <1>6, <2>1 DEF List, TypeOK, DevType
  <2>3. NothingLeft'
    BY <1>2, <2>2 DEF NothingLeft
  <2>4. Building' /\ Teardown'
    BY <2>1 DEF Building, Teardown, Removal
  <2>5. Settled'
    BY <2>1, <2>2 DEF Settled
  <2>. QED
    BY <2>3, <2>4, <2>5 DEF DevInv
<1>. QED
  BY <1>3, <1>4, <1>5, <1>6 DEF NewSteps

LEMMA RemovalDevices ==
  ASSUME IInv, RemovalSteps
  PROVE  DevInv'
<1>. USE DEF IInv
<1>0. DevInv /\ rtnl.devs \subseteq Dev
  BY DEF DevInv, TypeOK, RtnlType
<1>1. ASSUME NEW d \in Dev, DelLink(d)
      PROVE  DevInv'
  BY <1>0, <1>1, RemovalStarts DEF DelLink, Settled
<1>2. CASE NetExit
  <2>1. Listed \in SUBSET Dev /\ \A d \in Listed : dev[d].mem
    BY DEF Listed, Settled
  <2>. QED
    BY <1>0, <1>2, <2>1, RemovalStarts DEF NetExit
<1>3. ASSUME NEW d \in Dev, UnlinkRules(d)
      PROVE  DevInv'
  <2>1. /\ rtnl.at = "unlink" /\ d \in rtnl.todo /\ UNCHANGED dev
        /\ rtnl'.at = "free" /\ rtnl'.devs = rtnl.devs /\ rtnl'.todo = rtnl.todo \ {d}
    BY <1>3 DEF UnlinkRules, TypeOK, RtnlType
  <2>2. PdrsOf(d)' = {} /\ \A e \in Dev : PdrsOf(e)' \subseteq PdrsOf(e)
    <3>1. \A p \in Pdr : pdr'[p] = IF p \in PdrsOf(d) THEN Unlinked(pdr[p], InSection)
                                   ELSE pdr[p]
      BY <1>3 DEF UnlinkRules
    <3>2. \A p \in Pdr : Unlinked(pdr[p], InSection).life = "dying"
      BY DEF Unlinked, TypeOK, PdrType
    <3>. QED
      BY <3>1, <3>2 DEF PdrsOf
  <2>3. \A e \in Dev : Empty(e) => Empty(e)'
    BY <2>1, <2>2 DEF Empty
  <2>4. NothingLeft'
    BY <2>1, <2>2 DEF NothingLeft
  <2>5. Building'
    BY <2>1 DEF Building
  <2>6. Teardown'
    <3>1. rtnl.todo \subseteq rtnl.devs /\ \A e \in rtnl.devs : dev[e].mem
      BY <2>1 DEF Teardown, Removal
    <3>2. \A e \in rtnl.devs \ rtnl.todo : Empty(e)'
      BY <1>0, <2>1, <2>3 DEF Teardown
    <3>3. d \in rtnl'.devs \ rtnl'.todo /\ Emptying(d)'
      BY <2>1, <2>2, <3>1 DEF Emptying
    <3>. QED
      BY <2>1, <3>1, <3>2, <3>3 DEF Teardown
  <2>7. Settled'
    BY <2>1 DEF Settled
  <2>. QED
    BY <2>4, <2>5, <2>6, <2>7 DEF DevInv
<1>4. ASSUME NEW d \in Dev, FreeTables(d)
      PROVE  DevInv'
  <2>1. /\ rtnl.at = "free" /\ d \in rtnl.devs \ rtnl.todo /\ dev[d].tables # {}
        /\ UNCHANGED pdr
        /\ rtnl'.devs = rtnl.devs /\ rtnl'.todo = rtnl.todo
        /\ rtnl'.at = IF rtnl.todo = {} THEN "close" ELSE "unlink"
    BY <1>4 DEF FreeTables, Emptied, TypeOK, RtnlType
  <2>2. /\ \A e \in Dev : e # d => dev'[e] = dev[e]
        /\ dev'[d] = [dev[d] EXCEPT !.tables = {}, !.listed = FALSE]
    BY <1>4 DEF FreeTables, TypeOK
  <2>3. /\ dev'[d].mem = dev[d].mem /\ dev'[d].up = dev[d].up
        /\ dev'[d].tables = {} /\ ~dev'[d].listed
    BY <2>2 DEF TypeOK, DevType
  <2>4. Emptying(d) /\ \A e \in rtnl.devs \ rtnl.todo : e # d => Empty(e)
    BY <2>1 DEF Teardown, Empty
  <2>5. \A e \in rtnl.devs \ rtnl.todo : Empty(e)'
    <3>1. Empty(d)'
      BY <2>1, <2>3, <2>4, PdrsSame DEF Empty, Emptying
    <3>2. \A e \in Dev : e # d /\ Empty(e) => Empty(e)'
      BY <2>1, <2>2, PdrsSame DEF Empty
    <3>. QED
      BY <1>0, <2>4, <3>1, <3>2
  <2>6. rtnl.todo \subseteq rtnl.devs /\ \A e \in rtnl.devs : dev[e].mem
    BY <2>1 DEF Teardown, Removal
  <2>7. NothingLeft'
    <3>1. \A e \in Dev : ~dev'[e].mem => e # d
      BY <2>1, <2>3, <2>6
    <3>. QED
      BY <2>1, <2>2, <3>1, PdrsSame DEF NothingLeft
  <2>8. Building'
    BY <2>1 DEF Building
  <2>9. Teardown'
    BY <1>0, <2>1, <2>2, <2>3, <2>5, <2>6 DEF Teardown
  <2>10. Settled'
    <3>1. \A e \in Dev \ rtnl'.devs : dev'[e].mem => dev'[e].up /\ dev'[e].tables = Tables
      BY <2>1, <2>2 DEF Settled
    <3>2. \A e \in Dev : dev'[e].up \/ dev'[e].listed => dev'[e].mem
      BY <2>1, <2>2, <2>3, <2>6 DEF Settled
    <3>3. rtnl'.at # "idle"
      BY <2>1
    <3>. QED
      BY <3>1, <3>2, <3>3 DEF Settled
  <2>. QED
    BY <2>7, <2>8, <2>9, <2>10 DEF DevInv
<1>5. CASE CloseDevs
  <2>1. /\ rtnl.at = "close" /\ UNCHANGED pdr
        /\ rtnl'.at = "uninit" /\ rtnl'.devs = rtnl.devs /\ rtnl'.todo = rtnl.devs
    BY <1>5 DEF CloseDevs, TypeOK, RtnlType
  <2>2. /\ \A e \in Dev : e \notin rtnl.devs => dev'[e] = dev[e]
        /\ \A e \in rtnl.devs : dev'[e] = [dev[e] EXCEPT !.up = FALSE]
    BY <1>0, <1>5 DEF CloseDevs
  <2>3. \A e \in rtnl.devs :
          /\ dev'[e].mem = dev[e].mem /\ ~dev'[e].up
          /\ dev'[e].tables = dev[e].tables /\ dev'[e].listed = dev[e].listed
    <3>1. \A e \in rtnl.devs : dev[e] \in DevType
      BY <1>0 DEF TypeOK
    <3>. QED
      BY <2>2, <3>1 DEF DevType
  <2>4. \A e \in rtnl.devs : Empty(e) /\ dev[e].mem
    BY <2>1 DEF Teardown, Removal
  <2>5. \A e \in rtnl.devs : Empty(e)'
    BY <1>0, <2>1, <2>3, <2>4, PdrsSame DEF Empty
  <2>6. NothingLeft'
    BY <2>1, <2>2, <2>3, <2>4, PdrsSame DEF NothingLeft
  <2>7. Building' /\ Teardown'
    BY <2>1, <2>3, <2>4, <2>5 DEF Building, Teardown
  <2>8. Settled'
    BY <2>1, <2>2, <2>3, <2>4 DEF Settled
  <2>. QED
    BY <2>6, <2>7, <2>8 DEF DevInv
<1>6. ASSUME NEW d \in Dev, Uninit(d)
      PROVE  DevInv'
  <2>1. /\ rtnl.at = "uninit" /\ d \in rtnl.todo /\ UNCHANGED pdr
        /\ dev' = [dev EXCEPT ![d].sk1u = None]
        /\ rtnl'.devs = rtnl.devs
        /\ rtnl'.at = IF rtnl.todo = {d} THEN "drop" ELSE "uninit"
        /\ rtnl'.todo = rtnl.todo \ {d}
    BY <1>6, DisabledDevs DEF Uninit, TypeOK, RtnlType
  <2>2. /\ \A e \in Dev : e # d => dev'[e] = dev[e]
        /\ dev'[d].mem = dev[d].mem /\ dev'[d].up = dev[d].up
        /\ dev'[d].tables = dev[d].tables /\ dev'[d].listed = dev[d].listed
        /\ dev'[d].sk1u = None
    BY <2>1 DEF TypeOK, DevType
  <2>3. /\ rtnl.todo \subseteq rtnl.devs
        /\ \A e \in rtnl.devs : Empty(e) /\ dev[e].mem /\ ~dev[e].up
        /\ \A e \in rtnl.devs \ rtnl.todo : dev[e].sk1u = None
    BY <2>1 DEF Teardown, Removal
  <2>4. \A e \in rtnl.devs : Empty(e)'
    BY <1>0, <2>1, <2>2, <2>3, PdrsSame DEF Empty
  <2>5. NothingLeft'
    BY <2>1, <2>2, <2>3, PdrsSame DEF NothingLeft
  <2>6. Building'
    BY <2>1 DEF Building
  <2>7. Teardown'
    <3>1. \A e \in rtnl.devs : dev'[e].mem /\ ~dev'[e].up
      BY <1>0, <2>2, <2>3
    <3>2. \A e \in rtnl.devs \ (rtnl.todo \ {d}) : dev'[e].sk1u = None
      BY <1>0, <2>2, <2>3
    <3>. QED
      BY <2>1, <2>3, <2>4, <3>1, <3>2 DEF Teardown
  <2>8. Settled'
    BY <2>1, <2>2, <2>3 DEF Settled
  <2>. QED
    BY <2>5, <2>6, <2>7, <2>8 DEF DevInv
<1>7. CASE DropDevs
  <2>1. /\ rtnl.at = "drop" /\ UNCHANGED pdr
        /\ rtnl'.at = "idle" /\ rtnl'.devs = {}
    BY <1>7 DEF DropDevs, Unlocked
  <2>2. \A e \in rtnl.devs : Empty(e) /\ ~dev[e].up /\ dev[e].sk1u = None
    BY <2>1 DEF Teardown
  <2>3. /\ \A e \in Dev : e \notin rtnl.devs => dev'[e] = dev[e]
        /\ \A e \in rtnl.devs : dev'[e] = [dev[e] EXCEPT !.mem = FALSE]
    BY <1>0, <1>7 DEF DropDevs
  <2>4. \A e \in rtnl.devs : dev'[e] = NoDev
    <3>1. ASSUME NEW e \in rtnl.devs
          PROVE  dev'[e] = NoDev
      <4>1. /\ dev[e] \in DevType /\ dev'[e] = [dev[e] EXCEPT !.mem = FALSE]
            /\ dev[e].tables = {} /\ ~dev[e].listed /\ ~dev[e].up /\ dev[e].sk1u = None
        BY <1>0, <2>2, <2>3 DEF Empty, TypeOK
      <4>2. /\ dev'[e] \in DevType
            /\ dev'[e].mem = FALSE /\ dev'[e].tables = {} /\ dev'[e].listed = FALSE
            /\ dev'[e].up = FALSE /\ dev'[e].sk1u = None
        BY <4>1 DEF DevType
      <4>3. /\ NoDev.mem = FALSE /\ NoDev.tables = {} /\ NoDev.listed = FALSE
            /\ NoDev.up = FALSE /\ NoDev.sk1u = None
        BY DEF NoDev
      <4>4. NoDev \in DevType
        BY NoDevIs
      <4>. QED
        BY <4>2, <4>3, <4>4, DeviceFields
    <3>. QED
      BY <3>1
  <2>5. NothingLeft'
    BY <2>1, <2>2, <2>3, <2>4, PdrsSame DEF NothingLeft, Empty
  <2>6. Building' /\ Teardown'
    BY <2>1 DEF Building, Teardown, Removal
  <2>7. Settled'
    BY <2>1, <2>3, <2>4 DEF Settled, NoDev
  <2>. QED
    BY <2>5, <2>6, <2>7 DEF DevInv
<1>. QED
  BY <1>1, <1>2, <1>3, <1>4, <1>5, <1>6, <1>7 DEF RemovalSteps

LEMMA DeviceStep ==
  ASSUME IInv, Next
  PROVE  DevInv'
<1>. USE DEF IInv
<1>0. DevInv /\ rtnl.devs \subseteq Dev
  BY DEF DevInv, TypeOK, RtnlType
<1>1. CASE SectionSteps \/ FaultSteps
  <2>1. UNCHANGED <<dev, pdr, rtnl>>
    BY <1>1 DEF SectionSteps, FaultSteps, Lookup, Echo, RxRecv, Xmit, FindDev
  <2>. QED
    BY <1>0, <2>1, PdrsSame, DevicesSame
<1>2. CASE ModuleSteps
  <2>1. ASSUME Load \/ RegisterNext \/ RegisterFails \/ Unload \/ Gone
        PROVE  UNCHANGED <<dev, pdr, rtnl>>
    BY <2>1 DEF Load, RegisterNext, RegisterFails, Unload, Gone
  <2>2. ASSUME NEW x \in Facilities, Unregister(x)
        PROVE  DevInv'
    <3>1. /\ Up \in SUBSET Dev /\ \A d \in Up : dev[d].mem
          /\ Listed \in SUBSET Dev /\ \A d \in Listed : dev[d].mem
      BY DEF Up, Listed, Settled
    <3>2. \/ UNCHANGED rtnl
          \/ rtnl.at = "idle" /\ (rtnl' = TearDown(Up) \/ rtnl' = TearDown(Listed))
      BY <2>2, UnregisterIs
    <3>3. UNCHANGED <<dev, pdr>>
      BY <2>2, UnregisterIs
    <3>. QED
      BY <1>0, <3>1, <3>2, <3>3, PdrsSame, DevicesSame, RemovalStarts
  <2>. QED
    BY <1>0, <1>2, <2>1, <2>2, PdrsSame, DevicesSame DEF ModuleSteps
<1>3. CASE SockSteps
  <2>1. ASSUME NEW s \in Sock, Close(s) \/ FreeSock(s) \/ Open(s)
        PROVE  UNCHANGED <<dev, pdr, rtnl>>
    BY <2>1 DEF Close, FreeSock, Open
  <2>2. ASSUME NEW s \in Sock, CloseDestroy(s)
        PROVE  DevInv'
    <3>1. /\ rtnl.at = "idle" /\ UNCHANGED <<pdr, rtnl>> /\ dev' = DisabledDev(s)
      BY <2>2 DEF CloseDestroy
    <3>2. \A d \in Dev : dev'[d] = dev[d] \/ dev'[d] = [dev[d] EXCEPT !.sk1u = None]
      BY <3>1, DisabledDevIs
    <3>3. \A d \in Dev :
            /\ dev'[d].mem = dev[d].mem /\ dev'[d].up = dev[d].up
            /\ dev'[d].tables = dev[d].tables /\ dev'[d].listed = dev[d].listed
      BY <3>2 DEF TypeOK, DevType
    <3>5. NothingLeft'
      BY <3>1, <3>2, <3>3, NoDevIs, PdrsSame DEF NothingLeft
    <3>6. Building' /\ Teardown'
      BY <3>1 DEF Building, Teardown, Removal
    <3>7. Settled'
      BY <3>1, <3>3 DEF Settled
    <3>. QED
      BY <3>5, <3>6, <3>7 DEF DevInv
  <2>. QED
    BY <1>0, <1>3, <2>1, <2>2, PdrsSame, DevicesSame DEF SockSteps
<1>4. CASE PdrSteps
  <2>1. ASSUME NEW p \in Pdr, FreePdr(p)
        PROVE  DevInv'
    <3>1. UNCHANGED <<dev, rtnl>>
      BY <2>1 DEF FreePdr
    <3>2. \A d \in Dev : PdrsOf(d)' = PdrsOf(d)
      BY <2>1 DEF FreePdr, PdrsOf, NoPdr, TypeOK
    <3>. QED
      BY <1>0, <3>1, <3>2, DevicesSame
  <2>2. ASSUME NEW p \in Pdr, NEW d \in Dev, AddPdr(d, p)
        PROVE  DevInv'
    <3>1. UNCHANGED <<dev, rtnl>> /\ rtnl.at = "idle" /\ dev[d].mem
      BY <2>2 DEF AddPdr, CanAdd, Settled
    <3>2. \A e \in Dev : e # d => PdrsOf(e)' = PdrsOf(e)
      <4> DEFINE new == [NoPdr EXCEPT !.life = "live", !.dev = d, !.sk = dev[d].sk1u]
      <4>1. pdr' = [pdr EXCEPT ![p] = new] \/ pdr' = [pdr EXCEPT ![p] = Unlinked(new, InSection)]
        BY <2>2 DEF AddPdr
      <4>2. new.dev = d /\ Unlinked(new, InSection).dev = d
        BY DEF NoPdr, Unlinked
      <4>3. pdr[p].life = "free"
        BY <2>2 DEF AddPdr, CanAdd, NoPdr
      <4>. HIDE DEF new
      <4>. QED
        BY <4>1, <4>2, <4>3 DEF PdrsOf, TypeOK
    <3>3. NothingLeft'
      BY <3>1, <3>2 DEF NothingLeft
    <3>4. Building' /\ Teardown'
      BY <3>1 DEF Building, Teardown, Removal
    <3>5. Settled'
      BY <3>1 DEF Settled
    <3>. QED
      BY <3>3, <3>4, <3>5 DEF DevInv
  <2>. QED
    BY <1>4, <2>1, <2>2 DEF PdrSteps
<1>5. CASE LeaveSteps
  <2>1. PICK c \in Cpu, q \in Pdr \cup {None} : Leave(c, q)
    BY <1>5 DEF LeaveSteps
  <2>2. /\ rtnl'.at = rtnl.at /\ rtnl'.devs = rtnl.devs /\ rtnl'.todo = rtnl.todo
        /\ UNCHANGED dev
    BY <2>1 DEF Leave, TypeOK, RtnlType
  <2>3. \A d \in Dev : PdrsOf(d)' \subseteq PdrsOf(d)
    <3>1. \A p \in Pdr : \/ pdr'[p] = Unlinked(pdr[p], InSection \ {c})
                         \/ pdr'[p] = [pdr[p] EXCEPT !.wait = pdr[p].wait \ {c}]
      BY <2>1 DEF Leave
    <3>2. \A p \in Pdr : pdr'[p].life = "live" =>
                           pdr[p].life = "live" /\ pdr'[p].dev = pdr[p].dev
      BY <3>1 DEF Unlinked, TypeOK, PdrType
    <3>. QED
      BY <3>2 DEF PdrsOf
  <2>. QED
    BY <1>0, <2>2, <2>3, DevicesSame
<1>. QED
  BY <1>1, <1>2, <1>3, <1>4, <1>5, NextCases, NewDevices, RemovalDevices

-----------------------------------------------------------------------------
\* The module

\* Devices stay as they are, and so does the module.
LEMMA RegisteredSame ==
  ASSUME Registered, UNCHANGED mod, rtnl'.at = rtnl.at, rtnl'.devs = rtnl.devs,
         \A d \in Dev : dev'[d].mem = dev[d].mem
  PROVE  Registered'
  BY DEF Registered

LEMMA RegisteredStep ==
  ASSUME IInv, Next
  PROVE  Registered'
<1>. USE DEF IInv
<1>1. CASE NewSteps
  <2>1. ASSUME "rtnl" \notin mod.reg
        PROVE  FALSE
    <3>1. PICK d \in Dev : \/ \E s \in Sock \cup {None} : NewLink(d, s)
                           \/ rtnl.at \in {"sock", "tables", "register", "list"}
      BY <1>1 DEF NewSteps, NewSk, NewBadRole, NewTables, NewTablesFail, Register, List
    <3>2. \A s \in Sock \cup {None} : ~NewLink(d, s)
      BY <2>1 DEF NewLink
    <3>3. \E e \in Dev : dev[e].mem
      BY <3>1, <3>2 DEF SockStage, Building, NoDev
    <3>. QED
      BY <2>1, <3>1, <3>2, <3>3 DEF Registered, Removal
  <2>2. UNCHANGED mod
    BY <1>1 DEF NewSteps, NewSk, NewBadRole, NewTables, NewTablesFail, Register, List, NewLink
  <2>. QED
    BY <2>1, <2>2 DEF Registered
<1>2. CASE RemovalSteps
  <2>1. ASSUME \E d \in Dev : UnlinkRules(d) \/ FreeTables(d) \/ Uninit(d)
        PROVE  Registered'
    <3>1. /\ rtnl.at \in {"unlink", "free", "uninit"} /\ UNCHANGED mod
          /\ rtnl'.devs = rtnl.devs /\ rtnl'.at \in Removal
      BY <2>1 DEF UnlinkRules, FreeTables, Uninit, TypeOK, RtnlType, Removal
    <3>2. \A e \in Dev : dev'[e].mem = dev[e].mem
      <4>1. ASSUME NEW d \in Dev, UnlinkRules(d)
            PROVE  UNCHANGED dev
        BY <4>1 DEF UnlinkRules
      <4>2. ASSUME NEW d \in Dev, FreeTables(d)
            PROVE  \A e \in Dev : dev'[e].mem = dev[e].mem
        <5>1. dev' = [dev EXCEPT ![d] = [dev[d] EXCEPT !.tables = {}, !.listed = FALSE]]
          BY <4>2 DEF FreeTables
        <5>2. [dev[d] EXCEPT !.tables = {}, !.listed = FALSE].mem = dev[d].mem
          BY DEF TypeOK, DevType
        <5>. QED
          BY <5>1, <5>2 DEF TypeOK
      <4>3. ASSUME NEW d \in Dev, Uninit(d)
            PROVE  \A e \in Dev : dev'[e].mem = dev[e].mem
        <5>1. dev' = [dev EXCEPT ![d].sk1u = None]
          BY <4>3, DisabledDevs DEF Uninit
        <5>. QED
          BY <5>1 DEF TypeOK, DevType
      <4>. QED
        BY <2>1, <4>1, <4>2, <4>3
    <3>3. mod.phase # "out"
      BY <3>1 DEF Registered
    <3>. QED
      BY <3>1, <3>2, <3>3 DEF Registered
  <2>2. CASE CloseDevs
    <3>1. /\ rtnl.at = "close" /\ UNCHANGED mod
          /\ rtnl'.devs = rtnl.devs /\ rtnl'.at = "uninit"
      BY <2>2 DEF CloseDevs, TypeOK, RtnlType
    <3>2. \A e \in Dev : dev'[e] = dev[e] \/ dev'[e] = [dev[e] EXCEPT !.up = FALSE]
      BY <2>2 DEF CloseDevs
    <3>3. \A e \in Dev : dev'[e].mem = dev[e].mem
      BY <3>2 DEF TypeOK, DevType
    <3>4. mod.phase # "out"
      BY <3>1 DEF Registered
    <3>. QED
      BY <3>1, <3>3, <3>4 DEF Registered, Removal
  <2>3. CASE DropDevs
    <3>1. rtnl.at = "drop" /\ UNCHANGED mod /\ rtnl'.at = "idle" /\ rtnl.devs \subseteq Dev
      BY <2>3 DEF DropDevs, Unlocked, TypeOK, RtnlType
    <3>2. \A d \in rtnl.devs : ~dev'[d].mem
      BY <2>3, <3>1 DEF DropDevs, TypeOK, DevType
    <3>3. \A d \in Dev : dev'[d].mem => dev[d].mem
      BY <2>3, <3>2 DEF DropDevs
    <3>. QED
      BY <3>1, <3>2, <3>3 DEF Registered
  <2>4. ASSUME (\E d \in Dev : DelLink(d)) \/ NetExit
        PROVE  Registered'
    <3>1. rtnl.at = "idle" /\ rtnl.devs = {} /\ UNCHANGED <<dev, mod>>
      BY <2>4 DEF DelLink, NetExit, Settled
    <3>2. \E d \in Dev : dev[d].mem
      BY <2>4 DEF DelLink, NetExit, Listed, Settled
    <3>3. "rtnl" \in mod.reg /\ mod.phase # "out"
      BY <3>1, <3>2 DEF Registered
    <3>. QED
      BY <3>1, <3>3 DEF Registered
  <2>. QED
    BY <1>2, <2>1, <2>2, <2>3, <2>4 DEF RemovalSteps
<1>3. CASE ModuleSteps
  <2>1. CASE Load \/ RegisterFails \/ Unload \/ Gone
    BY <2>1 DEF Load, RegisterFails, Unload, Gone, Registered, Loading, TypeOK
  <2>2. CASE RegisterNext
    <3>1. UNCHANGED <<dev, rtnl>>
      BY <2>2 DEF RegisterNext
    <3>. QED
      BY <2>2, <3>1, RegisterNextIs DEF Registered, Facilities
  <2>3. ASSUME NEW x \in Facilities, Unregister(x)
        PROVE  Registered'
    <3>1. /\ mod'.phase \in {"undo", "unload"} /\ mod'.reg = mod.reg \ {x}
          /\ UNCHANGED dev
      BY <2>3, UnregisterIs DEF TypeOK
    <3>2. ASSUME "rtnl" \notin mod'.reg, NEW d \in Dev, dev[d].mem
          PROVE  d \in rtnl'.devs /\ rtnl'.at \in Removal \cup {"idle"}
      <4>1. CASE x = "rtnl"
        <5>1. rtnl.at = "idle" /\ rtnl' = TearDown(Up)
          BY <2>3, <4>1, UnregisterIs
        <5>2. d \in Up
          BY <3>2, <5>1 DEF Settled, Up
        <5>. QED
          BY <5>1, <5>2, TearDownIs DEF Removal
      <4>2. CASE x # "rtnl"
        <5>1. d \in rtnl.devs /\ rtnl.at \in Removal \cup {"idle"}
          BY <3>1, <3>2, <4>2 DEF Registered
        <5>2. UNCHANGED rtnl
          BY <2>3, <4>2, <5>1, UnregisterIs DEF Settled
        <5>. QED
          BY <5>1, <5>2
      <4>. QED
        BY <4>1, <4>2
    <3>. QED
      BY <3>1, <3>2 DEF Registered
  <2>. QED
    BY <1>3, <2>1, <2>2, <2>3 DEF ModuleSteps
<1>4. CASE SockSteps
  <2>1. ASSUME NEW s \in Sock, Close(s) \/ FreeSock(s) \/ Open(s)
        PROVE  UNCHANGED <<dev, mod, rtnl>>
    BY <2>1 DEF Close, FreeSock, Open
  <2>2. ASSUME NEW s \in Sock, CloseDestroy(s)
        PROVE  UNCHANGED <<mod, rtnl>> /\ \A d \in Dev : dev'[d].mem = dev[d].mem
    <3>1. \A d \in Dev : dev'[d] = dev[d] \/ dev'[d] = [dev[d] EXCEPT !.sk1u = None]
      BY <2>2, DisabledDevIs DEF CloseDestroy
    <3>2. \A d \in Dev : dev'[d].mem = dev[d].mem
      BY <3>1 DEF TypeOK, DevType
    <3>. QED
      BY <2>2, <3>2 DEF CloseDestroy
  <2>. QED
    BY <1>4, <2>1, <2>2, RegisteredSame DEF SockSteps
<1>5. CASE PdrSteps \/ SectionSteps \/ FaultSteps
  <2>1. UNCHANGED <<dev, mod, rtnl>>
    BY <1>5 DEF PdrSteps, SectionSteps, FaultSteps, AddPdr, FreePdr, Lookup, Echo, RxRecv,
                Xmit, FindDev
  <2>. QED
    BY <2>1, RegisteredSame
<1>6. CASE LeaveSteps
  <2>1. UNCHANGED <<dev, mod>> /\ rtnl'.at = rtnl.at /\ rtnl'.devs = rtnl.devs
    BY <1>6 DEF LeaveSteps, Leave, TypeOK, RtnlType
  <2>. QED
    BY <2>1, RegisteredSame
<1>. QED
  BY <1>1, <1>2, <1>3, <1>4, <1>5, <1>6, NextCases

-----------------------------------------------------------------------------
\* Handlers

\* CPU c may use the socket, the PDR: it is live, or its end waits for c.
SockHeld(s, c) ==
  \/ sock[s].life = "live"
  \/ sock[s].life = "dying" /\ c \in sock[s].wait
PdrHeld(p, c) ==
  \/ pdr[p].life = "live"
  \/ pdr[p].life = "dying" /\ c \in pdr[p].wait

\* Nothing that a section can use is taken from it.
LEMMA RxSame ==
  ASSUME TypeOK, RxHolds, UNCHANGED rx,
         \A s \in Sock, c \in InSection : SockHeld(s, c) => SockHeld(s, c)',
         \A p \in Pdr, c \in InSection : PdrHeld(p, c) => PdrHeld(p, c)'
  PROVE  RxHolds'
<1>1. ASSUME NEW c \in Cpu, rx[c].sk # None
      PROVE  SockHeld(rx[c].sk, c)'
  <2>1. PICK s \in Sock : rx[c].sk = s
    BY <1>1 DEF TypeOK, RxType
  <2>2. c \in InSection
    BY <1>1 DEF RxHolds, InSection, Idle
  <2>3. SockHeld(s, c)
    <3>1. \/ sock[rx[c].sk].life = "live"
          \/ sock[rx[c].sk].life = "dying" /\ c \in sock[rx[c].sk].wait
      BY <1>1 DEF RxHolds
    <3>. QED
      BY <2>1, <3>1 DEF SockHeld
  <2>4. SockHeld(s, c)'
    BY <2>2, <2>3
  <2>. QED
    BY <2>1, <2>4 DEF SockHeld
<1>2. ASSUME NEW c \in Cpu, rx[c].pdr # None
      PROVE  PdrHeld(rx[c].pdr, c)'
  <2>1. PICK p \in Pdr : rx[c].pdr = p
    BY <1>2 DEF TypeOK, RxType
  <2>2. c \in InSection
    BY <1>2 DEF RxHolds, InSection, Idle
  <2>3. PdrHeld(p, c)
    <3>1. \/ pdr[rx[c].pdr].life = "live"
          \/ pdr[rx[c].pdr].life = "dying" /\ c \in pdr[rx[c].pdr].wait
      BY <1>2 DEF RxHolds
    <3>. QED
      BY <2>1, <3>1 DEF PdrHeld
  <2>4. PdrHeld(p, c)'
    BY <2>2, <2>3
  <2>. QED
    BY <2>1, <2>4 DEF PdrHeld
<1>. QED
  BY <1>1, <1>2 DEF RxHolds, SockHeld, PdrHeld

LEMMA PutKeeps ==
  ASSUME NEW S \in [Sock -> SockType], NEW t \in Sock, S[t].refs # 0, sock' = Put(S, t),
         NEW s \in Sock, NEW c \in InSection, S[s].life = sock[s].life,
         S[s].wait = sock[s].wait, SockHeld(s, c)
  PROVE  SockHeld(s, c)'
<1>1. CASE s = t
  BY <1>1, PutIs DEF SockHeld
<1>2. CASE s # t
  BY <1>2, PutIs DEF SockHeld
<1>. QED
  BY <1>1, <1>2

LEMMA DisabledKeeps ==
  ASSUME TypeOK, RefsExact, NEW d \in Dev, sock' = DisabledSock(dev[d].sk1u),
         NEW s \in Sock, NEW c \in InSection, SockHeld(s, c)
  PROVE  SockHeld(s, c)'
<1>1. CASE s # dev[d].sk1u
  <2>1. sock'[s] = sock[s]
    BY <1>1, SkOfDev, DisabledNone, DisabledSockIs
  <2>. QED
    BY <2>1 DEF SockHeld
<1>2. CASE s = dev[d].sk1u
  BY <1>2, DisabledSockIs DEF SockHeld
<1>. QED
  BY <1>1, <1>2

LEMMA KeepsSame ==
  /\ UNCHANGED sock => \A s \in Sock, c \in InSection : SockHeld(s, c) => SockHeld(s, c)'
  /\ UNCHANGED pdr => \A p \in Pdr, c \in InSection : PdrHeld(p, c) => PdrHeld(p, c)'
  BY DEF SockHeld, PdrHeld

LEMMA NewRx ==
  ASSUME IInv, NewSteps
  PROVE  RxHolds'
<1>. USE DEF IInv
<1>1. UNCHANGED <<pdr, rx>>
  BY DEF NewSteps, NewSk, NewBadRole, NewTables, NewTablesFail, Register, List, NewLink
<1>2. ASSUME NEW d \in Dev, NewBadRole(d) \/ \E k \in Tables : NewTablesFail(d, k)
      PROVE  RxHolds'
  <2>1. sock' = DisabledSock(dev[d].sk1u)
    BY <1>2 DEF NewBadRole, NewTablesFail
  <2>. QED
    BY <1>1, <2>1, DisabledKeeps, KeepsSame, RxSame
<1>3. ASSUME NEW d \in Dev, NEW s \in Sock \cup {None}, NewLink(d, s)
      PROVE  RxHolds'
  <2>1. \A t \in Sock : sock'[t].life = sock[t].life /\ sock'[t].wait = sock[t].wait
    BY <1>3 DEF NewLink, TypeOK, SockType
  <2>2. \A t \in Sock, c \in InSection : SockHeld(t, c) => SockHeld(t, c)'
    BY <2>1 DEF SockHeld
  <2>. QED
    BY <1>1, <2>2, KeepsSame, RxSame
<1>4. ASSUME NEW d \in Dev, NewSk(d) \/ NewTables(d) \/ Register(d) \/ List(d)
      PROVE  UNCHANGED sock
  BY <1>4 DEF NewSk, NewTables, Register, List
<1>. QED
  BY <1>1, <1>2, <1>3, <1>4, KeepsSame, RxSame DEF NewSteps

LEMMA RemovalRx ==
  ASSUME IInv, RemovalSteps
  PROVE  RxHolds'
<1>. USE DEF IInv
<1>1. UNCHANGED rx
  BY DEF RemovalSteps, DelLink, UnlinkRules, FreeTables, Uninit, CloseDevs, DropDevs, NetExit
<1>2. ASSUME NEW d \in Dev, UnlinkRules(d)
      PROVE  RxHolds'
  <2>1. \A p \in Pdr : pdr'[p] = pdr[p] \/ pdr'[p] = Unlinked(pdr[p], InSection)
    BY <1>2 DEF UnlinkRules
  <2>2. \A p \in Pdr : /\ Unlinked(pdr[p], InSection).life = "dying"
                       /\ Unlinked(pdr[p], InSection).wait = InSection
    BY DEF Unlinked, TypeOK, PdrType
  <2>3. \A p \in Pdr, c \in InSection : PdrHeld(p, c) => PdrHeld(p, c)'
    BY <2>1, <2>2 DEF PdrHeld
  <2>4. UNCHANGED sock
    BY <1>2 DEF UnlinkRules
  <2>. QED
    BY <1>1, <2>3, <2>4, KeepsSame, RxSame
<1>3. ASSUME NEW d \in Dev, Uninit(d)
      PROVE  RxHolds'
  <2>1. sock' = DisabledSock(dev[d].sk1u) /\ UNCHANGED pdr
    BY <1>3 DEF Uninit
  <2>. QED
    BY <1>1, <2>1, DisabledKeeps, KeepsSame, RxSame
<1>4. ASSUME (\E d \in Dev : DelLink(d) \/ FreeTables(d)) \/ CloseDevs \/ DropDevs \/ NetExit
      PROVE  UNCHANGED <<sock, pdr>>
  BY <1>4 DEF DelLink, FreeTables, CloseDevs, DropDevs, NetExit
<1>. QED
  BY <1>1, <1>2, <1>3, <1>4, KeepsSame, RxSame DEF RemovalSteps

LEMMA SockRx ==
  ASSUME IInv, SockSteps
  PROVE  RxHolds'
<1>. USE DEF IInv
<1>1. UNCHANGED <<pdr, rx>>
  BY DEF SockSteps, Close, CloseDestroy, FreeSock, Open
<1>2. ASSUME NEW s \in Sock, Close(s)
      PROVE  RxHolds'
  <2>1. CASE sock[s].user # None
    <3>1. \A t \in Sock : sock'[t].life = sock[t].life /\ sock'[t].wait = sock[t].wait
      BY <1>2, <2>1 DEF Close, TypeOK, SockType
    <3>2. \A t \in Sock, c \in InSection : SockHeld(t, c) => SockHeld(t, c)'
      BY <3>1 DEF SockHeld
    <3>. QED
      BY <1>1, <3>2, KeepsSame, RxSame
  <2>2. CASE sock[s].user = None
    <3> DEFINE S == [sock EXCEPT ![s].fd = "closed"]
    <3>1. /\ S \in [Sock -> SockType] /\ S[s].refs = sock[s].refs
          /\ \A t \in Sock : S[t].life = sock[t].life /\ S[t].wait = sock[t].wait
      BY DEF TypeOK, SockType
    <3>2. sock[s].refs # 0 /\ sock' = Put(S, s)
      BY <1>2, <2>2, RefsPositive DEF Close
    <3>. HIDE DEF S
    <3>3. \A t \in Sock, c \in InSection : SockHeld(t, c) => SockHeld(t, c)'
      BY <3>1, <3>2, PutKeeps
    <3>. QED
      BY <1>1, <3>3, KeepsSame, RxSame
  <2>. QED
    BY <2>1, <2>2
<1>3. ASSUME NEW s \in Sock, CloseDestroy(s)
      PROVE  RxHolds'
  <2>0. sock[s].fd = "closing" /\ sock' = Put([DisabledSock(s) EXCEPT ![s].fd = "closed"], s)
    BY <1>3 DEF CloseDestroy
  <2>1. /\ \A t \in Sock : t # s => sock'[t] = sock[t]
        /\ sock'[s].life = IF sock'[s].refs = 0 THEN "dying" ELSE "live"
        /\ sock'[s].refs = 0 => sock'[s].wait = InSection
    BY <2>0, DestroyIs
  <2>2. \A t \in Sock, c \in InSection : SockHeld(t, c) => SockHeld(t, c)'
    BY <2>1 DEF SockHeld
  <2>. QED
    BY <1>1, <2>2, KeepsSame, RxSame
<1>4. ASSUME NEW s \in Sock, FreeSock(s) \/ Open(s)
      PROVE  RxHolds'
  <2>1. /\ \A t \in Sock : t # s => sock'[t] = sock[t]
        /\ \A c \in InSection : ~SockHeld(s, c)
    BY <1>4 DEF FreeSock, Open, SockHeld, TypeOK
  <2>2. \A t \in Sock, c \in InSection : SockHeld(t, c) => SockHeld(t, c)'
    BY <2>1 DEF SockHeld
  <2>. QED
    BY <1>1, <2>2, KeepsSame, RxSame
<1>. QED
  BY <1>2, <1>3, <1>4 DEF SockSteps

LEMMA PdrRx ==
  ASSUME IInv, PdrSteps
  PROVE  RxHolds'
<1>. USE DEF IInv
<1>1. UNCHANGED rx
  BY DEF PdrSteps, AddPdr, FreePdr
<1>2. ASSUME NEW p \in Pdr, FreePdr(p)
      PROVE  RxHolds'
  <2>1. pdr[p].sk \in Sock /\ pdr[p].life = "dying" /\ pdr[p].wait = {}
    BY <1>2 DEF FreePdr, PdrHolds
  <2>2. sock[pdr[p].sk].refs # 0 /\ sock' = Put(sock, pdr[p].sk)
    BY <1>2, <2>1, RefsPositive DEF FreePdr
  <2>3. \A s \in Sock, c \in InSection : SockHeld(s, c) => SockHeld(s, c)'
    BY <2>1, <2>2, PutKeeps DEF TypeOK
  <2>4. \A q \in Pdr : q # p => pdr'[q] = pdr[q]
    BY <1>2 DEF FreePdr, TypeOK
  <2>5. \A q \in Pdr, c \in InSection : PdrHeld(q, c) => PdrHeld(q, c)'
    BY <2>1, <2>4 DEF PdrHeld
  <2>. QED
    BY <1>1, <2>3, <2>5, RxSame
<1>3. ASSUME NEW p \in Pdr, NEW d \in Dev, AddPdr(d, p)
      PROVE  RxHolds'
  <2>1. \A s \in Sock : sock'[s].life = sock[s].life /\ sock'[s].wait = sock[s].wait
    BY <1>3 DEF AddPdr, TypeOK, SockType
  <2>2. \A s \in Sock, c \in InSection : SockHeld(s, c) => SockHeld(s, c)'
    BY <2>1 DEF SockHeld
  <2>3. pdr[p].life = "free" /\ \A q \in Pdr : q # p => pdr'[q] = pdr[q]
    BY <1>3 DEF AddPdr, CanAdd, NoPdr, TypeOK
  <2>4. \A q \in Pdr, c \in InSection : PdrHeld(q, c) => PdrHeld(q, c)'
    BY <2>3 DEF PdrHeld
  <2>. QED
    BY <1>1, <2>2, <2>4, RxSame
<1>. QED
  BY <1>2, <1>3 DEF PdrSteps

\* A handler finds what is live.
LEMMA SectionRx ==
  ASSUME IInv, SectionSteps
  PROVE  RxHolds'
<1>. USE DEF IInv
<1>1. UNCHANGED <<sock, pdr>>
  BY DEF SectionSteps, Lookup, Echo, RxRecv, Xmit, FindDev
<1>2. ASSUME NEW c \in Cpu, \A k \in Cpu : k # c => rx'[k] = rx[k], rx'[c].at # "idle",
             rx'[c].dev \in Dev,
             rx'[c].sk # None => rx'[c].sk = rx[c].sk \/ sock[rx'[c].sk].life = "live",
             rx'[c].pdr # None => rx'[c].pdr = rx[c].pdr \/ pdr[rx'[c].pdr].life = "live"
      PROVE  RxHolds'
  BY <1>1, <1>2 DEF RxHolds
<1>3. ASSUME NEW c \in Cpu, Lookup(c)
      PROVE  RxHolds'
  <2>1. PICK p \in PdrsOf(rx[c].dev) \cup {None} :
          rx' = [rx EXCEPT ![c].at = "found", ![c].pdr = p]
    BY <1>3 DEF Lookup
  <2>2. rx' = [rx EXCEPT ![c] = [rx[c] EXCEPT !.at = "found", !.pdr = p]]
    BY <2>1
  <2>3. rx'[c] = [rx[c] EXCEPT !.at = "found", !.pdr = p] /\ \A k \in Cpu : k # c => rx'[k] = rx[k]
    BY <2>2 DEF TypeOK
  <2>4. /\ rx'[c].at = "found" /\ rx'[c].pdr = p
        /\ rx'[c].sk = rx[c].sk /\ rx'[c].dev = rx[c].dev
    BY <2>3 DEF TypeOK, RxType
  <2>5. rx[c].dev \in Dev
    BY <1>3 DEF Lookup, RxHolds
  <2>. QED
    BY <1>2, <2>1, <2>3, <2>4, <2>5 DEF PdrsOf
<1>4. ASSUME NEW c \in Cpu, Echo(c)
      PROVE  RxHolds'
  <2>1. PICK d \in Dev : rx[c].dev = d
    BY <1>4 DEF Echo, RxHolds
  <2>2. PICK s \in Sock : dev[d].sk1u = s
    BY <1>4, <2>1, SkOfDev DEF Echo
  <2>3. sock[s].user = d /\ s # None /\ d # None
    BY <2>2, LinkAssumption DEF EncapExact
  <2>4. sock[s].life = "live"
    BY <2>3, RefsPositive
  <2>5. rx' = [rx EXCEPT ![c] = [rx[c] EXCEPT !.at = "found", !.sk = s]]
    BY <1>4, <2>1, <2>2 DEF Echo
  <2>6. rx'[c] = [rx[c] EXCEPT !.at = "found", !.sk = s] /\ \A k \in Cpu : k # c => rx'[k] = rx[k]
    BY <2>5 DEF TypeOK
  <2>7. /\ rx'[c].at = "found" /\ rx'[c].sk = s
        /\ rx'[c].pdr = rx[c].pdr /\ rx'[c].dev = rx[c].dev
    BY <2>6 DEF TypeOK, RxType
  <2>. QED
    BY <1>2, <2>1, <2>4, <2>6, <2>7
<1>5. ASSUME NEW c \in Cpu,
             \/ \E s \in Sock : RxRecv(c, s)
             \/ \E d \in Dev : Xmit(c, d) \/ FindDev(c, d)
      PROVE  RxHolds'
  <2>1. PICK d \in Dev, at \in {"rx", "tx", "genl"} :
          rx' = [rx EXCEPT ![c] = [Idle EXCEPT !.at = at, !.dev = d]]
    <3>1. ASSUME NEW s \in Sock, RxRecv(c, s)
          PROVE  \E d \in Dev : rx' = [rx EXCEPT ![c] = [Idle EXCEPT !.at = "rx", !.dev = d]]
      BY <3>1 DEF RxRecv, TypeOK, SockType
    <3>. QED
      BY <1>5, <3>1 DEF Xmit, FindDev
  <2>2. /\ rx'[c] = [Idle EXCEPT !.at = at, !.dev = d]
        /\ \A k \in Cpu : k # c => rx'[k] = rx[k]
    BY <2>1 DEF TypeOK
  <2>3. rx'[c].at = at /\ rx'[c].dev = d /\ rx'[c].sk = None /\ rx'[c].pdr = None
    BY <2>2 DEF Idle
  <2>. QED
    BY <1>2, <2>2, <2>3
<1>. QED
  BY <1>3, <1>4, <1>5 DEF SectionSteps

\* Who leaves its section is no longer waited for; the others still are.
LEMMA LeaveRx ==
  ASSUME IInv, LeaveSteps
  PROVE  RxHolds'
<1>. USE DEF IInv
<1>1. PICK c \in Cpu, p \in Pdr \cup {None} : Leave(c, p)
  BY DEF LeaveSteps
<1>2. rx'[c] = Idle /\ \A k \in Cpu : k # c => rx'[k] = rx[k]
  BY <1>1 DEF Leave, TypeOK
<1>3. \A s \in Sock : sock'[s].life = sock[s].life /\ sock'[s].wait = sock[s].wait \ {c}
  BY <1>1 DEF Leave, TypeOK, SockType
<1>4. \A q \in Pdr :
        \/ pdr'[q].life = pdr[q].life /\ pdr'[q].wait = pdr[q].wait \ {c}
        \/ pdr'[q].life = "dying" /\ pdr'[q].wait = InSection \ {c}
  <2>1. \A q \in Pdr : \/ pdr'[q] = Unlinked(pdr[q], InSection \ {c})
                       \/ pdr'[q] = [pdr[q] EXCEPT !.wait = pdr[q].wait \ {c}]
    BY <1>1 DEF Leave
  <2>2. \A q \in Pdr : /\ Unlinked(pdr[q], InSection \ {c}).life = "dying"
                       /\ Unlinked(pdr[q], InSection \ {c}).wait = InSection \ {c}
    BY DEF Unlinked, TypeOK, PdrType
  <2>3. \A q \in Pdr :
          /\ [pdr[q] EXCEPT !.wait = pdr[q].wait \ {c}].life = pdr[q].life
          /\ [pdr[q] EXCEPT !.wait = pdr[q].wait \ {c}].wait = pdr[q].wait \ {c}
    BY DEF TypeOK, PdrType
  <2>. QED
    BY <2>1, <2>2, <2>3
<1>5. ASSUME NEW k \in Cpu
      PROVE  /\ rx'[k].at = "idle" => rx'[k] = Idle
             /\ rx'[k].at # "idle" => rx'[k].dev \in Dev
             /\ rx'[k].sk # None => SockHeld(rx[k].sk, k)' /\ rx'[k].sk = rx[k].sk
             /\ rx'[k].pdr # None => PdrHeld(rx[k].pdr, k)' /\ rx'[k].pdr = rx[k].pdr
  <2>1. CASE k = c
    BY <1>2, <2>1 DEF Idle
  <2>2. CASE k # c
    <3>1. rx'[k] = rx[k] /\ (rx[k].at # "idle" => k \in InSection)
      BY <1>2, <2>2 DEF InSection
    <3>2. rx[k].sk # None => SockHeld(rx[k].sk, k)'
      <4>1. ASSUME rx[k].sk # None PROVE SockHeld(rx[k].sk, k)'
        <5>1. PICK s \in Sock : rx[k].sk = s
          BY <4>1 DEF TypeOK, RxType
        <5>2. \/ sock[rx[k].sk].life = "live"
              \/ sock[rx[k].sk].life = "dying" /\ k \in sock[rx[k].sk].wait
          BY <4>1 DEF RxHolds
        <5>3. SockHeld(s, k)'
          BY <1>3, <2>2, <5>1, <5>2 DEF SockHeld
        <5>. QED
          BY <3>1, <5>1, <5>3 DEF SockHeld
      <4>. QED
        BY <4>1
    <3>3. rx[k].pdr # None => PdrHeld(rx[k].pdr, k)'
      <4>1. ASSUME rx[k].pdr # None PROVE PdrHeld(rx[k].pdr, k)'
        <5>1. PICK q \in Pdr : rx[k].pdr = q
          BY <4>1 DEF TypeOK, RxType
        <5>2. \/ pdr[rx[k].pdr].life = "live"
              \/ pdr[rx[k].pdr].life = "dying" /\ k \in pdr[rx[k].pdr].wait
          BY <4>1 DEF RxHolds
        <5>3. k \in InSection
          BY <3>1, <4>1 DEF RxHolds, Idle
        <5>4. PdrHeld(q, k)'
          BY <1>4, <2>2, <5>1, <5>2, <5>3 DEF PdrHeld
        <5>. QED
          BY <3>1, <5>1, <5>4 DEF PdrHeld
      <4>. QED
        BY <4>1
    <3>. QED
      BY <3>1, <3>2, <3>3 DEF RxHolds
  <2>. QED
    BY <2>1, <2>2
<1>. QED
  BY <1>5 DEF RxHolds, SockHeld, PdrHeld

LEMMA RxStep ==
  ASSUME IInv, Next
  PROVE  RxHolds'
<1>1. CASE ModuleSteps \/ FaultSteps
  <2>1. UNCHANGED <<sock, pdr, rx>>
    BY <1>1 DEF ModuleSteps, FaultSteps, Load, RegisterNext, RegisterFails, Unload, Gone,
                Unregister
  <2>. QED
    BY <2>1, KeepsSame, RxSame DEF IInv
<1>. QED
  BY <1>1, NextCases, NewRx, RemovalRx, SockRx, PdrRx, SectionRx, LeaveRx

-----------------------------------------------------------------------------
\* The invariant and what follows from it

LEMMA InitInv == Init => IInv
<1>. SUFFICES ASSUME Init PROVE IInv
  OBVIOUS
<1>1. TypeOK
  <2>1. NoDev \in DevType /\ NewSock \in SockType /\ NoPdr \in PdrType /\ Idle \in RxType
        /\ Unlocked \in RtnlType
    BY DEF NoDev, NewSock, NoPdr, Idle, Unlocked, DevType, SockType, PdrType, RxType, RtnlType
  <2>. QED
    BY <2>1 DEF Init, TypeOK
<1>2. RefsExact
  <2>1. \A s : Holders(s) = {}
    BY DEF Holders, Init, NoPdr
  <2>2. \A s \in Sock : Cardinality(Holders(s)) = 0
    BY <2>1, FS_EmptySet
  <2>3. \A s \in Sock : Exact(s)
    BY <2>2 DEF Exact, Init, NewSock, Count
  <2>. QED
    BY <2>3, RefsExactIs
<1>3. PdrHolds /\ RxHolds
  BY DEF PdrHolds, RxHolds, Init, NoPdr, Idle
<1>4. EncapExact /\ SockStage
  BY DEF EncapExact, SockStage, Init, NewSock, NoDev, Unlocked
<1>5. \A d \in Dev : dev[d] = NoDev /\ PdrsOf(d) = {}
  BY DEF Init, PdrsOf, NoPdr
<1>6. NothingLeft
  BY <1>5 DEF NothingLeft
<1>7. Building /\ Teardown
  BY DEF Building, Teardown, Removal, Init, Unlocked
<1>8. Settled
  BY <1>5 DEF Settled, NoDev, Init, Unlocked
<1>9. Registered
  BY <1>5 DEF Registered, Init, NoDev, Unlocked
<1>. QED
  BY <1>1, <1>2, <1>3, <1>4, <1>6, <1>7, <1>8, <1>9 DEF IInv

LEMMA TypeStep ==
  ASSUME IInv, Next
  PROVE  TypeOK'
  BY NextCases, NewTyped, RemovalTyped, ModuleTyped, SockTyped, PdrTyped, SectionTyped,
     LeaveTyped, FaultTyped DEF IInv

LEMMA InvStep == IInv /\ [Next]_vars => IInv'
<1>1. ASSUME IInv, Next PROVE IInv'
  BY <1>1, TypeStep, RefsStep, TunnelStep, DeviceStep, RegisteredStep, RxStep DEF IInv, DevInv
<1>2. ASSUME IInv, UNCHANGED vars PROVE IInv'
  <2>. USE <1>2 DEF IInv
  <2>1. UNCHANGED <<dev, sock, pdr, rx, rtnl, mod, fault>>
    BY DEF vars
  <2>2. TypeOK'
    BY <2>1 DEF TypeOK
  <2>3. RefsExact' /\ PdrHolds'
    BY <2>1 DEF RefsExact, PdrHolds
  <2>4. EncapExact' /\ SockStage'
    BY <2>1, TunnelSame
  <2>5. DevInv'
    BY <2>1, PdrsSame, DevicesSame DEF DevInv, TypeOK, RtnlType
  <2>6. Registered'
    BY <2>1, RegisteredSame
  <2>7. RxHolds'
    BY <2>1, KeepsSame, RxSame
  <2>. QED
    BY <2>2, <2>3, <2>4, <2>5, <2>6, <2>7 DEF DevInv
<1>. QED
  BY <1>1, <1>2

\* Every reachable state of the life of a device satisfies the inductive
\* invariant: which reference, tunnel, table, rule and waiting callback there
\* is at each stage of each link operation.
THEOREM LinkInvariance == Spec => []IInv
  BY InitInv, InvStep, PTL DEF Spec

\* The state of devices, sockets, PDRs, handlers and of the module keeps its
\* shape, whatever the interleaving.
THEOREM LinkTypes == Spec => []TypeOK
<1>1. IInv => TypeOK
  BY DEF IInv
<1>. QED
  BY <1>1, LinkInvariance, PTL

\* Reference counts of the tunnel's socket are exact on every path: newlink and
\* its error labels, the three ways to disable a tunnel, pdr_context_delete's
\* callback and the close of the file (sock_hold, sock_put).
THEOREM ReferencesExact == Spec => []RefsExact
<1>1. IInv => RefsExact
  BY DEF IInv
<1>. QED
  BY <1>1, LinkInvariance, PTL

\* sk_user_data and sk1u name each other whenever rtnl_lock is free, so a packet
\* that takes a device from its socket takes one that is allocated
\* (gtp5g_encap_enable, gtp5g_encap_disable).
THEOREM TunnelsExact == Spec => []EncapExact
<1>1. IInv => EncapExact
  BY DEF IInv
<1>. QED
  BY <1>1, LinkInvariance, PTL

\* No handler uses a socket or a PDR that has been freed, however late it is:
\* the grace periods of call_rcu and of the UDP socket cover both.
THEOREM SocketsHeld == Spec => []HeldSocketLives
<1>1. IInv => HeldSocketLives
  <2>. SUFFICES ASSUME IInv, NEW c \in Cpu
                PROVE  /\ rx[c].sk # None => sock[rx[c].sk].life # "freed"
                       /\ rx[c].pdr # None => /\ pdr[rx[c].pdr].life # "free"
                                              /\ sock[pdr[rx[c].pdr].sk].life # "freed"
    BY DEF HeldSocketLives
  <2>. USE DEF IInv
  <2>1. ASSUME rx[c].pdr # None
        PROVE  /\ pdr[rx[c].pdr].life # "free"
               /\ sock[pdr[rx[c].pdr].sk].life # "freed"
    <3>1. PICK p \in Pdr : rx[c].pdr = p
      BY <2>1 DEF TypeOK, RxType
    <3>2. pdr[p].life # "free"
      BY <2>1, <3>1 DEF RxHolds
    <3>3. PICK s \in Sock : pdr[p].sk = s
      BY <3>2 DEF PdrHolds
    <3>4. sock[s].life = "live"
      BY <3>2, <3>3, RefsPositive
    <3>. QED
      BY <3>1, <3>2, <3>3, <3>4
  <2>2. rx[c].sk # None => sock[rx[c].sk].life # "freed"
    BY DEF RxHolds
  <2>. QED
    BY <2>1, <2>2
<1>. QED
  BY <1>1, LinkInvariance, PTL

\* A freed device has left no array, no list entry and no linked PDR, on the
\* error path of newlink as on the deletion of any number of links at once
\* (gtp5g_hashtable_free, dev_hashtable_new, gtp5g_link_all_del).
THEOREM DevicesLeaveNothing == Spec => []NothingLeft
<1>1. IInv => NothingLeft
  BY DEF IInv
<1>. QED
  BY <1>1, LinkInvariance, PTL

\* When gtp5g_fini has ended, or gtp5g_init has failed and undone, there is no
\* device and no socket that would call into the module.
THEOREM UnloadsClean == Spec => []UnloadClean
<1>1. IInv => UnloadClean
  <2>. SUFFICES ASSUME IInv, mod.phase = "out"
                PROVE  /\ \A d \in Dev : ~dev[d].mem
                       /\ \A s \in Sock : sock[s].user = None
    BY DEF UnloadClean
  <2>. USE DEF IInv
  <2>1. rtnl.devs = {} /\ "rtnl" \notin mod.reg
    BY DEF Registered, Settled
  <2>2. \A d \in Dev : ~dev[d].mem
    BY <2>1 DEF Registered
  <2>3. \A s \in Sock : sock[s].user # None => sock[s].user \in Dev
    BY DEF TypeOK, SockType
  <2>. QED
    BY <2>2, <2>3 DEF EncapExact
<1>. QED
  BY <1>1, LinkInvariance, PTL

=============================================================================
