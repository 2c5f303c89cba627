------------------------------- MODULE LinkLife -------------------------------
(***************************************************************************)
(* The life of a gtp5g device: module load and unload, creation of a link  *)
(* on a UDP socket of user space, its deletion, the exit of the namespace, *)
(* the closing of the socket, and what still uses the device meanwhile.    *)
(*                                                                         *)
(* Link operations hold rtnl_lock over several steps; packets, the netlink *)
(* handler that deletes a PDR and the closing of a socket come in between. *)
(* Rules are represented by PDRs, the ones that hold a reference to the    *)
(* socket.  fault is the first kernel fault, after which nothing moves.    *)
(***************************************************************************)
EXTENDS Naturals, FiniteSets

CONSTANTS
  Dev,      \* addresses of struct gtp5g_dev
  Sock,     \* UDP sockets of user space
  Pdr,      \* addresses of struct pdr
  Cpu,      \* CPUs that run packet and netlink handlers
  NTables,  \* number of hash arrays of a device
  None

ASSUME LinkAssumption ==
  /\ NTables \in Nat \ {0}
  /\ None \notin Dev \cup Sock \cup Pdr
  /\ \A S \in {Dev, Sock, Pdr, Cpu} : IsFiniteSet(S)

VARIABLES
  dev,    \* struct gtp5g_dev: allocated, its socket, its arrays, registered, on the lists
  sock,   \* struct sock: file, sk_user_data, references, and the end of its life
  pdr,    \* struct pdr: life, device, socket, the CPUs its callback waits for
  rx,     \* CPU -> what its open read-side section holds
  rtnl,   \* the link operation that holds rtnl_lock, and its progress
  mod,    \* the module: phase, and what it has registered
  fault

vars == <<dev, sock, pdr, rx, rtnl, mod, fault>>

Tables == 1..NTables
Facilities == {"rtnl", "genl", "pernet", "proc"}

NoDev == [mem |-> FALSE, sk1u |-> None, tables |-> {}, up |-> FALSE, listed |-> FALSE]
NewSock == [fd |-> "open", user |-> None, refs |-> 1, life |-> "live", wait |-> {}]
NoPdr == [life |-> "free", dev |-> None, sk |-> None, wait |-> {}]
Idle == [at |-> "idle", dev |-> None, pdr |-> None, sk |-> None]
Unlocked == [at |-> "idle", devs |-> {}, todo |-> {}, sock |-> None, wait |-> {}]

DevType ==
  [mem : BOOLEAN, sk1u : Sock \cup {None}, tables : SUBSET Tables, up : BOOLEAN,
   listed : BOOLEAN]
SockType ==
  [fd : {"open", "closing", "closed"}, user : Dev \cup {None}, refs : Nat,
   life : {"live", "dying", "freed"}, wait : SUBSET Cpu]
PdrType ==
  [life : {"free", "live", "dying"}, dev : Dev \cup {None}, sk : Sock \cup {None},
   wait : SUBSET Cpu]
RxType ==
  [at : {"idle", "rx", "tx", "genl", "found"}, dev : Dev \cup {None},
   pdr : Pdr \cup {None}, sk : Sock \cup {None}]
RtnlType ==
  [at : {"idle", "sock", "tables", "register", "list", "unlink", "free", "close",
         "uninit", "drop"},
   devs : SUBSET Dev, todo : SUBSET Dev, sock : Sock \cup {None}, wait : SUBSET Cpu]

TypeOK ==
  /\ dev \in [Dev -> DevType]
  /\ sock \in [Sock -> SockType]
  /\ pdr \in [Pdr -> PdrType]
  /\ rx \in [Cpu -> RxType]
  /\ rtnl \in RtnlType
  /\ mod \in [phase : {"out", "load", "in", "undo", "unload"}, reg : SUBSET Facilities]
  /\ fault \in {"none", "memory", "table", "null", "twice", "net", "text"}

Init ==
  /\ dev = [d \in Dev |-> NoDev]
  /\ sock = [s \in Sock |-> NewSock]
  /\ pdr = [p \in Pdr |-> NoPdr]
  /\ rx = [c \in Cpu |-> Idle]
  /\ rtnl = Unlocked
  /\ mod = [phase |-> "out", reg |-> {}]
  /\ fault = "none"

Fails(kind) == fault' = kind /\ UNCHANGED <<dev, sock, pdr, rx, rtnl, mod>>

-----------------------------------------------------------------------------
\* Read-side sections, references and the tunnel

InSection == {c \in Cpu : rx[c].at # "idle"}

\* sock_put, on the sockets S; UDP sockets are freed after a grace period.
Put(S, s) ==
  IF S[s].refs = 1
  THEN [S EXCEPT ![s].refs = 0, ![s].life = "dying", ![s].wait = InSection]
  ELSE [S EXCEPT ![s].refs = @ - 1]

\* The device that gtp5g_encap_disable finds in the socket.
User(s) == IF s = None THEN None ELSE sock[s].user

\* The tunnel of the socket goes, its reference stays.
Mut_DisabledSock(s) == IF User(s) = None THEN sock ELSE [sock EXCEPT ![s].user = None]

DisabledSock(s) ==
  IF User(s) = None THEN sock ELSE Put([sock EXCEPT ![s].user = None], s)

DisabledDev(s) ==
  IF User(s) = None THEN dev ELSE [dev EXCEPT ![User(s)].sk1u = None]

\* The callback of PDR p waits for the sections of the CPUs w.
Unlinked(p, w) == [p EXCEPT !.life = "dying", !.wait = w]

PdrsOf(d) == {p \in Pdr : pdr[p].life = "live" /\ pdr[p].dev = d}

-----------------------------------------------------------------------------
\* gtp5g_newlink

\* The arrays that dev_hashtable_new releases when the k-th is not there.
Mut_Ladder(k) == 1..(k - 2)
Ladder(k) == 1..(k - 1)

\* An address is not given out while a handler still refers to it.
Fresh(d) == dev[d] = NoDev /\ \A c \in Cpu : rx[c].dev # d

\* Up to the return of gtp5g_encap_enable.  s = None: no socket has that fd,
\* which is not an error here.  A socket that is not UDP or that serves
\* another device is, and the message then leaves nothing behind.
NewLink(d, s) ==
  /\ rtnl.at = "idle" /\ "rtnl" \in mod.reg /\ Fresh(d)
  /\ s # None => sock[s].fd = "open" /\ sock[s].user = None
  /\ sock' = IF s = None THEN sock ELSE [sock EXCEPT ![s].user = d, ![s].refs = @ + 1]
  /\ dev' = [dev EXCEPT ![d].mem = TRUE]
  /\ rtnl' = [Unlocked EXCEPT !.at = "sock", !.devs = {d}, !.sock = s]
  /\ UNCHANGED <<pdr, rx, mod, fault>>

\* gtp->sk1u = sk.
NewSk(d) ==
  /\ rtnl.at = "sock" /\ d \in rtnl.devs
  /\ dev' = [dev EXCEPT ![d].sk1u = rtnl.sock]
  /\ rtnl' = [rtnl EXCEPT !.at = "tables"]
  /\ UNCHANGED <<sock, pdr, rx, mod, fault>>

\* The role is none there is: the socket is let go, and the caller frees the
\* device on the spot.
Mut_NewBadRole(d) ==
  /\ rtnl.at = "tables" /\ d \in rtnl.devs
  /\ dev' = [dev EXCEPT ![d] = NoDev]
  /\ rtnl' = Unlocked
  /\ UNCHANGED <<sock, pdr, rx, mod, fault>>

NewBadRole(d) ==
  /\ rtnl.at = "tables" /\ d \in rtnl.devs
  /\ sock' = DisabledSock(dev[d].sk1u)
  /\ dev' = [dev EXCEPT ![d] = NoDev]
  /\ rtnl' = Unlocked
  /\ UNCHANGED <<pdr, rx, mod, fault>>

NewTables(d) ==
  /\ rtnl.at = "tables" /\ d \in rtnl.devs
  /\ dev' = [dev EXCEPT ![d].tables = Tables]
  /\ rtnl' = [rtnl EXCEPT !.at = "register"]
  /\ UNCHANGED <<sock, pdr, rx, mod, fault>>

\* The k-th array cannot be allocated.  The tunnel is disabled at once and,
\* to no effect, at the error label again.
NewTablesFail(d, k) ==
  /\ rtnl.at = "tables" /\ d \in rtnl.devs
  /\ sock' = DisabledSock(dev[d].sk1u)
  /\ dev' = [dev EXCEPT ![d] = [NoDev EXCEPT !.tables = (1..(k - 1)) \ Ladder(k)]]
  /\ rtnl' = Unlocked
  /\ UNCHANGED <<pdr, rx, mod, fault>>

\* gtp5g_dev_init is part of the registration.
Register(d) ==
  /\ rtnl.at = "register" /\ d \in rtnl.devs
  /\ dev' = [dev EXCEPT ![d].up = TRUE]
  /\ rtnl' = [rtnl EXCEPT !.at = "list"]
  /\ UNCHANGED <<sock, pdr, rx, mod, fault>>

\* The arrays are released where the failure is seen and at the error label.
RegisterOops == rtnl.at = "register" /\ Fails("twice")

List(d) ==
  /\ rtnl.at = "list" /\ d \in rtnl.devs /\ "pernet" \in mod.reg
  /\ dev' = [dev EXCEPT ![d].listed = TRUE]
  /\ rtnl' = Unlocked
  /\ UNCHANGED <<sock, pdr, rx, mod, fault>>

\* The list of the namespace is not there yet, or no more.
ListOops == rtnl.at = "list" /\ "pernet" \notin mod.reg /\ Fails("net")

-----------------------------------------------------------------------------
\* Deletion: gtp5g_dellink of each device, then unregister_netdevice_many

TearDown(S) ==
  IF S = {} THEN Unlocked ELSE [Unlocked EXCEPT !.at = "unlink", !.devs = S, !.todo = S]

Up == {d \in Dev : dev[d].up}
Listed == {d \in Dev : dev[d].listed}

DelLink(d) ==
  /\ rtnl.at = "idle" /\ "rtnl" \in mod.reg /\ dev[d].up
  /\ rtnl' = TearDown({d})
  /\ UNCHANGED <<dev, sock, pdr, rx, mod, fault>>

\* gtp5g_hashtable_free unlinks every rule, then waits for a grace period.
UnlinkRules(d) ==
  /\ rtnl.at = "unlink" /\ d \in rtnl.todo
  /\ pdr' = [p \in Pdr |-> IF p \in PdrsOf(d) THEN Unlinked(pdr[p], InSection) ELSE pdr[p]]
  /\ rtnl' = [rtnl EXCEPT !.at = "free", !.wait = InSection,
                          !.todo = @ \ {d}]
  /\ UNCHANGED <<dev, sock, rx, mod, fault>>

\* The device whose tables go: the one of the teardown that has neither been
\* skipped nor emptied yet.
Emptied(d) == d \in rtnl.devs \ rtnl.todo /\ dev[d].tables # {}

FreeTables(d) ==
  /\ rtnl.at = "free" /\ rtnl.wait = {} /\ Emptied(d)
  /\ dev' = [dev EXCEPT ![d].tables = {}, ![d].listed = FALSE]
  /\ rtnl' = IF rtnl.todo = {} THEN [rtnl EXCEPT !.at = "close"]
             ELSE [rtnl EXCEPT !.at = "unlink"]
  /\ UNCHANGED <<sock, pdr, rx, mod, fault>>

\* The core takes the devices from its index, which ends transmission, and
\* waits for a grace period.
CloseDevs ==
  /\ rtnl.at = "close"
  /\ dev' = [d \in Dev |-> IF d \in rtnl.devs THEN [dev[d] EXCEPT !.up = FALSE] ELSE dev[d]]
  /\ rtnl' = [rtnl EXCEPT !.at = "uninit", !.todo = rtnl.devs, !.wait = InSection]
  /\ UNCHANGED <<sock, pdr, rx, mod, fault>>

\* The socket keeps its tunnel.
Mut_Uninit(d) ==
  /\ rtnl.at = "uninit" /\ rtnl.wait = {} /\ d \in rtnl.todo
  /\ rtnl' = IF rtnl.todo = {d}
             THEN [rtnl EXCEPT !.at = "drop", !.todo = {}, !.wait = InSection]
             ELSE [rtnl EXCEPT !.todo = @ \ {d}]
  /\ UNCHANGED <<dev, sock, pdr, rx, mod, fault>>

\* gtp5g_dev_uninit of one device; after the last one another grace period.
Uninit(d) ==
  /\ rtnl.at = "uninit" /\ rtnl.wait = {} /\ d \in rtnl.todo
  /\ sock' = DisabledSock(dev[d].sk1u)
  /\ dev' = DisabledDev(dev[d].sk1u)
  /\ rtnl' = IF rtnl.todo = {d}
             THEN [rtnl EXCEPT !.at = "drop", !.todo = {}, !.wait = InSection]
             ELSE [rtnl EXCEPT !.todo = @ \ {d}]
  /\ UNCHANGED <<pdr, rx, mod, fault>>

DropDevs ==
  /\ rtnl.at = "drop" /\ rtnl.wait = {}
  /\ dev' = [d \in Dev |-> IF d \in rtnl.devs THEN [dev[d] EXCEPT !.mem = FALSE] ELSE dev[d]]
  /\ rtnl' = Unlocked
  /\ UNCHANGED <<sock, pdr, rx, mod, fault>>

\* gtp5g_net_exit: gtp5g_link_all_del.
NetExit ==
  /\ rtnl.at = "idle" /\ "pernet" \in mod.reg /\ Listed # {}
  /\ rtnl' = TearDown(Listed)
  /\ UNCHANGED <<dev, sock, pdr, rx, mod, fault>>

-----------------------------------------------------------------------------
\* gtp5g_init, its error labels, gtp5g_fini

LoadOrder == <<"rtnl", "genl", "pernet", "proc">>
UndoOrder == <<"pernet", "genl", "rtnl">>
\* The proc files stay.
Mut_UnloadOrder == <<"genl", "rtnl", "pernet">>
UnloadOrder == <<"genl", "rtnl", "pernet", "proc">>

Load ==
  /\ mod.phase = "out" /\ \A p \in Pdr : pdr[p].life = "free"
  /\ mod' = [mod EXCEPT !.phase = "load"]
  /\ UNCHANGED <<dev, sock, pdr, rx, rtnl, fault>>

\* The next registration.
RegisterNext ==
  /\ mod.phase = "load"
  /\ LET n == Cardinality(mod.reg) + 1
     IN mod' = [phase |-> IF n = 4 THEN "in" ELSE "load",
                reg |-> mod.reg \cup {LoadOrder[n]}]
  /\ UNCHANGED <<dev, sock, pdr, rx, rtnl, fault>>

\* It fails.
RegisterFails ==
  /\ mod.phase = "load"
  /\ mod' = [mod EXCEPT !.phase = "undo"]
  /\ UNCHANGED <<dev, sock, pdr, rx, rtnl, fault>>

Unload ==
  /\ mod.phase = "in"
  /\ mod' = [mod EXCEPT !.phase = "unload"]
  /\ UNCHANGED <<dev, sock, pdr, rx, rtnl, fault>>

\* x is what is taken back next.
IsNext(x) ==
  \E order \in {IF mod.phase = "undo" THEN UndoOrder ELSE UnloadOrder} :
    \E i \in DOMAIN order :
      order[i] = x /\ x \in mod.reg /\ \A j \in 1..(i - 1) : order[j] \notin mod.reg

\* genl waits for the handler that runs; rtnl deletes all links of this kind;
\* pernet has gtp5g_net_exit delete those on the list.
Unregister(x) ==
  /\ mod.phase \in {"undo", "unload"} /\ IsNext(x)
  /\ mod' = [mod EXCEPT !.reg = @ \ {x}]
  /\ CASE x = "genl" -> (\A c \in Cpu : rx[c].at # "genl") /\ UNCHANGED rtnl
       [] x = "rtnl" -> rtnl.at = "idle" /\ rtnl' = TearDown(Up)
       [] x = "pernet" -> rtnl.at = "idle" /\ rtnl' = TearDown(Listed)
       [] x = "proc" -> rtnl.at = "idle" /\ UNCHANGED rtnl
  /\ UNCHANGED <<dev, sock, pdr, rx, fault>>

\* The text of the module goes.
Gone ==
  /\ mod.phase \in {"undo", "unload"} /\ mod.reg = {} /\ rtnl.at = "idle"
  /\ mod' = [mod EXCEPT !.phase = "out"]
  /\ UNCHANGED <<dev, sock, pdr, rx, rtnl, fault>>

-----------------------------------------------------------------------------
\* The socket of user space

\* The file is closed; a socket that carries a tunnel calls encap_destroy.
Close(s) ==
  /\ sock[s].fd = "open"
  /\ sock' = IF sock[s].user # None THEN [sock EXCEPT ![s].fd = "closing"]
             ELSE Put([sock EXCEPT ![s].fd = "closed"], s)
  /\ UNCHANGED <<dev, pdr, rx, rtnl, mod, fault>>

\* gtp5g_encap_disable_locked, then the rest of the close.
Mut_CloseDestroy(s) ==
  /\ rtnl.at = "idle" /\ sock[s].fd = "closing"
  /\ sock' = Put([sock EXCEPT ![s].fd = "closed"], s)
  /\ UNCHANGED <<dev, pdr, rx, rtnl, mod, fault>>

CloseDestroy(s) ==
  /\ rtnl.at = "idle" /\ sock[s].fd = "closing"
  /\ sock' = Put([DisabledSock(s) EXCEPT ![s].fd = "closed"], s)
  /\ dev' = DisabledDev(s)
  /\ UNCHANGED <<pdr, rx, rtnl, mod, fault>>

FreeSock(s) ==
  /\ sock[s].life = "dying" /\ sock[s].wait = {}
  /\ sock' = [sock EXCEPT ![s].life = "freed"]
  /\ UNCHANGED <<dev, pdr, rx, rtnl, mod, fault>>

\* User space opens a socket, at an address that nothing refers to.
Open(s) ==
  /\ sock[s].life = "freed" /\ \A c \in Cpu : rx[c].sk # s
  /\ sock' = [sock EXCEPT ![s] = NewSock]
  /\ UNCHANGED <<dev, pdr, rx, rtnl, mod, fault>>

-----------------------------------------------------------------------------
\* PDRs

CanAdd(d, p) ==
  /\ rtnl.at = "idle" /\ "genl" \in mod.reg /\ dev[d].up
  /\ pdr[p] = NoPdr /\ \A c \in Cpu : rx[c].at # "genl" /\ rx[c].pdr # p

\* The PDR takes the socket without a reference.
Mut_AddPdr(d, p) ==
  /\ CanAdd(d, p) /\ dev[d].sk1u # None
  /\ pdr' = [pdr EXCEPT ![p] = [NoPdr EXCEPT !.life = "live", !.dev = d, !.sk = dev[d].sk1u]]
  /\ UNCHANGED <<dev, sock, rx, rtnl, mod, fault>>

\* gtp5g_genl_add_pdr, whole under rtnl_lock; when pdr_fill fails the PDR is
\* handed to its callback at once.
AddPdr(d, p) ==
  /\ CanAdd(d, p) /\ dev[d].sk1u # None
  /\ sock' = [sock EXCEPT ![dev[d].sk1u].refs = @ + 1]
  /\ \E new \in {[NoPdr EXCEPT !.life = "live", !.dev = d, !.sk = dev[d].sk1u]} :
       \E x \in {new, Unlinked(new, InSection)} : pdr' = [pdr EXCEPT ![p] = x]
  /\ UNCHANGED <<dev, rx, rtnl, mod, fault>>

\* sock_hold of no socket.
AddPdrOops == \E d \in Dev, p \in Pdr : CanAdd(d, p) /\ dev[d].sk1u = None /\ Fails("null")

FreePdr(p) ==
  /\ pdr[p].life = "dying" /\ pdr[p].wait = {} /\ mod.phase # "out"
  /\ pdr' = [pdr EXCEPT ![p] = NoPdr]
  /\ sock' = Put(sock, pdr[p].sk)
  /\ UNCHANGED <<dev, rx, rtnl, mod, fault>>

\* The callback outlives the module: gtp5g_fini does not wait for it.
FreePdrOops ==
  /\ mod.phase = "out"
  /\ \E p \in Pdr : pdr[p].life = "dying" /\ pdr[p].wait = {}
  /\ Fails("text")

-----------------------------------------------------------------------------
\* Handlers in read-side sections

\* gtp5g_encap_recv: rcu_dereference_sk_user_data.
RxRecv(c, s) ==
  /\ rx[c] = Idle /\ sock[s].life = "live" /\ sock[s].user # None
  /\ rx' = [rx EXCEPT ![c] = [Idle EXCEPT !.at = "rx", !.dev = sock[s].user]]
  /\ UNCHANGED <<dev, sock, pdr, rtnl, mod, fault>>

\* gtp5g_dev_xmit; a device carries packets once newlink has ended.
Xmit(c, d) ==
  /\ rx[c] = Idle /\ dev[d].up /\ rtnl.at # "list"
  /\ rx' = [rx EXCEPT ![c] = [Idle EXCEPT !.at = "tx", !.dev = d]]
  /\ UNCHANGED <<dev, sock, pdr, rtnl, mod, fault>>

\* gtp5g_find_dev in the handlers that take no rtnl_lock, one at a time.
FindDev(c, d) ==
  /\ rx[c] = Idle /\ "genl" \in mod.reg /\ dev[d].up
  /\ \A k \in Cpu : rx[k].at # "genl"
  /\ rx' = [rx EXCEPT ![c] = [Idle EXCEPT !.at = "genl", !.dev = d]]
  /\ UNCHANGED <<dev, sock, pdr, rtnl, mod, fault>>

\* The handler walks the arrays of its device.
Walks(c) == rx[c].at \in {"rx", "tx", "genl"} /\ dev[rx[c].dev].mem
HasTables(d) == dev[d].tables = Tables

Lookup(c) ==
  /\ rx[c].at \in {"rx", "tx"} /\ Walks(c) /\ HasTables(rx[c].dev)
  /\ \E p \in PdrsOf(rx[c].dev) \cup {None} :
       rx' = [rx EXCEPT ![c].at = "found", ![c].pdr = p]
  /\ UNCHANGED <<dev, sock, pdr, rtnl, mod, fault>>

\* gtp1c_handle_echo_req answers over gtp->sk1u, whose loads are one step here.
Echo(c) ==
  /\ rx[c].at = "rx" /\ Walks(c) /\ dev[rx[c].dev].sk1u # None
  /\ rx' = [rx EXCEPT ![c].at = "found", ![c].sk = dev[rx[c].dev].sk1u]
  /\ UNCHANGED <<dev, sock, pdr, rtnl, mod, fault>>

\* The socket is not in the device yet, or no more.
EchoOops(c) ==
  rx[c].at = "rx" /\ Walks(c) /\ dev[rx[c].dev].sk1u = None /\ Fails("null")

\* No arrays yet (hash_size is 0, a division) or no more.
LookupOops(c) == Walks(c) /\ ~HasTables(rx[c].dev) /\ Fails("table")

\* The device itself is freed.
MemoryOops(c) ==
  rx[c].at \in {"rx", "tx", "genl"} /\ ~dev[rx[c].dev].mem /\ Fails("memory")

\* CPU c leaves its section; PDR p, if any, is handed to its callback.
Leave(c, p) ==
  /\ rx' = [rx EXCEPT ![c] = Idle]
  /\ pdr' = [q \in Pdr |-> IF q = p THEN Unlinked(pdr[q], InSection \ {c})
                           ELSE [pdr[q] EXCEPT !.wait = @ \ {c}]]
  /\ sock' = [s \in Sock |-> [sock[s] EXCEPT !.wait = @ \ {c}]]
  /\ rtnl' = [rtnl EXCEPT !.wait = @ \ {c}]
  /\ UNCHANGED <<dev, mod, fault>>

Done(c) == rx[c].at = "found" /\ Leave(c, None)

\* gtp5g_genl_del_pdr, or a handler that finds nothing.
DelPdr(c) ==
  /\ rx[c].at = "genl" /\ Walks(c) /\ HasTables(rx[c].dev)
  /\ \E p \in PdrsOf(rx[c].dev) \cup {None} : Leave(c, p)

-----------------------------------------------------------------------------
\* The link operation that holds rtnl_lock goes on.
LinkStep ==
  \/ \E d \in Dev :
       \/ NewSk(d) \/ NewBadRole(d) \/ NewTables(d) \/ Register(d) \/ List(d)
       \/ UnlinkRules(d) \/ FreeTables(d) \/ Uninit(d)
       \/ \E k \in Tables : NewTablesFail(d, k)
  \/ CloseDevs \/ DropDevs \/ RegisterOops \/ ListOops

HandlerStep(c) ==
  \/ Lookup(c) \/ Echo(c) \/ Done(c) \/ DelPdr(c)
  \/ EchoOops(c) \/ LookupOops(c) \/ MemoryOops(c)

Next ==
  /\ fault = "none"
  /\ \/ LinkStep \/ NetExit \/ AddPdrOops \/ FreePdrOops
     \/ \E d \in Dev : \/ DelLink(d)
                       \/ \E s \in Sock \cup {None} : NewLink(d, s)
                       \/ \E p \in Pdr : AddPdr(d, p)
                       \/ \E c \in Cpu : Xmit(c, d) \/ FindDev(c, d)
     \/ Load \/ RegisterNext \/ RegisterFails \/ Unload \/ Gone
     \/ \E x \in Facilities : Unregister(x)
     \/ \E s \in Sock : Close(s) \/ CloseDestroy(s) \/ FreeSock(s) \/ Open(s)
     \/ \E p \in Pdr : FreePdr(p)
     \/ \E c \in Cpu : HandlerStep(c) \/ \E s \in Sock : RxRecv(c, s)

Spec == Init /\ [][Next]_vars

\* Whoever holds rtnl_lock goes on, a handler ends its section.  rtnl_lock is
\* a mutex that hands itself to the one who waits longest, hence the strong
\* fairness of the close and of the steps of the unload.
FairSpec ==
  /\ Spec
  /\ WF_vars(fault = "none" /\ LinkStep)
  /\ \A c \in Cpu : WF_vars(fault = "none" /\ HandlerStep(c))
  /\ \A s \in Sock : SF_vars(fault = "none" /\ CloseDestroy(s))
  /\ SF_vars(fault = "none" /\ \E x \in Facilities : Unregister(x))
  /\ SF_vars(fault = "none" /\ Gone)

-----------------------------------------------------------------------------
\* Properties

Count(b) == IF b THEN 1 ELSE 0

\* References to a socket: one of its open file, one while a device has its
\* tunnel, one of each PDR, until its callback.  Every path that ends one of
\* these (three ways to disable the tunnel, in any order, and the error paths
\* of newlink) drops exactly one (sock_hold, sock_put).
RefsExact ==
  \A s \in Sock :
    /\ sock[s].refs = Count(sock[s].fd # "closed") + Count(sock[s].user # None)
                      + Cardinality({p \in Pdr : pdr[p].life # "free" /\ pdr[p].sk = s})
    /\ sock[s].life = "live" <=> sock[s].refs > 0

\* sk_user_data of a socket and sk1u of a device name each other, except
\* between the two assignments of newlink; so sk_user_data never names a
\* device that has been freed, nor two sockets one device.
EncapExact ==
  /\ \A s \in Sock : sock[s].user # None =>
       /\ dev[sock[s].user].mem
       /\ \/ dev[sock[s].user].sk1u = s
          \/ rtnl.at = "sock" /\ rtnl.sock = s /\ rtnl.devs = {sock[s].user}
  /\ \A d \in Dev : dev[d].sk1u # None => sock[dev[d].sk1u].user = d

\* A socket that a handler can still use, by the PDR it found or by the sk1u it
\* loaded, is not freed, whoever closes the socket, deletes the link or the PDR.
HeldSocketLives ==
  \A c \in Cpu :
    /\ rx[c].sk # None => sock[rx[c].sk].life # "freed"
    /\ rx[c].pdr # None => /\ pdr[rx[c].pdr].life # "free"
                           /\ sock[pdr[rx[c].pdr].sk].life # "freed"

\* A device that is freed leaves nothing: no array (the error ladder of
\* dev_hashtable_new), no entry on the lists of its namespace and of proc, no
\* PDR that is still linked.
NothingLeft ==
  \A d \in Dev : ~dev[d].mem => dev[d] = NoDev /\ PdrsOf(d) = {}

\* When the module is gone, no device is there and no socket would call into it.
UnloadClean ==
  mod.phase = "out" => /\ \A d \in Dev : ~dev[d].mem
                       /\ \A s \in Sock : sock[s].user = None

\* A socket that user space closes loses its tunnel in the end, and an unload
\* ends, unless a fault comes first.
TunnelEnds == \A s \in Sock : sock[s].fd = "closing" ~> sock[s].user = None \/ fault # "none"
UnloadEnds == mod.phase = "unload" ~> mod.phase = "out" \/ fault # "none"

\* "sk_user_data was protected by RCU" (src/gtpu/encap.c:108): a handler in the
\* section in which it loaded the device finds it allocated.
SkUserDataProtected ==
  \A c \in Cpu : rx[c].at # "idle" => dev[rx[c].dev].mem
=============================================================================
