# gtp5g in TLA+

gtp5g is a Linux kernel module: the user plane of a 5G core. A control plane
configures it over generic netlink with PFCP rules, and softirqs on every CPU
apply the rules to GTP-U packets. This directory holds TLA+ models of its parts,
the TLC configurations that check them and TLAPS proofs about them. Source paths
below are relative to the repository (`src/pfcp/pdr.c`).

## 1. The system

### Components, their state and their operations

| component | state | operations |
|---|---|---|
| **PDRs** `pfcp/pdr.c`, `genl/genl_pdr.c` | `struct pdr`: name (seid, id), precedence, PDI, FAR id, lists of QER and URR ids, pointers to FAR and QER, buffering socket; `pdr_id_hash`; detection lists `i_teid_hash`, `addr_hash` in ascending precedence | add (create or replace: `pdr_fill`), delete, get, dump, lookup by TEID or UE address, RCU free |
| **FARs** `pfcp/far.c`, `genl/genl_far.c` | `struct far`: name, apply action, forwarding parameters; `far_id_hash`; `related_far_hash` of `pdr_node`s | add (`far_fill`, `far_update`), delete (`far_context_delete`), get, dump, RCU free, end marker |
| **QERs** `pfcp/qer.c`, `genl/genl_qer.c` | name, rates, two meters; `qer_id_hash`, `related_qer_hash` | add (`qer_fill`, `qer_update`), delete, get, dump, RCU free |
| **Meter** `qos_meter.c` | rates, tokens and remainders of two buckets | `trtcm_param_config`, `trtcm_runtime_config`, `trtcm_color_blind_check` |
| **URRs and reports** `pfcp/urr.c`, `genl/genl_urr.c`, `genl/genl_report.c` | trigger, threshold, quota, counters `bytes` and `consumed`, `quota_exhausted`, saved PDR ids and FAR actions | add (`urr_fill`), delete, count (`check_urr`), stop and resume, report on request (one, many) |
| **BARs** `pfcp/bar.c`, `genl/genl_bar.c` | name, delays; linked to nothing: `bar_set_far` has no caller | add, delete, get, dump |
| **Data path** `gtpu/encap.c`, `gtpu/dev.c`, `gtpu/pktinfo.c` | none of its own between packets but counters | uplink `gtp5g_encap_recv` → `gtp5g_rx`, downlink `gtp5g_dev_xmit` → `gtp5g_handle_skb_ipv4`: lookup, meter, drop/forward/buffer, count |
| **Link and device** `gtpu/link.c`, `gtpu/dev.c`, `gtpu/net.c`, `gtp5g.c` | the tables, the UDP socket, device lists of the namespace and of proc | newlink, dellink, namespace exit, encapsulation enable and disable, `gtp5g_hashtable_free` |
| **Netlink family** `genl/genl.c` | `genl_mutex`, `rtnl_lock` | dispatch of every handler |
| proc, hash, log, versions | debug output | `proc.c`, `gtpu/hash.c`, `log.c`, `util.c`, `genl_version.c` (`etf.c` is empty) |

### How they interact

* **Shared memory.** Everything hangs off `struct gtp5g_dev`. Rules name each
  other by (seid, id). For each direction of a name there is a hash table: the id
  hash finds a rule, the *related* table finds the PDRs that name it, existing or
  not. PDRs cache pointers to their FAR and their last QER.
* **Writers.** Netlink handlers run one at a time (`genl_mutex`; the family does
  not set `parallel_ops`). Add handlers take `rtnl_lock` besides; link operations
  hold `rtnl_lock` only.
* **Readers.** Packet handlers run on every CPU, inside RCU read-side sections,
  with no lock. They also *write*: URR counters, the tokens of a meter, and through
  `urr_quota_exhaust_action` the action of FARs.
* **Callbacks.** `call_rcu` frees rules after the sections that were open.
* **Messages.** Reports and buffered packets go to the control plane on a unix
  socket per PDR, or over netlink multicast.

### What is hard, and what makes each component correct

* Rule tables: order of creation and deletion in every interleaving; a replace
  that changes the keys under which a PDR is filed; errors in the middle of
  `pdr_fill`; pointers that outlive their target. Correct: names are unique, the
  FAR pointer is exactly what the name says, the FAR reaches every PDR that names
  it, no reader touches freed memory, a lookup finds the PDR of highest precedence.
* Meter: fixed-width arithmetic, remainders, idle times long enough to wrap.
  Correct: each bucket is a token bucket of its rate; no fraction is lost.
* Usage reporting: counters updated without a lock on one side, replaced by a
  grant on the other; stop and resume that must undo each other. Correct: quota
  is overrun by less than a packet, FARs drop exactly while a URR is stopped,
  whoever stops a URR tells the control plane, and no usage goes unreported.
* Data path: pointers loaded one at a time under concurrent deletes.
* Buffering and end markers: sockets opened and closed by five kinds of request
  while packets are sent on them; a header rewritten under the packets. Correct: no
  socket is lost or shared, a PDR that must buffer can, no packet leaves on a
  tunnel after its end marker.
* Link: error paths and three ways to tear down.
* Netlink: early returns that keep `rtnl_lock`, deletes and dumps under the
  deletion of the link (which unlinks from the same lists with no lock in common),
  a dump's cursor under changes. Correct: the id hash is
  exact, a request ends, a dump reports each rule once and ends.

Every such exposure is listed in `PROJECT.json` under `hazards`, at its line,
with the property that covers it or the reason none does yet.

## 2. Modules

| module | models |
|---|---|
| `PdrLists` | one detection list as a sequence: sorted insertion, unlinking, first match |
| `RuleTables` | PDRs, FARs, QERs, related tables, detection lists, packet handlers' pointers, RCU |
| `MCRuleTables` | small instances of it |
| `TrTcm` | the meter of a QER; `TokenBucket` is the abstract specification that each of its buckets implements |
| `LinkLife` | module load and unload, newlink, dellink, namespace exit, socket close, and the handlers and PDRs that use the device meanwhile |
| `UrrQuota` | URRs of one session, `check_urr`, grants, stop and resume, reports |
| `MCUrrQuota` | small instances of it |
| `GenlRules` | the netlink requests on the rules of one kind (add, delete, get, dump; all five kinds), their locks and sections, against the deletion of the link |
| `MCGenlRules` | small instances of it |
| `FarUpdate` | buffering sockets, outer headers and end markers: what a change of rules means to the packets under way |
| `MCFarUpdate` | a small instance of it |
| `PdrListsProofs`, `RuleTablesProofs`, `RuleListsProofs`, `TrTcmProofs`, `LinkLifeProofs`, `FarUpdateProofs`, `GenlRulesProofs`, `UrrQuotaProofs` | theorems with proofs |

### RuleTables

Variables and code: `pdr`, `far`, `qer` map *addresses* to the struct's fields
that matter and a life stage (`free`, `live` = linked in its id hash, `dying` =
unlinked, callback pending, with the set `wait` of CPUs whose read-side sections
were open at the `call_rcu`). `pdi` holds precedence, F-TEID, UE address and the
state of the two `hlist_node`s (`poisoned` after `hlist_del_rcu`, which
`hlist_unhashed` does not see). `relFar`, `relQer`, `relUrr` are the related
tables, `teidHash` and `addrHash` the detection lists, `rx` what each packet
handler holds, `leaked` that a handler has returned with `rtnl_lock` held, `fault`
the first kernel fault (use after free, null dereference, second unlink of a
poisoned node), after which nothing moves.

Actions: one per handler and outcome. `CreatePdr`, `CreatePdrFails`, `ReplacePdr`,
`ReplacePdrFails` (both failing ones with the step of `pdr_fill` at which an
allocation, a parse or a socket fails, and the nodes it had added by then),
`DelPdr`; `CreateFar`, `ReplaceFar`, `ReplaceFarFails`, `DelFar`; `CreateQer`,
`ReplaceQer`, `DelQer`; `RxLookup`, `RxLoadFar`, `RxDone`; `FreePdr`, `FreeFar`,
`FreeQer`; and the `...Oops` actions for the faults.

Abstractions. A handler is one step: `genl_mutex` orders it with every other
handler; what packets see half-way through the rewrite of a FAR is `FarUpdate`'s,
what the deletion of the link does half-way through a request `GenlRules`'s.
A reader's walk of a list is one step; it may return any listed PDR, because an
SDF filter may turn down any other. The order in a related bucket is abstracted: a
search that stops early may or may not read a dangling node behind its target, and
both are allowed. If two QER (or URR) ids of a PDR share a bucket and `pdr_fill`
fails between their nodes, the code may later leave one of several nodes that the
set drops together: the model reaches fewer dangling nodes there than the code.
`kzalloc` does not hand out an address that something stale still refers to, which
keeps the stale reference recognisable. After `leaked` the read-side section of
that handler is open as well, so the callbacks would not run: letting them run
only adds behaviours.
Attributes the tables do not depend on (SDF, forwarding parameters, rates,
sockets) are left out; the last three are `FarUpdate`'s and `TrTcm`'s. UE address lookups are those of a UPF (`daddr`).

### TrTcm and TokenBucket

One bucket pair, as one CPU calls it. `uint64_t` is arithmetic modulo `Word`;
`NSEC_PER_SEC`, kilobits, burst and default rate are constants, so the checked
instance can be small while the proofs hold for 2^64. `green`, `yellow`, `lost`,
`fits` are history variables. `QerFill` reconfigures, `Police` is a packet,
`PoliceOops` the division by a zero guaranteed rate that precedes the metering.
`TokenBucket` says what a bucket promises: credit earned no faster than the rate,
never more than a burst (and the fraction of a byte left over) at hand, every byte
paid for. `C!Spec` and `P!Spec` are it under the refinement mapping
`credit = 8 * NsecPerSec * tokens + NsecPerSec * bits + rem`.

### UrrQuota

`check_urr` is a loop over the PDR's URRs: `Skip`, `NoTrigger`, `StartOfService`,
or `LoadCounters` then `StoreCounters` (the increments are plain loads and
stores), and at the end `SendReports` or `SendFails`. `ForwardUncounted` is a packet
for which `check_urr` finds no memory: it goes out and nothing counts it. `Age` says
when a PDR's nodes were put at the heads of their buckets, so the walks over the PDRs
of a URR meet the youngest first. `urr_set_pdr` adds a node for each URR id, and the
walks ask only whether a node's PDR names the URR; so they come to a PDR once for
each of its ids in the bucket of the URR (`Visits`, from the constant `Bucket`). A
stop (`QuotaExhaust`) saves an action at each visit, DROP at every one after the
first of a FAR, and a resume (`Restored`) writes at each visit all that was saved
for the PDR, so the last one stays. `urr_fill` is `AddUrr` (the
fields) then `AddUrrDone` (stop or resume), so packets come between them. Further
actions are `GetReport`, `GetReports` (several URRs, also one that fails half-way), `DelUrr`, `SetAction` (`far_fill` on a FAR), `LinkFar`
(the PDR's FAR pointer changes). `MissingUrr`, `ReportsOverflow` and `DoubleFree`
are the faults the code can meet.

History variables: `told` says whether a stop has been reported, its report was lost
with its packet, or the control plane asked for it (a total volume of zero). `due` is
the volume counted that no report has carried to the control plane, and only a report
that was sent makes it smaller. `dropped` is the part of it that the code clears and
never reports: by the trigger START (`genl_urr.c:337`), with reports that were not
sent, and with the reports that a failed request for several URRs throws away.
`passed` is the volume let through on a quota, `normal` the action the control plane
last set, and `tangled` the FARs for which a stop has saved something else than
`normal`: because two PDRs share the FAR, because a PDR has two URRs in one bucket,
or because another URR has stopped it before. The control plane untangles a FAR by
setting its action.

Abstractions: one volume per packet, the one the limit's flags select; stop and
resume are one step each. A failure to allocate the scratch arrays is modelled (the
URR goes on); one of the saved arrays themselves, a null dereference, is not. A packet counts as
`passed` when forwarding begins; with outer header creation the code counts before
it sends, and drops the packet that starts a service, so the model's count is never
below the code's. Every add-URR message carries a trigger and a threshold.
`Polite` restricts the control plane to leave a stopped URR, its FARs and its PDRs
alone except for grants; `Links` restricts which FARs PDRs share.

### LinkLife

`dev`, `sock` and `pdr` are the memory of the three kinds of object that hold on to
each other: `struct gtp5g_dev` (allocated, `sk1u`, the hash arrays it has,
registered, on the lists of its namespace and of proc), `struct sock` (file,
`sk_user_data`, references, the end of its life) and PDRs, each with a reference
to the socket. `rtnl` is the operation that holds `rtnl_lock` and how far it is;
`rx` what the open read-side section of a CPU holds; `mod` what the module has
registered; `fault` the first kernel fault.

newlink is `NewLink` (`gtp5g_encap_enable`), `NewSk`, `NewTables`, `Register`,
`List`, with `NewBadRole` and `NewTablesFail` as its error returns: packets come
between any two, as the tunnel is enabled first. A deletion (`DelLink`, `NetExit`,
the steps of `Unregister`) is `UnlinkRules` and `FreeTables` for each device, then
`CloseDevs`, `Uninit`, `DropDevs`, with the grace periods of
`gtp5g_hashtable_free` and of the network core between them. `Close` and
`CloseDestroy` are the close of the socket, `AddPdr`, `DelPdr`, `FreePdr` the PDR
handlers and the callback, `RxRecv`, `Xmit`, `Echo`, `Lookup`, `Done` the packets.
Faults the code can meet: a lookup before the arrays exist or after they are freed,
a null `sk1u`, the double free of a failed registration, a link listed while its
namespace list is not there, a callback after unload.

Abstractions: one namespace, and no device changes namespace; the rules of a
device are unlinked in one step; rules other than PDRs, which hold nothing that
outlives the device, are left out. What the network core does (freeing a device
whose newlink failed, calling `encap_destroy`, deleting links of an unregistered
kind, grace periods of an unregistration) is modelled as the code relies on it.

### GenlRules

`rule` and `head` are the buckets of one id hash: each rule with its own `next`
pointer, which stays when `hlist_del_rcu` unlinks it, so a walk that stands on it
goes on. `req` is what holds `genl_mutex`: an add (one step, since it holds
`rtnl_lock` too), a delete or get between its lookup and its end (a read-side
section), or a call of a dump, which walks rule by rule with *no* section. `rtnl`
is who holds `rtnl_lock`: nobody, the deletion of the link, or nobody any more
(`leaked`). `link` is how far `gtp5g_dellink` is.

A delete holds `genl_mutex` and a read-side section, `gtp5g_hashtable_free` only
`rtnl_lock`: nothing orders what they unlink. `hlist_del_rcu` is therefore three
steps on each side: the loads of the rule's links (`DeleteLoads`, `SweepLoads`), the
store that takes the rule off its bucket (`DeleteUnlinks`, `SweepUnlinks`), and the
rest up to `call_rcu` (`DeleteEnds`, `SweepRule`). Between them the other side, the
callbacks and the walks go on. Unlinks of rules that are not neighbours overlap
freely. Of neighbours (`Close`: one links to the other, or both to one rule) the second loads a link
that the first has yet to store, and its stale store leaves a dead rule to be reached
from the head, or a live one whose back link is in a dead rule. The model stops there:
the fault `torn` (`DeleteTears`, and in `SweepOops`). In the code the run goes on, and
a lookup or the next unlink in that bucket may use the dead rule after its callback
has freed it. An add that fails and unlinks holds the locks of both, and is one step.

 `dump` is what the kernel keeps
between the calls of a dump (`bucket`, `id`: `cb->args[1]`, `cb->args[2]`), and a
history: `due`, a rule to be reported, picked when the dump begins; `times` it has
been; `sound`, whether the conditions under which a dump is exact still hold.

`kind` picks which of the five sets of handlers runs: they differ in what a replace
does. `AddPdr` ... `AddBar`, `DelPdr` ..., `GetPdr` ..., `DumpPdr` ... are those
handlers; `BeginDellink`, the `Sweep...` actions, `FreeArrays` and `EndDellink` are
`gtp5g_hashtable_free` and the unlisting. `FindOops`, `DeleteOops`, `DeleteTears`,
`WalkOops`, `SweepOops` are the faults: a request after the arrays are freed, the
second unlink of a rule that a delete and the teardown both found, unlinks of
neighbours that overlap, a dump or the teardown on a rule that its callback freed.

Abstractions: one device (a dump that goes over several starts the next one at the
bucket where the first call of it stood, `genl_pdr.c:293`, and is not modelled); one
request and one dump at a time in flight between calls; the other four hashes of a
teardown, related lists and references are not here, though the unlinks of a delete
and a teardown from those lists have no lock in common either and race in the same
way. A rule that is deleted while
nobody walks is free at once. Which free address an allocation returns is fixed, not
chosen anew at each step: nothing depends on it, and TLC has fewer states.

### FarUpdate

`pdr` has the life of a PDR, its socket path (`empty`, `unix`, `netlink` for "/"),
its socket and whether nodes lead to it; `far` its action (`buff`), the action a
stopped URR saved and the outer header (`teid`, `peer`, as the tunnel each belongs
to); `open` the sockets that exist. `req` is an update of a FAR between writing the
TEID, the address and sending the marker; `snd` a packet handler in
`unix_sock_send`; `pkt` one between the two reads of a header. `lost`, `excused`,
`ended` and `wrong` are history: sockets no pointer is left to, PDRs from whom a
socket was taken or that could not connect, tunnels closed by a marker, what was
wrong with a packet.

`ClientUpdate` and `ClientDelete` are `unix_sock_client_update` and `_delete` for all
PDRs of a walk, used by `FillPdr`, `SetFar`, `UpdateFar`, `SetQer`, `SetUrr`,
`RemoveFar`, `DeleteQerOrUrr`. `QuotaStops` and `QuotaResumes` are what `check_urr`
and a grant do to a FAR's action. Faults: a send on a socket that was released under
it, a walk over a PDR that failed and was freed, a marker sent when no PDR has
filled in its socket, and a replace that keeps the locks (`GenlRules` goes on from
there).

Abstractions: `setup` fixes which PDRs name which rules; a header is two fields, the
port goes with the address; one sender and one forwarded packet at a time, on
different CPUs; PDR pointers to FARs are exact (proved in `RuleTables`). A tunnel
that is set again counts as not ended.

## 3. Runs

| run | question and answer | instance |
|---|---|---|
| `rule_far` | Types, unique names, FAR pointers, FAR nodes and packet handlers' safety hold under all creations, replaces, deletes, failures and frees | 2 PDR and 2 FAR addresses, 2 PDR and 2 FAR ids in 2 buckets, 1 CPU, failures on |
| `rule_lists` | Every lookup finds the PDR of highest precedence, lists are disjoint; no QER node is lost, doubled or left behind while QER lists grow | 3 PDRs, 2 precedences, 2 TEIDs that collide, 1 UE address; 2 PDRs, 3 QER ids (two collide), 1 QER, 1 CPU; `ListsOrQers` |
| `rule_stale_node` | *violation*: a freed PDR stays in the waiting list of its first FAR | as `rule_far`, failures off |
| `rule_qer_link` | *violation*: a QER that comes after its PDR is never linked | 2 PDRs, 3 QER ids, 1 QER |
| `meter` | Integers in range, refill exact, both buckets implement `TokenBucket` | 6-bit word, 5 ns per second, rates 0, 2, 7, gaps to 17, clock to 20 |
| `meter_mbr` | *violation*: GBR = MBR is metered at GBR + 100 Mbps | same |
| `urr_quota` | FARs drop exactly while a URR of their PDRs is stopped, until a stop saves a DROP; quota overrun is below one packet; a stopped URR is reported; no usage is lost but what START, an unsent report or a failed request for several clears | 2 PDRs with own FARs, one or none, 2 URRs in two buckets, one or both with a quota, 1 CPU, failures on, quota 2, packets of 1; `TrafficOrStops`, `UsageView` |
| `genl` | The id hash is exact and handlers' memory allocated until unlinks of neighbours overlap, only the deletion of the link brings a fault, dumps are exact, requests and dumps end | all five kinds, 3 FARs, otherwise 2 rules at a time, 4 names (2 sessions, 3 names in one bucket), 2 buckets, 1 rule per message, `FairSpec`; `KindHasItsRules` |
| `far_update` | No socket lost or shared, a PDR that must buffer can, no packet behind its end marker | 2 PDRs, 2 FARs, 1 QER, 1 URR, 3 sockets, 2 tunnels, one session or two; `SocketsOrTunnels` |
| `link_life` | Socket references exact, no dangling `sk_user_data`, nothing left behind, closes and unloads end | 2 devices, 1 socket that can be reopened, 1 PDR, 1 CPU, 3 arrays, all failures on, `FairSpec` |
| `link_user_data` | *violation*: a failing newlink frees the device under a packet handler | 1 device |
| `urr_resume` | *violation*: of two PDRs with one FAR, the resume restores DROP | 2 PDRs, 1 FAR, 1 URR |

**Why the bounds are enough to be interesting.** Two buckets with colliding and
distinct ids give moves between buckets and searches that meet another rule's
node. Two addresses per kind let an old object be dying while its name is taken by
a new one; three PDRs are the fewest for an insertion between two others. One CPU
with a held section shows every reader/callback order, as callbacks wait per CPU.
In the meter the largest product exceeds the word, rates lie on both sides of
`NsecPerSec`, and a bucket goes from full to empty in a few packets. In `urr_quota`
a quota of 2 is reached by the second packet, of either PDR, and `Horizon = 3` leaves
room for one that passes it; two packets are also enough for a clear that falls between
the load and the store of the second. A total volume of zero stops a URR at once, so
either URR can stop before or after the other, with or without a FAR in common.
In `LinkLife` two devices compete for one socket or go without, and a teardown can
have two devices to do; three arrays give the error ladder a middle; nothing is
bounded but the sets, since the references are as many as the objects.
In `genl` three rules in one bucket are the fewest for a dump to resume in the
middle of it while one is added in front and another deleted behind, and for the
unlinks of a delete and of the teardown to overlap on rules that are not neighbours:
the first and the last of three; names share ids across the buckets. For a lock that is
kept and a dump that goes round two rules do. In `far_update` two PDRs of one FAR, only one
with a URR, and two PDRs of two sessions whose QERs have one id are the two ways one
request reaches several sockets; a third socket is open while both PDRs have theirs.

Four runs bound the state space by a constraint. `ListsOrQers` (`rule_lists`): either
three PDRs move between lists and all name one absent QER, or two PDRs stay on one
list and their QER lists grow; a packet handler runs only when there is a single PDR,
which names QER 1, enough for it to read a QER that was freed under that PDR. `SocketsOrTunnels` (`far_update`): either no packet is
forwarded and no FAR has parameters, or one PDR without a socket uses the tunnels of
one FAR. In both the two halves share code but no state: lists do not depend on QER
nodes, sockets not on headers. `TrafficOrStops` (`urr_quota`): packets pass while u1
alone has a quota, no FAR is shared or tangled and both forward; otherwise the control
plane stops and resumes URRs that have counted nothing, sets FARs and moves PDRs between
them. That packets stop one URR while another is stopped is left to `GateIsExact`, which
has no such bound; that they pass through shared or tangled FARs matters to `QuotaHeld`
alone, which does not hold there (see `OneStops` and `Apart` below). `KindHasItsRules`
(`genl`): the code of the kinds differs in its locks, not in its hash, so one kind has
three rules in one bucket; a dump of three is followed while the link is up, and of two
until the end.

The run `urr_quota` has a VIEW with `due - dropped` in place of both: no guard reads
them, and the next difference is a function of this one and the rest of the state, as
`dropped` is never more than `due`; `NoneUnreported` speaks of the difference alone. A
PDR with two URR ids in one bucket is not in the run, as every stop tangles its FAR; it
is in `GateIsExact` and `QuotaIsHeld`, for any `Bucket`.

Instances with a fault action keep the
fault as a stopping state; `CHECK_DEADLOCK FALSE` is for those states, for a leaked
`rtnl_lock` and for the horizons.

**Fairness.** In `link_life`: weak fairness of the operation that holds `rtnl_lock`
and of each handler in a read-side section, neither of which can block, and strong
fairness of the waiters for `rtnl_lock` (the close of a socket, the steps of the
unload), because a kernel mutex hands itself to the one who waits longest. Nothing
is assumed of user space. In `genl`: weak fairness of
a request that can take a step (`Handler`), as neither a spinning CPU nor a sleeper
is in its way; strong fairness of the deletion of the link, whose grace period is
interrupted by sections that begin after it but never waits for them; strong fairness
of the next call of a dump, because user space that reads a dump goes on reading and
`genl_mutex` hands itself to the one who waits longest. Nothing is assumed of who
sends requests. `RequestEnds` names its exception, `badReplace`: the replaces that
return with `rtnl_lock` held. `DumpEnds` does too: a dump under which the rule of its
cursor was deleted, or whose ids do not tell the rules apart, may go round for ever.
No other run assumes fairness.

**What a property would miss.** Each property of a passing run has a mutant in
`PROJECT.json`: an operator `Mut_...` beside the one it replaces, a plausible bug,
under which TLC finds the property violated.

## 4. What the violations show

* `NodesWaitForFar` (`pfcp/far.c:134`): `del_related_far_hash` looks under the FAR
  id the PDR has *now*; `pdr_fill` has already overwritten it. The old node stays,
  and outlives the PDR.
* `QerLinked` (`pfcp/qer.c:66`): `qer_update` refreshes sockets, not `pdr->qer`.
* `MbrHonoured` (`qos_meter.c:21`): the "no rate given" default is tested after
  `cir` was subtracted.
* `SkUserDataProtected` (`gtpu/link.c:86`): the tunnel is enabled before newlink can
  still fail, and a device that was never registered is freed with no grace period.
* `Resumed` (`pfcp/urr.c:112`): the second PDR of a FAR saves the DROP that the
  first one has just written. A second URR that stops the FAR, and a second visit of
  one PDR, do the same; `GateExact` leaves their FARs out as `tangled`.

## 5. Proofs

`tlapm` checks all of them; no fact is assumed beyond the constants' assumptions
(`ConstantsAssumption`, `MeterAssumption`, `LinkAssumption`, `FarUpdateAssumption`,
`GenlAssumption`, `UrrAssumption`), which the runs also evaluate. They say that the sets are finite where the code counts
or allocates, that `None` is no object, and that hashes and sizes are in range. TLC
checked each inductive invariant on the run's instance before it was proved.

* **Lists** (`PdrListsProofs`): `SortedInsertIs`, `UnlistIs`: for every sequence
  without repetition, insertion adds exactly the PDR and keeps ascending
  precedence; unlinking removes exactly it and keeps the order.
* **Rule tables** (`RuleTablesProofs`): `Typed`, `RuleNamesUnique`, `FarLinked`,
  `FarReachesPdrs`, `RxFarSafety`, for any sets of addresses, ids, CPUs and
  buckets. The inductive invariant is `TypeOK` with

  - `LiveNamed`: live rules have names (needed for `Find`),
  - `NamesUnique`, `NodePerPdr`, `FarLinkExact`,
  - `ListsLive`: what a reader can find on a list is live,
  - `RxHolds`: a CPU in a section is in `wait` of whatever dying object it holds,
    or that the PDR it holds still points to.

  `FarLinkExact` alone is not inductive: deleting a FAR clears the pointers only of
  PDRs its bucket reaches (`NodePerPdr`), and a PDR can reach the FAR of its name
  only if the name denotes one (`NamesUnique`). `RxFarSafe` alone is not: that a
  held FAR is still allocated after `FreeFar` needs the `wait` sets (`RxHolds`), and
  that a lookup starts from something allocated needs `ListsLive`.
* **Detection lists and QER nodes** (`RuleListsProofs`, on top of the invariant
  above): `ListsAreDisjoint`, `LookupsFindPrecedent`, `QerNodesAreExact`. The invariant
  added is `ListsExact`: each bucket holds exactly the live PDRs whose F-TEID (or, with
  none, UE address) hashes to it, each once, in ascending order of the precedence they
  have *now*. `FindsPrecedent` alone says nothing of PDRs that no lookup returns yet,
  and a deletion uncovers those; `ListsDisjoint` alone does not say that a replaced PDR
  has left its old bucket. The step that matters is `ReplacePdr`: `pdr_fill` overwrites
  precedence and keys first, so for a moment the list is out of order at one PDR, and
  taking exactly that one off and inserting it by its new precedence restores the order
  (the list lemmas). It holds whether or not a step of `pdr_fill` fails, and needs no
  bound on buckets or precedences. `QerNodesAreExact` has the hypothesis `~MayFail`: a
  `pdr_fill` that fails between two nodes leaves fewer.
* **Meter** (`TrTcmProofs`): `Typed`, `Exact`, and the refinements `CommittedBucket`
  and `PeakBucket`, for every word size, rate and gap. Inductive invariant:
  `TypeOK /\ RefillExact`. The key lemma `RefilledIs` says that a refill adds at most
  `rate * gap` credit, and exactly that unless a product wrapped. Wrapping only
  ever loses credit, which is why the refinements need no bound on idle time.
  `BucketsConform` is `TokenBucket`'s promise over any stretch of time, of both
  buckets: what the meter marks green since its configuration is at most one burst more
  than the committed rate earns, and the same of yellow and the peak rate. No run checks it
  by itself.
* **Link and device life** (`LinkLifeProofs`): `LinkTypes`, `ReferencesExact`,
  `TunnelsExact`, `SocketsHeld`, `DevicesLeaveNothing`, `UnloadsClean`, for any sets of
  devices, sockets, PDRs and CPUs and any number of arrays. The invariant is `TypeOK`,
  `RefsExact`, `EncapExact`, `NothingLeft` with

  - `PdrHolds`: a PDR has a socket until its callback has run,
  - `SockStage`, `Building`: what a newlink that is not finished has set up, and that
    no PDR can have found it yet,
  - `Teardown`: what a deletion has taken from each of its devices so far,
  - `Settled`: a device that no operation is about is registered with all its arrays,
    and while nobody holds `rtnl_lock` every device is,
  - `Registered`: without the link operations there is no device but those being
    removed, which is what makes an unload clean,
  - `RxHolds`: a CPU in a section is in `wait` of whatever dying socket or PDR it holds.

  `RefsExact` is not inductive alone: that a drop leaves no negative count needs
  `EncapExact` (a tunnel is disabled once, whichever of three paths comes first), and
  `EncapExact` in newlink needs `SockStage`. `NothingLeft` needs the whole ladder:
  a device goes at the end of a teardown or of a failed newlink, and only `Teardown` and
  `Building` say what it has lost by then. `HeldSocketLives` needs `RxHolds`, `PdrHolds`
  and the count: a PDR that has not been freed keeps its socket from being.
* **Sockets, headers and end markers** (`FarUpdateProofs`): `FarUpdateTypes`,
  `SocketsAreExact`, `BuffersReady`, `TunnelsAreWhole`, for any rules and every way in
  which they name each other. The invariant is the run's four with

  - `SndWhole`: a packet handler in `unix_sock_send` has a PDR and a socket,
  - `LiveListed`: every live PDR is reached by the walks over the PDRs of its FAR,
    QERs and URRs; without it a FAR that begins to buffer could miss one, so
    `BufferReady` is not inductive alone,
  - `HeadersWhole`: TEID and peer of a FAR lead to one tunnel, which has not ended,
    unless that FAR is being written,
  - `ReqWhole`: the TEID is written first, and the old tunnel is remembered for its
    marker,
  - `PktWhole`: the tunnel that the packet under way will carry had not ended when the
    packet began, and is the one it read first unless an update overlapped it.

  `TunnelsWhole` only looks at packets that have left; the last three say what is true
  of the header, the request and the packet half-way.

* **Netlink requests** (`GenlRulesProofs`): `GenlTypes`, `HashIsExact`, `MemoryIsSafe`,
  `DumpsAreExact`, for any rules, names, buckets and hash, any message size and all five
  kinds. All hold up to the first fault, `torn` included: what the code does after two
  unlinks of neighbours overlapped is left to nobody's promise. A bucket is its links, so the lemmas are about walks: `ChainStep` (a walk is a
  rule and the walk from the next), `NoCycle`, `AddedStep` and `RemovedStep` (what a
  head insertion and an unlinking make of every walk). The invariant is `TypeOK` with

  - `Named`, `Linked`, `LedToOnce`, `Reached`, `NamesUnique`: links stay in a bucket and
    among live rules, at most one leads to a rule, and a walk from the head comes to
    all. `HashExact` alone is not inductive: unlinking a rule keeps the walk to the rules
    behind it only if nothing else led to it, heads included (`LedToOnce`), and that
    the bucket has no cycle follows from both,
  - `NoneDying`, `SectionHolds`, `WalkHolds`, `FaultStops`, `CutStands`: what a handler
    or a dump stands on is live, just unlinked by whoever has yet to hand it to
    `call_rcu`, or dying with a callback that waits for the section,
  - `WindowsHold`: a rule whose links an unlink has loaded is live until that unlink
    takes it out, and two unlinks that are open are of different rules. So the store
    of each is `RemovedStep` again, whatever the other has open, and a bucket is exact
    after every single store until unlinks of neighbours overlap,
  - `FollowedHolds`, `ResumeHolds`: between two calls of a dump its bucket and id denote
    one live rule, and a call that looks for that rule has not gone past it,
  - `ReportedIsPast`: the rule that is watched has been reported *if and only if* the
    dump is past it: in an earlier bucket, or in this one and not on the walk from where
    the dump goes on. `DumpExact` says only that no dump that ended was wrong; this says
    what the calls to come will still report, and an insertion at the head or an
    unlinking elsewhere does not change it.

* **Usage reporting** (`UrrQuotaProofs`), for any PDRs, FARs, URRs, CPUs, packet
  lengths and add-URR messages. `UrrTypes` and `StopsAreTold` have no hypothesis; the
  other three need `Polite`, `OneCpu` or the named conditions at the head of the module,
  each of which leaves out something the code really gets wrong or never promises. The
  states of `urr_quota` with traffic meet them, but for a message that asks for a stop by
  a total volume of zero and gives an uplink volume, which `QuotaGiven` leaves out and the
  run covers.

  - `StopsAreTold`. Invariant: `RxWhole` (what a packet handler has in hand at each step
    of `check_urr`) and `StopKnown`: a stop that was not told is among the reports of a
    packet under way. `StopIsTold` looks only at states without packets, so it is not
    inductive; the step that matters is a deletion, which renames what the packets hold
    of *that* URR and must not touch the reports of another.
  - `UsageIsKept`, under `OneCpu` (two CPUs lose updates of a counter). Invariant:
    `NoneUnreported` with `LoadCovers`: what a handler has loaded, with what was dropped,
    covers what is due, so that its store does. A clear between load and store makes
    `due` smaller or `dropped` larger, which is why the late store is harmless here.
  - `GateIsExact`, under `Polite` alone: any PDRs may share a FAR, any URRs of a PDR may
    stop, in any buckets. Invariant: `FarsDo` (a FAR that is not tangled drops exactly
    while some PDR of it has a stopped URR), `SavedLast` (what a resume writes last at
    each PDR is what the control plane set) and `StoppedOnce` (two URRs have not both
    stopped such a FAR, unless it is set to DROP). `GateExact` says nothing of the saved
    actions, and a resume is right only if they are; nor is it enough that each resume is
    right, as a FAR that two URRs have stopped must stay shut after the first resume.
  - `QuotaIsHeld`, under `QuotaConditions`: `Polite`; `OneCpu`; `Apart` (no two PDRs
    share a FAR) and `OneStops` (at most one URR of a PDR has messages that can stop it),
    as the resume of one URR opens a FAR for the others; `QuotaGiven` (who asks for
    volume quota reports gives a quota) and `AllMeteredFirst` (no URR that may be left
    without a trigger comes before a URR with a quota: `check_urr` gives up there and the
    packet, already sent, is never counted for the ones behind). Invariant: `Accounted`
    for each URR that counts: `Consuming` (what has passed is what is consumed, but for
    the packet under way, and the quota was not used up before it), `StoreCounts` (a
    handler that has loaded the counters will cover the rest with its store) and
    `StoppedInTime`. That a stopped URR lets nothing more pass is `Shut`, which holds of
    every FAR, tangled ones too: a PDR with two ids in one bucket goes back to DROP.

Model-checked only: `QerNodesExact` where `pdr_fill` may fail, in which case it does not hold.
Out of the prover's reach and left to TLC: `TunnelEnds`, `UnloadEnds`, `RequestEnds`,
`DumpEnds` (liveness under fairness, ENABLED); what a recursive definition computes for all inputs.

## 6. Not modelled, and why

Encoding and decoding of attributes, SDF matching, the GTP-U header walk and route
lookup (stateless formatting and library calls), `netlink_send` (keeps no state),
proc (debug output), a dump over several devices, the five hashes of one teardown
together, the walk of a reader along a list that changes under it, and the meter
under two CPUs (a race the code accepts). The properties leave out, by name, what the
code does wrong where nothing in the repository claims otherwise: locks kept by a
replace (`badReplace`), sockets closed by the deletion of a QER, URR or FAR or not
opened by a resume (`excused`), sockets lost to the path "/" (`lost`), FARs for which a
stop has saved a DROP (`tangled`), usage cleared without a report (`dropped`), overlapping
unlinks of neighbours (`torn`), and the other faults. A fault ends a run: what the code
may do after two unlinks tore a bucket, a lookup that walks freed memory among it, is
not followed. `QuotaHeld` is checked with one
packet CPU: with two the counters race (`hazards`), and the bound is then one packet
per CPU and lost update, which nothing in the code claims. A packet that stops the
URR between the halves of a grant leaves it resumed with `URR_INFO_INAM` set: it
measures nothing until the next grant. `QuotaHeld` leaves that URR out.

## 7. Plan

In order of importance; the rows marked done exist.

| step | module | abstract specification, properties | runs | proofs |
|---|---|---|---|---|
| done | `RuleTables` | links exact, readers safe, lookups find the precedent | four | all invariants of its passing runs |
| done | `TrTcm` | refines `TokenBucket` | two | all of it |
| done | `UrrQuota` | gate, quota, report, usage | two | all invariants of its passing runs |
| done | `LinkLife` | references, tunnel, clean unload | two | all invariants |
| done | `GenlRules` | exact hash, requests and dumps end, dumps exact | one | all invariants |
| done | `FarUpdate` | sockets exact, buffering ready, markers last | one | all invariants |
| next | `RuleTables` with `GenlRules` | the five hashes and the related lists of one teardown | one | - |
| later | `ListWalk` | a reader that walks while PDRs move; composes `PdrLists` | one | - |
