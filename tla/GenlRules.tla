------------------------------ MODULE GenlRules ------------------------------
(***************************************************************************)
(* Netlink requests on the rules of one kind: add, delete, get and dump of *)
(* the PDRs, FARs, QERs, URRs or BARs in one id hash of a device, against  *)
(* the deletion of the device.                                             *)
(*                                                                         *)
(* genl_mutex runs one request at a time, and one call of a dump at a time *)
(* with requests in between.  Deleting the link holds rtnl_lock only.  An  *)
(* add holds rtnl_lock too; a delete and a get are RCU read-side sections; *)
(* a dump call is neither.  So an add is one step, and the others are      *)
(* steps between which the link's deletion unlinks and frees rules.  A     *)
(* delete and the link's deletion share no lock: their hlist_del_rcu are   *)
(* steps as well, the loads of the rule's links, the store to the one      *)
(* before it, and the rest.                                                *)
(*                                                                         *)
(* The handlers of the five kinds differ in what a replace does and in     *)
(* which of them can fail; kind picks one, at the start and for good.      *)
(***************************************************************************)
EXTENDS Naturals

CONSTANTS
  Kind,        \* the kinds of rule to look at
  Rule,        \* addresses of rules
  Name,        \* the names in requests: <<session, id>>
  Size,        \* hash_size
  KeyHash,     \* str_hashfn of "seid" + "id", mod Size
  Fits,        \* rules in one message of a dump
  None

Buckets == 0..(Size - 1)
Id == {name[2] : name \in Name}

ASSUME GenlAssumption ==
  /\ Kind \subseteq {"pdr", "far", "qer", "urr", "bar"}
  /\ Id \subseteq Nat
  /\ Size \in Nat \ {0} /\ Fits \in Nat \ {0}
  /\ KeyHash \in [Name -> Buckets]
  /\ None \notin Rule

VARIABLES
  kind,
  rule,        \* address -> the rule and its link in a bucket
  head,        \* bucket -> first rule
  req,         \* what holds genl_mutex, and how far it is
  dump,        \* a dump between its calls, and what it has reported
  rtnl,        \* who holds rtnl_lock
  badReplace,  \* a replace has gone through one of the paths that keep it
  link,        \* how far the deletion of the device is
  fault        \* the first kernel fault, or "none"

table == <<rule, head>>
locks == <<rtnl, badReplace>>
vars == <<kind, table, req, dump, locks, link, fault>>

NoRule == [st |-> "free", wait |-> FALSE, name |-> None, next |-> None]
NoReq == [op |-> "none", rule |-> None, cut |-> "no", bucket |-> 0, skip |-> 0, left |-> 0]
NoDump == [at |-> "off", bucket |-> 0, id |-> 0,
           last |-> None, sound |-> TRUE, due |-> None, times |-> 0, wrong |-> FALSE]
NoLink == [dev |-> "up", bucket |-> 0, rule |-> None, cut |-> "no"]

\* An unlink that has loaded the rule's links and has a store to do.
Open == {"loaded", "out"}

RuleType ==
  [st : {"free", "live", "out", "dying"}, wait : BOOLEAN, name : Name \cup {None},
   next : Rule \cup {None}]

ReqType ==
  [op : {"none", "add", "del", "get", "dump"}, rule : Rule \cup {None},
   cut : {"no"} \cup Open, bucket : Buckets, skip : Id \cup {0}, left : 0..Fits]
DumpType ==
  [at : {"off", "open"}, bucket : Buckets, id : Id \cup {0},
   last : Rule \cup {None}, due : Rule \cup {None}, sound : BOOLEAN,
   times : 0..1, wrong : BOOLEAN]
LinkType ==
  [dev : {"up", "sweep", "freed", "gone"}, bucket : Buckets,
   rule : Rule \cup {None}, cut : {"no", "done"} \cup Open]

TypeOK ==
  /\ kind \in Kind
  /\ rule \in [Rule -> RuleType]
  /\ head \in [Buckets -> Rule \cup {None}]
  /\ req \in ReqType
  /\ dump \in DumpType
  /\ rtnl \in {"none", "link", "leaked"}
  /\ badReplace \in BOOLEAN
  /\ link \in LinkType
  /\ fault \in {"none", "use-after-free", "poison", "torn"}

Init ==
  /\ kind \in Kind
  /\ rule = [n \in Rule |-> NoRule]
  /\ head = [b \in Buckets |-> None]
  /\ req = NoReq
  /\ dump = NoDump
  /\ rtnl = "none" /\ badReplace = FALSE
  /\ link = NoLink
  /\ fault = "none"

-----------------------------------------------------------------------------
\* Buckets

Live == {n \in Rule : rule[n].st = "live"}
IdOf(n) == rule[n].name[2]
Bucket(n) == KeyHash[rule[n].name]

\* The rules that a walk from n comes to, which may no longer be linked.
Closed(S) == \A m \in S : rule[m].next \in S \cup {None}
Chain(n) == {m \in Rule : \A S \in SUBSET Rule : n \in S \cup {None} /\ Closed(S) => m \in S}

\* find_*_by_id.
Found(name) ==
  LET named == {n \in Chain(head[KeyHash[name]]) : rule[n].name = name}
  IN  IF named = {} THEN None ELSE CHOOSE n \in named : TRUE

\* The id that a dump keeps tells the rules of a bucket apart: no two of
\* different sessions have one id, and none has the id 0, which is no id.
Apart ==
  /\ \A m \in Live : IdOf(m) # 0
  /\ \A m, n \in Live : m # n /\ Bucket(m) = Bucket(n) => IdOf(m) # IdOf(n)

\* A dump is followed up to the first thing that may make it wrong.
Upset(d) ==
  IF d.at = "off" THEN d
  ELSE [d EXCEPT !.sound = FALSE, !.due = None, !.times = 0, !.last = None]

InSection == req.op \in {"del", "get"}

\* rcu_read_unlock: callbacks need not wait for this section any more.
SectionEnded(r) == [n \in Rule |-> [r[n] EXCEPT !.wait = FALSE]]

\* hlist_del_rcu: the rule's own link stays for those who stand on it.
Unlinked(n) ==
  [m \in Rule |-> IF rule[m].next = n /\ rule[m].st = "live"
                  THEN [rule[m] EXCEPT !.next = rule[n].next] ELSE rule[m]]

\* The store that takes the rule off its bucket, which leaves the rule as it
\* says.
Unlink(n, as) ==
  /\ rule' = [Unlinked(n) EXCEPT ![n] = as]
  /\ head' = [head EXCEPT ![Bucket(n)] = IF @ = n THEN rule[n].next ELSE @]
  /\ dump' = IF n = dump.last THEN Upset(dump)
             ELSE IF n = dump.due THEN [dump EXCEPT !.due = None, !.times = 0]
             ELSE dump

TakeOut(n) == Unlink(n, [rule[n] EXCEPT !.st = "out"])

\* The end of *_context_delete: call_rcu, which waits for the section that is
\* open.  With no deletion of the link going on the rule may as well be free
\* at once: nobody comes to it any more.
Dead(n, section) ==
  IF link.dev = "sweep" THEN [rule[n] EXCEPT !.st = "dying", !.wait = section] ELSE NoRule

\* *_context_delete by an add that failed.  It holds the locks of both who
\* unlink, and is one step.
ContextDelete(n) == Unlink(n, NoRule)

\* Rules so close that an unlink of one loads a link that an unlink of the
\* other has yet to store.
Close(n, m) ==
  \/ n = m \/ rule[n].next = m \/ rule[m].next = n
  \/ rule[n].next = rule[m].next /\ rule[n].next # None

-----------------------------------------------------------------------------
\* Requests

Running == fault = "none"

\* The kernel stops; only the first fault and the state of the link matter
\* from then on.
Oops(f) ==
  /\ fault' = f
  /\ rule' = [n \in Rule |-> NoRule] /\ head' = [b \in Buckets |-> None]
  /\ req' = NoReq /\ dump' = NoDump
  /\ link' = [NoLink EXCEPT !.dev = link.dev]
  /\ UNCHANGED <<kind, locks>>

Begin(r) == Running /\ req = NoReq /\ req' = r

BeginAdd ==
  /\ Begin([NoReq EXCEPT !.op = "add"])
  /\ UNCHANGED <<kind, table, dump, locks, link, fault>>

\* With genl_mutex and rtnl_lock held an add is alone with the packets.
Adding == Running /\ req.op = "add" /\ rtnl = "none"
Release == req' = NoReq /\ UNCHANGED locks
Leak == rtnl' = "leaked" /\ badReplace' = TRUE /\ req' = NoReq

\* No device, no rule to replace or one where none may be, a missing
\* attribute, no memory; or the new rule could not be filled, and is freed
\* without having been in a bucket.
Refuse ==
  /\ Adding
  /\ Release
  /\ UNCHANGED <<table, dump>>

Fresh == {n \in Rule : rule[n].st = "free"}

\* *_append puts the new rule first in its bucket.
Append(name) ==
  LET n == CHOOSE m \in Fresh : TRUE
      b == KeyHash[name]
  IN  /\ rule' = [rule EXCEPT ![n] = [NoRule EXCEPT !.st = "live", !.name = name, !.next = head[b]]]
      /\ head' = [head EXCEPT ![b] = n]
      /\ dump' = IF name[2] = 0 \/ \E m \in Chain(head[b]) : IdOf(m) = name[2]
                 THEN Upset(dump) ELSE dump

\* An add that puts a rule in without looking for the name.
Mut_Create(name) ==
  /\ Adding
  /\ link.dev = "up"
  /\ Fresh # {}
  /\ Append(name)
  /\ Release

Create(name) ==
  /\ Adding
  /\ link.dev = "up"
  /\ Found(name) = None
  /\ Fresh # {}
  /\ Append(name)
  /\ Release

Replacing(name) == Adding /\ link.dev = "up" /\ Found(name) # None

AddPdr(name) ==
  /\ kind = "pdr"
  /\ \/ Refuse
     \/ Create(name)
     \/ Replacing(name) /\ Release /\ UNCHANGED <<table, dump>>
     \/ Replacing(name) /\ ContextDelete(Found(name)) /\ Leak

\* A failed replace that keeps the locks, as that of a PDR does.
Mut_AddFar(name) ==
  /\ kind = "far"
  /\ \/ Refuse
     \/ Create(name)
     \/ Replacing(name) /\ Release /\ UNCHANGED <<table, dump>>
     \/ /\ Replacing(name) /\ ContextDelete(Found(name))
        /\ rtnl' = "leaked" /\ req' = NoReq /\ UNCHANGED badReplace

AddFar(name) ==
  /\ kind = "far"
  /\ \/ Refuse
     \/ Create(name)
     \/ Replacing(name) /\ Release /\ UNCHANGED <<table, dump>>
     \/ Replacing(name) /\ ContextDelete(Found(name)) /\ Release

AddQer(name) ==
  /\ kind = "qer"
  /\ Refuse \/ Create(name) \/ (Replacing(name) /\ Leak /\ UNCHANGED <<table, dump>>)

AddUrr(name) ==
  /\ kind = "urr"
  /\ Refuse \/ Create(name) \/ (Replacing(name) /\ Release /\ UNCHANGED <<table, dump>>)

AddBar(name) ==
  /\ kind = "bar"
  /\ Refuse \/ Create(name) \/ (Replacing(name) /\ Leak /\ UNCHANGED <<table, dump>>)

Add ==
  /\ \E name \in Name :
       AddPdr(name) \/ AddFar(name) \/ AddQer(name) \/ AddUrr(name) \/ AddBar(name)
  /\ UNCHANGED <<kind, link, fault>>

-----------------------------------------------------------------------------
\* Delete and get: a read-side section from the lookup on

FindRule(op, name) ==
  /\ link.dev \in {"up", "sweep"}
  /\ Found(name) # None
  /\ Begin([NoReq EXCEPT !.op = op, !.rule = Found(name)])
  /\ UNCHANGED <<kind, table, dump, locks, link, fault>>

\* The arrays are gone and the device still has its index.
FindOops ==
  /\ Running
  /\ req = NoReq
  /\ link.dev = "freed"
  /\ Oops("use-after-free")

Using(op) == Running /\ req.op = op

\* gtp5g_genl_fill_* reads the rule.
Get ==
  /\ Using("get")
  /\ rule[req.rule].st # "free"
  /\ rule' = SectionEnded(rule)
  /\ req' = NoReq
  /\ UNCHANGED <<kind, head, dump, locks, link, fault>>

Deleting(cut) == Using("del") /\ req.cut = cut

\* The rule is on its bucket and the link's deletion is not about to store any
\* of the links that this unlink loads.
DeleteLoads ==
  /\ Deleting("no")
  /\ rule[req.rule].st = "live"
  /\ ~(link.cut \in Open /\ Close(req.rule, link.rule))
  /\ req' = [req EXCEPT !.cut = "loaded"]
  /\ UNCHANGED <<kind, table, dump, locks, link, fault>>

DeleteUnlinks ==
  /\ Deleting("loaded")
  /\ TakeOut(req.rule)
  /\ req' = [req EXCEPT !.cut = "out"]
  /\ UNCHANGED <<kind, locks, link, fault>>

DeleteEnds ==
  /\ Deleting("out")
  /\ rule' = SectionEnded([rule EXCEPT ![req.rule] = Dead(req.rule, FALSE)])
  /\ req' = NoReq
  /\ UNCHANGED <<kind, head, dump, locks, link, fault>>

\* The link's deletion was first: the second hlist_del_rcu writes through the
\* poisoned link.
DeleteOops ==
  /\ Deleting("no")
  /\ rule[req.rule].st \notin {"live", "out"}
  /\ Oops("poison")

\* The unlinks overlap on neighbours: the stale store leaves a dead rule to be
\* reached from the head of the bucket, or a rule whose back link is in a dead
\* one.  Whoever walks the bucket next may be on freed memory.
DeleteTears ==
  /\ Deleting("no")
  /\ link.cut \in Open /\ Close(req.rule, link.rule)
  /\ Oops("torn")

Delete == DeleteLoads \/ DeleteUnlinks \/ DeleteEnds \/ DeleteOops \/ DeleteTears

\* No memory for the report of a URR: it stays.
DeleteFails ==
  /\ Deleting("no")
  /\ rule' = SectionEnded(rule)
  /\ req' = NoReq
  /\ UNCHANGED <<kind, head, dump, locks, link, fault>>

GetPdr == kind = "pdr" /\ Get
GetFar == kind = "far" /\ Get
GetQer == kind = "qer" /\ Get
GetUrr == kind = "urr" /\ Get
GetBar == kind = "bar" /\ Get

DelPdr == kind = "pdr" /\ Delete
DelFar == kind = "far" /\ Delete
DelQer == kind = "qer" /\ Delete
DelUrr == kind = "urr" /\ (Delete \/ DeleteFails)
DelBar == kind = "bar" /\ Delete

-----------------------------------------------------------------------------
\* Dumps: calls that hold genl_mutex, with other requests in between.  Between
\* calls the kernel keeps a bucket and a rule id, no session and no pointer.

Walking == Running /\ req.op = "dump"
DumpDone == dump' = [NoDump EXCEPT !.wrong = dump.wrong \/ (dump.due # None /\ dump.times = 0)]

\* A dump that goes back to the start of its bucket.
Mut_Walk(d) ==
  [NoReq EXCEPT !.op = "dump", !.bucket = d.bucket,
                !.rule = head[d.bucket], !.left = Fits]

\* A call goes over the rules of the bucket, as it is now, up to the rule of
\* the id it has kept.
Walk(d) ==
  [NoReq EXCEPT !.op = "dump", !.bucket = d.bucket, !.rule = head[d.bucket],
                !.skip = d.id, !.left = Fits]

OpenDump(due) ==
  /\ link.dev \in {"up", "sweep"}
  /\ dump.at = "off"
  /\ dump' = IF link.dev = "up" /\ Apart
             THEN [dump EXCEPT !.at = "open", !.due = due]
             ELSE Upset([dump EXCEPT !.at = "open"])
  /\ Begin(Walk(dump))
  /\ UNCHANGED <<kind, table, locks, link, fault>>

\* Once it has left gtp5g_dev_list the device is not found, and the dump ends.
ContinueDump ==
  /\ Running
  /\ req = NoReq
  /\ dump.at = "open"
  /\ \/ /\ link.dev \in {"up", "sweep"}
        /\ req' = Walk(dump)
        /\ UNCHANGED dump
     \/ link.dev = "gone" /\ DumpDone /\ UNCHANGED req
  /\ UNCHANGED <<kind, table, locks, link, fault>>

Standing == Walking /\ req.rule # None /\ rule[req.rule].st # "free"
Skipped == req.skip # 0 /\ IdOf(req.rule) # req.skip

PassRule ==
  /\ Standing
  /\ Skipped
  /\ req' = [req EXCEPT !.rule = rule[@].next]
  /\ UNCHANGED <<kind, table, dump, locks, link, fault>>

\* Writes past the end of the message.
Mut_FillRule ==
  /\ Standing
  /\ ~Skipped
  /\ req' = [req EXCEPT !.rule = rule[@].next, !.skip = 0, !.left = @ - 1]
  /\ UNCHANGED <<kind, table, dump, locks, link, fault>>

FillRule ==
  /\ Standing
  /\ ~Skipped
  /\ req.left > 0
  /\ req' = [req EXCEPT !.rule = rule[@].next, !.skip = 0, !.left = @ - 1]
  /\ dump' = IF req.rule = dump.due
             THEN [dump EXCEPT !.times = 1, !.wrong = @ \/ dump.times = 1] ELSE dump
  /\ UNCHANGED <<kind, table, locks, link, fault>>

\* The next call begins after the rule that did not fit.
Mut_MessageFull ==
  /\ Standing
  /\ ~Skipped
  /\ req.left = 0
  /\ LET n == rule[req.rule].next
     IN  dump' = IF n = None THEN [dump EXCEPT !.bucket = (req.bucket + 1) % Size, !.id = 0]
                 ELSE [dump EXCEPT !.bucket = req.bucket, !.id = IdOf(n)]
  /\ req' = NoReq
  /\ UNCHANGED <<kind, table, locks, link, fault>>

\* The next call begins with the rule that did not fit.
MessageFull ==
  /\ Standing
  /\ ~Skipped
  /\ req.left = 0
  /\ dump' = [dump EXCEPT !.bucket = req.bucket, !.id = IdOf(req.rule),
                          !.last = IF dump.sound THEN req.rule ELSE None]
  /\ req' = NoReq
  /\ UNCHANGED <<kind, table, locks, link, fault>>

LastBucket == req.bucket + 1 = Size

NextBucket ==
  /\ Walking
  /\ req.rule = None
  /\ IF LastBucket
     THEN link.dev # "gone" /\ DumpDone /\ req' = NoReq
     ELSE /\ link.dev \in {"up", "sweep"}
          /\ req' = [req EXCEPT !.bucket = @ + 1, !.rule = head[req.bucket + 1]]
          /\ UNCHANGED dump
  /\ UNCHANGED <<kind, table, locks, link, fault>>

\* No read-side section keeps the rules, the arrays or the device.
WalkOops ==
  /\ Walking
  /\ \/ req.rule # None /\ rule[req.rule].st = "free"
     \/ req.rule = None /\ link.dev = "gone"
     \/ req.rule = None /\ link.dev = "freed" /\ ~LastBucket
  /\ Oops("use-after-free")

DumpCall == PassRule \/ FillRule \/ MessageFull \/ NextBucket \/ WalkOops

\* The five dump handlers are the same code over their own hash.
DumpPdr == kind = "pdr" /\ DumpCall
DumpFar == kind = "far" /\ DumpCall
DumpQer == kind = "qer" /\ DumpCall
DumpUrr == kind = "urr" /\ DumpCall
DumpBar == kind = "bar" /\ DumpCall

-----------------------------------------------------------------------------
\* The deletion of the link, under rtnl_lock: gtp5g_hashtable_free deletes
\* the rules bucket by bucket, waits for the sections that are open and frees
\* the arrays; then the device leaves its lists.

BeginDellink ==
  /\ Running
  /\ rtnl = "none"
  /\ link.dev = "up"
  /\ rtnl' = "link"
  /\ link' = [link EXCEPT !.dev = "sweep", !.rule = head[0]]
  /\ dump' = Upset(dump)
  /\ UNCHANGED <<kind, table, req, badReplace, fault>>

Sweeping == Running /\ link.dev = "sweep"

SweepingRule(cut) == Sweeping /\ link.rule # None /\ link.cut = cut

SweepLoads ==
  /\ SweepingRule("no")
  /\ rule[link.rule].st = "live"
  /\ ~(req.cut \in Open /\ Close(link.rule, req.rule))
  /\ link' = [link EXCEPT !.cut = "loaded"]
  /\ UNCHANGED <<kind, table, req, dump, locks, fault>>

SweepUnlinks ==
  /\ SweepingRule("loaded")
  /\ TakeOut(link.rule)
  /\ link' = [link EXCEPT !.cut = "out"]
  /\ UNCHANGED <<kind, req, locks, fault>>

\* A teardown that frees at once the rules it takes out.
Mut_SweepRule ==
  /\ SweepingRule("out")
  /\ rule' = [rule EXCEPT ![link.rule] = Dead(link.rule, FALSE)]
  /\ link' = [link EXCEPT !.cut = "done"]
  /\ UNCHANGED <<kind, head, req, dump, locks, fault>>

SweepRule ==
  /\ SweepingRule("out")
  /\ rule' = [rule EXCEPT ![link.rule] = Dead(link.rule, InSection)]
  /\ link' = [link EXCEPT !.cut = "done"]
  /\ UNCHANGED <<kind, head, req, dump, locks, fault>>

SweepNext ==
  /\ Sweeping
  /\ link.cut = "done"
  /\ rule[link.rule].st # "free"
  /\ link' = [link EXCEPT !.rule = rule[@].next, !.cut = "no"]
  /\ UNCHANGED <<kind, table, req, dump, locks, fault>>

SweepBucket ==
  /\ Sweeping
  /\ link.rule = None
  /\ link.bucket + 1 < Size
  /\ link' = [link EXCEPT !.bucket = @ + 1, !.rule = head[link.bucket + 1]]
  /\ UNCHANGED <<kind, table, req, dump, locks, fault>>

FreeArrays ==
  /\ Sweeping
  /\ link.rule = None
  /\ link.bucket + 1 = Size
  /\ ~InSection
  /\ link' = [link EXCEPT !.dev = "freed"]
  /\ UNCHANGED <<kind, table, req, dump, locks, fault>>

EndDellink ==
  /\ Running
  /\ link.dev = "freed"
  /\ link' = [link EXCEPT !.dev = "gone"]
  /\ rtnl' = "none"
  /\ UNCHANGED <<kind, table, req, dump, badReplace, fault>>

\* The sweep holds no read-side section either: a delete may be first or at
\* the same time, and the callback of the rule it stands on may run.
SweepOops ==
  /\ Sweeping
  /\ link.rule # None
  /\ \/ link.cut = "no" /\ rule[link.rule].st = "dying" /\ Oops("poison")
     \/ link.cut = "no" /\ req.cut \in Open /\ Close(link.rule, req.rule) /\ Oops("torn")
     \/ rule[link.rule].st = "free" /\ Oops("use-after-free")

Dellink ==
  \/ SweepLoads \/ SweepUnlinks \/ SweepRule
  \/ SweepNext \/ SweepBucket \/ FreeArrays \/ EndDellink \/ SweepOops

\* The RCU callback.
FreeRule(n) ==
  /\ Running
  /\ rule[n].st = "dying"
  /\ ~rule[n].wait
  /\ rule' = [rule EXCEPT ![n] = NoRule]
  /\ UNCHANGED <<kind, head, req, dump, locks, link, fault>>

-----------------------------------------------------------------------------
Handler ==
  \/ Add
  \/ GetPdr \/ GetFar \/ GetQer \/ GetUrr \/ GetBar
  \/ DelPdr \/ DelFar \/ DelQer \/ DelUrr \/ DelBar
  \/ DumpPdr \/ DumpFar \/ DumpQer \/ DumpUrr \/ DumpBar

Request ==
  \/ BeginAdd
  \/ \E op \in {"del", "get"}, name \in Name : FindRule(op, name)
  \/ FindOops
  \/ \E due \in IF Live = {} THEN {None} ELSE Live : OpenDump(due)
  \/ ContinueDump

Next == Request \/ Handler \/ BeginDellink \/ Dellink \/ \E n \in Rule : FreeRule(n)

Spec == Init /\ [][Next]_vars

\* A handler that can go on does; so does the deletion of a link, whose grace
\* period waits for no section that begins after it.  Whoever reads a dump
\* reads on, and gets genl_mutex however often others ask for it.
Fairness == WF_vars(Handler) /\ SF_vars(Dellink) /\ SF_vars(ContinueDump)
FairSpec == Spec /\ Fairness

-----------------------------------------------------------------------------
\* Properties

\* As long as the arrays exist, the buckets hold exactly the live rules, each
\* in the bucket of its name and there once, and no two of one name, whatever
\* requests come and fail while a link's deletion takes rules out.  That is
\* until a delete and the link's deletion unlink neighbours at the same time:
\* nothing keeps them apart, what they leave is no such list any more, and
\* the fault "torn" ends the run there.
HashExact ==
  link.dev \in {"up", "sweep"} =>
    /\ \A b \in Buckets : Chain(head[b]) = {n \in Live : Bucket(n) = b}
    /\ \A m, n \in Live :
         m # n => /\ rule[m].name # rule[n].name
                  /\ rule[m].next = None \/ rule[m].next # rule[n].next

\* A delete or get works on memory that is still allocated, even while the
\* link is deleted under it, as long as no two unlinks of neighbours have
\* overlapped; and nothing but the deletion of a link tears a bucket or makes
\* a handler touch freed memory, although dumps run outside read-side
\* sections.
SafeMemory ==
  /\ InSection => rule[req.rule].st # "free"
  /\ fault # "none" => link.dev # "up"

\* A dump reports every rule that was there all the time, and none twice,
\* while rules are added and deleted between its calls: if the ids tell the
\* rules of each bucket apart, if the rule it would go on with is not
\* deleted, and if the link stays.
DumpExact == ~dump.wrong

\* A dump comes to its end on the same conditions.
DumpEnds ==
  dump.at = "open" ~> dump.at # "open" \/ ~dump.sound \/ badReplace \/ fault # "none"

\* A request ends: every path gives back rtnl_lock, but for the replace of a
\* QER or a BAR and the failed replace of a PDR.  After one of those the next
\* add waits for ever, and with genl_mutex held so does everyone.
RequestEnds == req # NoReq ~> req = NoReq \/ badReplace \/ fault # "none"
=============================================================================
