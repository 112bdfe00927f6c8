------------------------------ MODULE Fixtures ------------------------------
(***************************************************************************)
(* The Neutron fixtures of NuageBaseTest (lib/test/nuage_test.py).  A test *)
(* body creates, updates and deletes networks, subnets, ports, routers,    *)
(* router interfaces and floating IPs through helpers; each create_ helper *)
(* registers the deletion of what it made with addCleanup.  When the body  *)
(* ends, however it ends, the registered deletions run, last one first,    *)
(* and none is stopped by the failure of another.                          *)
(*                                                                         *)
(* create_subnet waits, after the subnet exists and before its deletion is *)
(* registered, for the DHCP agent, another process, to serve it.           *)
(*                                                                         *)
(* Neutron refuses to delete an object that is used.  uses holds a triple  *)
(* per use: it lasts until user or via is deleted.  A port uses its        *)
(* network and its subnets, a router interface its router, subnet and      *)
(* network, and a floating IP the interface its port is reached through.   *)
(* A network takes its subnets with it.                                    *)
(***************************************************************************)
EXTENDS Naturals, Sequences, FiniteSets

CONSTANTS
  Networks, Subnets, Ports, Routers, Fips,   \* the objects a test may create
  Timeout,      \* polls within the 30 s of "DHCP port not resolved"
  Cidrs         \* how many subnets fit in the cidr of the test class

Interfaces == [router : Routers, subnet : Subnets]
Others == Networks \union Ports \union Routers \union Fips \union Interfaces
Objects == Subnets \union Others

\* No other object shares its id with a subnet.
ASSUME KindsAssumption == Subnets \intersect Others = {}
ASSUME TimeoutAssumption == Timeout \in Nat
ASSUME CidrsAssumption == Cidrs \in Nat

VARIABLES
  phase,    \* "body", "waiting" (create_subnet polls), "cleanup", "done"
  stack,    \* the registered deletions, the first registered first
  live,     \* the objects that exist in Neutron
  inside,   \* the network of a subnet, and whether a DHCP port is awaited for it
  uses,     \* the uses of live objects: [user, used, via]
  waitFor,  \* the subnet create_subnet is waiting for, and its cleanup argument
  polls,    \* polls of the wait so far
  agent,    \* whether a DHCP agent is alive
  cached,   \* dhcp_agent_present: {} until it is asked for, then the answer
  served,   \* the subnets that have a DHCP port
  errors,   \* the deletions that raised during cleanup: [object, exception]
  kept,     \* history: live objects created and not registered
  inOrder   \* history: no object was kept, none was deleted by the body, and
            \* no update made an object use a younger one

neutron == <<live, inside, uses>>
waiting == <<waitFor, polls>>
dhcp == <<agent, cached, served>>
history == <<kept, inOrder>>
vars == <<phase, stack, neutron, waiting, dhcp, errors, history>>

Registered(o) == \E i \in DOMAIN stack : stack[i] = o
Uses(user, used) == [user : {user}, used : used, via : {user}]
SubnetsIn(n) == {s \in Subnets \intersect live : inside[s].network = n}
InUse(o) == \E u \in uses : u.used = o

\* The deletion of user, or of via, comes before that of used.
Outlived(u) ==
  \E j \in DOMAIN stack : /\ stack[j] \in {u.user, u.via}
                          /\ \A i \in DOMAIN stack : stack[i] = u.used => i < j

Init ==
  /\ phase = "body" /\ stack = <<>>
  /\ live = {} /\ uses = {}
  /\ inside \in [Subnets -> [network : Networks, awaited : {FALSE}]]
  /\ waitFor \in [subnet : Subnets, cleanup : {TRUE}] /\ polls = 0
  /\ agent \in BOOLEAN /\ cached = {} /\ served = {}
  /\ errors = {} /\ kept = {} /\ inOrder = TRUE

-----------------------------------------------------------------------------
(* The create_ helpers.                                                    *)

\* A slip: the cleanups run in the order of their registration.
RegisterFirst(o, cleanup) ==
  /\ stack' = IF cleanup THEN <<o>> \o stack ELSE stack
  /\ kept' = IF cleanup THEN kept ELSE kept \union {o}
  /\ inOrder' = (inOrder /\ cleanup)

\* A slip: "if not cleanup".
RegisterInverted(o, cleanup) ==
  /\ stack' = IF cleanup THEN stack ELSE Append(stack, o)
  /\ kept' = IF cleanup THEN kept ELSE kept \union {o}
  /\ inOrder' = (inOrder /\ cleanup)

\* if cleanup: self.addCleanup(client.delete_..., o)
Register(o, cleanup) ==
  /\ stack' = IF cleanup THEN Append(stack, o) ELSE stack
  /\ kept' = IF cleanup THEN kept ELSE kept \union {o}
  /\ inOrder' = (inOrder /\ cleanup)

\* Neutron gives every object it creates an id of its own.
Fresh(o) == o \notin live /\ ~Registered(o)

Create(o, used) ==
  /\ phase = "body" /\ Fresh(o) /\ used \subseteq live
  /\ live' = live \union {o}
  /\ uses' = uses \union Uses(o, used)
  /\ UNCHANGED <<phase, waiting, dhcp, errors>>

CreateNetwork(n, cleanup) ==
  Create(n, {}) /\ Register(n, cleanup) /\ UNCHANGED inside

CreatePort(p, n, cleanup) ==
  \E S \in SUBSET SubnetsIn(n) :
    Create(p, {n} \union S) /\ Register(p, cleanup) /\ UNCHANGED inside

CreateRouter(r, cleanup) ==
  Create(r, {}) /\ Register(r, cleanup) /\ UNCHANGED inside

\* create_router_interface and router_attach: a subnet has one router.
CreateRouterInterface(r, s, cleanup) ==
  /\ \A q \in Routers : [router |-> q, subnet |-> s] \notin live
  /\ Create([router |-> r, subnet |-> s], {r, s, inside[s].network})
  /\ Register([router |-> r, subnet |-> s], cleanup) /\ UNCHANGED inside

CreateFloatingip(f, cleanup) ==
  Create(f, {}) /\ Register(f, cleanup) /\ UNCHANGED inside

-----------------------------------------------------------------------------
(* create_subnet: the loop over the CIDRs, then the wait for DHCP.         *)

\* is_dhcp_agent_present asks once per class and never again.
Present == IF cached = {} THEN {agent} ELSE cached
MustWaitIfKnown(enable_dhcp, external) == cached = {TRUE} /\ enable_dhcp /\ ~external

MustWait(enable_dhcp, external) == Present = {TRUE} /\ enable_dhcp /\ ~external

\* external: the network that is passed in says router:external.
CreateSubnet(s, n, enable_dhcp, external, cleanup) ==
  /\ phase = "body" /\ n \in live /\ Fresh(s)
  /\ Cardinality(SubnetsIn(n)) < Cidrs
  /\ live' = live \union {s}
  /\ inside' = [inside EXCEPT ![s] = [network |-> n, awaited |-> enable_dhcp /\ ~external]]
  /\ cached' = Present
  /\ \/ /\ MustWait(enable_dhcp, external)
        /\ phase' = "waiting"
        /\ waitFor' = [subnet |-> s, cleanup |-> cleanup]
        /\ polls' = 0
        /\ UNCHANGED <<stack, history>>
     \/ /\ ~MustWait(enable_dhcp, external)
        /\ Register(s, cleanup)
        /\ UNCHANGED <<phase, waiting>>
  /\ UNCHANGED <<uses, agent, served, errors>>

\* Every CIDR overlaps with another subnet: ValueError, which ends the body.
NoCidrLeft(n) ==
  /\ phase = "body" /\ n \in live
  /\ Cardinality(SubnetsIn(n)) >= Cidrs
  /\ phase' = "cleanup"
  /\ UNCHANGED <<stack, neutron, waiting, dhcp, errors, history>>

NextPollAgain == polls' = 0
NextPoll == polls' = polls + 1

\* What create_subnet knew is gone when it returns or raises.
LeaveWait ==
  /\ polls' = 0
  /\ waitFor' = [waitFor EXCEPT !.cleanup = TRUE]

AnyTime == TRUE
InTime == polls <= Timeout

PollDhcpPort ==
  /\ phase = "waiting" /\ InTime
  /\ \/ /\ waitFor.subnet \in served
        /\ phase' = "body"
        /\ Register(waitFor.subnet, waitFor.cleanup)
        /\ LeaveWait
     \/ /\ waitFor.subnet \notin served
        /\ NextPoll
        /\ UNCHANGED <<phase, stack, history, waitFor>>
  /\ UNCHANGED <<neutron, dhcp, errors>>

\* NotFound("DHCP port not resolved"): the body ends, the subnet unregistered.
RaiseNotFound ==
  /\ kept' = kept \union {waitFor.subnet}
  /\ phase' = "cleanup"
  /\ UNCHANGED <<stack, inOrder>>

DhcpNotResolved ==
  /\ phase = "waiting" /\ polls > Timeout
  /\ RaiseNotFound
  /\ LeaveWait
  /\ UNCHANGED <<neutron, dhcp, errors>>

-----------------------------------------------------------------------------
(* Updates and deletions by the body.                                      *)

AddUse(u) ==
  /\ uses' = uses \union {u}
  /\ inOrder' = (inOrder /\ Outlived(u))

\* update_port with fixed_ips on one more subnet of the network.
UpdatePort(p, s) ==
  /\ phase = "body" /\ {p, s} \subseteq live
  /\ [user |-> p, used |-> inside[s].network, via |-> p] \in uses
  /\ AddUse([user |-> p, used |-> s, via |-> p])
  /\ UNCHANGED <<phase, stack, live, inside, waiting, dhcp, errors, kept>>

\* update_floatingip with a port_id: the port must be reached by a router.
AssociateFloatingip(f, p, i) ==
  /\ phase = "body" /\ {f, p, i} \subseteq live
  /\ \A u \in uses : u.user # f
  /\ [user |-> p, used |-> i.subnet, via |-> p] \in uses
  /\ AddUse([user |-> f, used |-> i, via |-> p])
  /\ UNCHANGED <<phase, stack, live, inside, waiting, dhcp, errors, kept>>

\* A network is deleted with its subnets, anything else alone.
Removed(o) == {o} \union (IF o \in Networks THEN SubnetsIn(o) ELSE {})

Remove(o) ==
  /\ live' = live \ Removed(o)
  /\ uses' = {u \in uses : {u.user, u.used, u.via} \intersect Removed(o) = {}}
  /\ served' = served \ Removed(o)

\* delete_port, delete_router, remove_router_interface, delete_floatingip and
\* the delete methods of the clients.  Nothing is taken off the cleanups.
DeleteInBody(o) ==
  /\ phase = "body" /\ o \in live /\ ~InUse(o)
  /\ Remove(o)
  /\ kept' = kept \ Removed(o)
  /\ inOrder' = FALSE
  /\ UNCHANGED <<phase, stack, inside, waiting, agent, cached, errors>>

\* The body returns, or an assertion or a call in it raises.
EndBody ==
  /\ phase = "body"
  /\ phase' = "cleanup"
  /\ UNCHANGED <<stack, neutron, waiting, dhcp, errors, history>>

-----------------------------------------------------------------------------
(* The cleanups.                                                           *)

Last == stack[Len(stack)]
PopUnlessRaised ==
  stack' = IF Last \in live' THEN stack ELSE SubSeq(stack, 1, Len(stack) - 1)

Pop == stack' = SubSeq(stack, 1, Len(stack) - 1)
Raise(o, exception) == errors' = errors \union {[object |-> o, exception |-> exception]}

RunCleanup ==
  /\ phase = "cleanup" /\ stack # <<>>
  /\ \/ /\ Last \notin live
        /\ Raise(Last, "NotFound")
        /\ UNCHANGED <<live, uses, served, kept>>
     \/ /\ Last \in live /\ InUse(Last)
        /\ Raise(Last, "Conflict")
        /\ UNCHANGED <<live, uses, served, kept>>
     \/ /\ Last \in live /\ ~InUse(Last)
        /\ Remove(Last)
        /\ kept' = kept \ Removed(Last)
        /\ UNCHANGED errors
  /\ Pop
  /\ UNCHANGED <<phase, inside, waiting, agent, cached, inOrder>>

\* The test is over when every cleanup has run, whatever some of them raised.
EndOfCleanups == stack = <<>>

Done ==
  /\ phase = "cleanup" /\ EndOfCleanups
  /\ phase' = "done"
  /\ UNCHANGED <<stack, neutron, waiting, dhcp, errors, history>>

-----------------------------------------------------------------------------
(* The DHCP agent.                                                         *)

AgentToggle ==
  /\ phase # "done"
  /\ agent' = ~agent
  /\ UNCHANGED <<phase, stack, neutron, waiting, cached, served, errors, history>>

\* Only the ports that are awaited; nobody looks for those of external networks.
AgentServe(s) ==
  /\ agent /\ s \in live \ served /\ inside[s].awaited
  /\ served' = served \union {s}
  /\ UNCHANGED <<phase, stack, neutron, waiting, agent, cached, errors, history>>

-----------------------------------------------------------------------------
Body ==
  \/ \E cleanup \in BOOLEAN :
       \/ \E n \in Networks : CreateNetwork(n, cleanup)
       \/ \E n \in Networks, s \in Subnets, enable_dhcp, external \in BOOLEAN :
            CreateSubnet(s, n, enable_dhcp, external, cleanup)
       \/ \E p \in Ports, n \in Networks : CreatePort(p, n, cleanup)
       \/ \E r \in Routers : CreateRouter(r, cleanup)
       \/ \E r \in Routers, s \in Subnets : CreateRouterInterface(r, s, cleanup)
       \/ \E f \in Fips : CreateFloatingip(f, cleanup)
  \/ \E n \in Networks : NoCidrLeft(n)
  \/ \E p \in Ports, s \in Subnets : UpdatePort(p, s)
  \/ \E f \in Fips, p \in Ports, i \in Interfaces : AssociateFloatingip(f, p, i)
  \/ \E o \in Objects : DeleteInBody(o)
  \/ EndBody

Wait == PollDhcpPort \/ DhcpNotResolved
Agent == AgentToggle \/ \E s \in Subnets : AgentServe(s)

Next == Body \/ Wait \/ RunCleanup \/ Done \/ Agent

Spec == Init /\ [][Next]_vars

\* create_subnet polls and the cleanups run as long as the process does; the
\* body and the agent owe no step.
FairSpec == Spec /\ WF_vars(Wait) /\ WF_vars(RunCleanup) /\ WF_vars(Done)

-----------------------------------------------------------------------------
(* Properties.                                                             *)

\* Objects are known, uses are uses of objects by objects, and the wait of
\* create_subnet polls at most once after its time is up.
TypeOK ==
  /\ phase \in {"body", "waiting", "cleanup", "done"}
  /\ stack \in Seq(Objects)
  /\ live \subseteq Objects
  /\ inside \in [Subnets -> [network : Networks, awaited : BOOLEAN]]
  /\ uses \subseteq [user : Objects, used : Objects, via : Objects]
  /\ waitFor \in [subnet : Subnets, cleanup : BOOLEAN]
  /\ polls \in 0 .. Timeout + 1
  /\ agent \in BOOLEAN /\ cached \in SUBSET BOOLEAN
  /\ served \subseteq Subnets \intersect live
  /\ errors \subseteq [object : Objects, exception : {"NotFound", "Conflict"}]
  /\ kept \subseteq live
  /\ inOrder \in BOOLEAN

\* A body that leaves deletion to the helpers and builds on older objects only
\* is torn down without an error and without a leftover, wherever it stopped:
\* also when the wait for DHCP gave up on a subnet it had not registered.
TeardownIsClean ==
  phase = "done" /\ inOrder => errors = {} /\ live = {}

\* Whatever the body did, an object left behind by the cleanups is one the
\* test chose not to register, the subnet of a failed wait, which was reported,
\* or one whose deletion was reported to fail.
NothingLeftSilently ==
  phase = "done" =>
    live \subseteq kept \union {e.object : e \in {d \in errors : d.exception = "Conflict"}}

\* When the class knows of a DHCP agent, a subnet with enable_dhcp is handed to
\* the body only once it is served, unless its network is external.
BodySeesServedSubnets ==
  phase = "body" /\ cached = {TRUE} =>
    \A s \in Subnets \intersect live : inside[s].awaited => s \in served

\* create_subnet comes back within its time, whatever the DHCP agent does.
WaitEnds == phase = "waiting" ~> phase # "waiting"

\* Every registered deletion gets its turn, and the test is over, even when
\* some deletions keep failing.
TeardownEnds == phase = "cleanup" ~> phase = "done"
=============================================================================
