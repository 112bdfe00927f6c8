------------------------------- MODULE Mixins -------------------------------
(***************************************************************************)
(* The resource mixins (lib/mixins, services/vpnaas/vpnaas_mixins.py and   *)
(* services/fwaas/fwaas_mixins.py).  A test gets an object in one of two   *)
(* ways: from a create_ helper, which registers its deletion with          *)
(* addCleanup, or in the scope of a context manager, whose finally deletes *)
(* it.  Scopes are left innermost first, in the body or when it raises;    *)
(* then the cleanups run, the last one registered first.                   *)
(*                                                                         *)
(* Each request is made by the tenant or by the admin.  Most helpers take  *)
(* as_admin, some do not hand it on to the deletion, and most deletions    *)
(* ignore NotFound, which is also what a tenant gets for an admin's object.*)
(* A firewall takes a while to go: its deletion waits for the agent.       *)
(***************************************************************************)
EXTENDS Naturals, Sequences

CONSTANTS
  Copies,   \* bound: objects of a kind
  MaxMade,  \* bound: helpers a test calls
  Givens,   \* the kinds of objects that a class may have made before the test
  Timeout   \* seconds, and polls, in build_timeout

-----------------------------------------------------------------------------
(* The clients: the kind each creates, and what the creation names.        *)

Makes(kind, needs) == {[kind |-> kind, needs |-> needs]}

BGPVPNClient == Makes("bgpvpn", {})
BGPVPNNetworkAssociationClient == Makes("network_association", {"bgpvpn", "network"})
BGPVPNRouterAssociationClient == Makes("router_association", {"bgpvpn", "router"})
SwitchportMappingClient == Makes("switchport_mapping", {})
IKEPolicyClient == Makes("ikepolicy", {})
IPSecPolicyClient == Makes("ipsecpolicy", {})
VPNServiceClient == Makes("vpnservice", {"router", "subnet"})
IPSecSiteConnectionClient == Makes("connection", {"vpnservice", "ikepolicy", "ipsecpolicy"})
FirewallRulesClient == Makes("fw_rule", {})
FirewallPoliciesClient == Makes("fw_policy", {"fw_rule"})
FirewallsClient == Makes("firewall", {"fw_policy"})
TrunkClient == Makes("trunk", {"port"})
SubportsAction == Makes("subports", {"trunk"})
TempestClients ==
  Makes("network", {}) \union Makes("subnet", {"network"}) \union Makes("port", {"network"})
  \union Makes("router", {}) \union Makes("interface", {"router", "subnet"})
  \union Makes("floatingip", {"network"})
  \union Makes("security_group", {}) \union Makes("rule", {"security_group"})

Clients ==
  TempestClients \union BGPVPNClient \union BGPVPNNetworkAssociationClient
  \union BGPVPNRouterAssociationClient \union SwitchportMappingClient
  \union IKEPolicyClient \union IPSecPolicyClient \union VPNServiceClient
  \union IPSecSiteConnectionClient \union FirewallRulesClient
  \union FirewallPoliciesClient \union FirewallsClient \union TrunkClient
  \union SubportsAction

Kinds == {c.kind : c \in Clients}
Needs(k) == UNION {c.needs : c \in {d \in Clients : d.kind = k}}
\* A port has an address of each subnet of its network.
NeedsAddressed(k) == Needs(k) \union IF k = "port" THEN {"subnet"} ELSE {}

Objects == Kinds \X (1 .. Copies)
Kind(o) == o[1]
Of(k) == {k} \X (1 .. Copies)

ASSUME BoundsAssumption == Copies \in Nat \ {0} /\ {MaxMade, Timeout} \subseteq Nat
ASSUME GivensAssumption == Givens \subseteq SUBSET Kinds

VARIABLES
  phase,       \* "body", "unwinding", "cleanup", "waiting" (for a firewall), "done"
  has_primary, \* whether the class has tenant credentials
  scopes,      \* the deletions of the scopes the body is in, innermost first, and
  cleanups,    \* the registered ones, last in first out: of an object, by the
               \* tenant or the admin, whether to ignore NotFound, and of what first
  calls,       \* helpers called
  given, live, \* the class's objects, and all that exist
  uses,        \* what each object stands on
  owner,       \* whose each is: the tenant's or the admin's
  firewalls,   \* those in PENDING_DELETE, and in ERROR
  polls,       \* of _wait_firewall_while
  reported,    \* the objects whose deletion raised
  made,        \* history: what the test has made
  kept,        \* history: what it made without a deletion, or with one that does
               \* not find it
  untidy       \* history: see TidyIsClean

neutron == <<live, uses, owner, firewalls>>
test == <<scopes, cleanups, calls, given, has_primary>>
history == <<made, kept, untidy>>
vars == <<phase, test, neutron, polls, reported, history>>

Init ==
  /\ phase = "body" /\ has_primary \in BOOLEAN
  /\ scopes = <<>> /\ cleanups = <<>> /\ calls = 0
  /\ \E K \in Givens : given = K \X {1}
  /\ live = given /\ owner = [o \in Objects |-> "tenant"]
  /\ uses = [o \in Objects |->
               IF o \in given THEN {b \in given : Kind(b) \in NeedsAddressed(Kind(o))} ELSE {}]
  /\ firewalls = [pending |-> {}, error |-> {}] /\ polls = 0
  /\ reported = {} /\ made = {} /\ kept = {} /\ untidy = FALSE

-----------------------------------------------------------------------------
(* Neutron.                                                                *)

Visible(o, by) == o \in live /\ (by = "admin" \/ owner[o] = "tenant")

\* One object of each kind needed; a floating network is anyone's.
Bases(k, by) ==
  {B \in {{<<j, f[j]>> : j \in Needs(k)} : f \in [Needs(k) -> 1 .. Copies]} :
     \A b \in B : Visible(b, IF k = "floatingip" THEN "admin" ELSE by)}

Addressed(k, B) == {s \in live \intersect Of("subnet") : k = "port" /\ uses[s] \intersect B # {}}

\* What goes with an object; any other use of them is in the way.
Taken == {"subnet", "rule", "subports", "network_association", "router_association"}
Carried(o) == {u \in live : Kind(u) \in Taken /\ o \in uses[u]}
InUse(o, gone) ==
  \E u \in live \ (gone \union Carried(o)) : uses[u] \intersect ({o} \union Carried(o)) # {}

\* The owner is the one who asks, or whom an admin names.  An interface is found
\* by who sees its router, subports by who sees the trunk.
Owners(k, by, B) ==
  IF k = "interface" THEN {owner[b] : b \in {c \in B : Kind(c) = "router"}}
  ELSE IF k = "subports" THEN {owner[b] : b \in B}
  ELSE {"tenant", by}

Free(k) == Of(k) \ (given \union made)
Fresh(k) == CHOOSE o \in Free(k) : TRUE

Posted(o, by, B) ==
  /\ live' = live \union {o}
  /\ \E w \in Owners(Kind(o), by, B) : owner' = [owner EXCEPT ![o] = w]
  /\ uses' = [uses EXCEPT ![o] = B \union Addressed(Kind(o), B)]
  /\ made' = made \union {o}
  /\ UNCHANGED firewalls

-----------------------------------------------------------------------------
(* The two ways to an object.                                              *)

\* net_client, subnet_client and so on.
Client(as_admin) == IF as_admin \/ ~has_primary THEN "admin" ELSE "tenant"
\* These helpers have a client of each credential, and no choice otherwise.
Direct(as_admin) == IF as_admin THEN "admin" ELSE "tenant"

Delete(o, by, ignore) == [object |-> o, by |-> by, ignore |-> ignore, first |-> {}]

DeleteNetwork(o, as_admin) == Delete(o, Client(as_admin), TRUE)
DeleteSubnet(o, as_admin) == Delete(o, Client(as_admin), TRUE)
DeletePort(o, as_admin) == Delete(o, Client(as_admin), TRUE)
DeleteTrunk(o, as_admin) == Delete(o, Client(as_admin), TRUE)
RemoveSubports(o, as_admin) == Delete(o, Client(as_admin), TRUE)
DeleteRouter(o, as_admin) == Delete(o, Client(as_admin), TRUE)
RemoveRouterInterface(o, as_admin) == Delete(o, Client(as_admin), TRUE)
DeleteFloatingip(o, as_admin) == Delete(o, Client(as_admin), TRUE)
DeleteSecurityGroup(o, as_admin) == Delete(o, Client(as_admin), TRUE)
DeleteSecurityGroupRule(o, as_admin) == Delete(o, Client(as_admin), TRUE)

Calling(k) == phase = "body" /\ calls < MaxMade /\ Free(k) # {}
Called == calls' = calls + 1 /\ UNCHANGED <<given, has_primary, polls, reported>>

Scoped == {e.object : e \in {scopes[i] : i \in DOMAIN scopes}}

\* The helpers, and the context managers, that do not hand as_admin on: an admin's
\* object is then not there for its deletion.
HelpersDropping == {"port", "router", "floatingip", "trunk", "rule"}
ScopesDropping == {"subnet", "port", "router", "floatingip", "rule"}
Unseen(deletion, dropping) ==
  {o \in {deletion.object} \intersect (dropping \X (1 .. Copies)) :
     owner'[o] = "admin" /\ deletion.by = "tenant"}

\* A create_ helper: the request, then addCleanup.
Create(k, by, deletion) ==
  /\ Calling(k)
  /\ \E B \in Bases(k, by) :
       /\ Posted(Fresh(k), by, B)
       /\ kept' = kept \union Unseen(deletion, HelpersDropping)
       /\ untidy' = (untidy \/ uses'[Fresh(k)] \intersect Scoped # {}
                     \/ Unseen(deletion, HelpersDropping) # {})
  /\ cleanups' = <<deletion>> \o cleanups
  /\ Called /\ UNCHANGED <<phase, scopes>>

\* A context manager: the request, yield, and the deletion in its finally.
Scope(k, by, deletion) ==
  /\ Calling(k)
  /\ \E B \in Bases(k, by) : Posted(Fresh(k), by, B)
  /\ kept' = kept \union Unseen(deletion, ScopesDropping)
  /\ untidy' = (untidy \/ Unseen(deletion, ScopesDropping) # {})
  /\ scopes' = <<deletion>> \o scopes
  /\ Called /\ UNCHANGED <<phase, cleanups>>

\* The request, and no deletion.
WithoutDeletion(k, by) ==
  /\ Calling(k)
  /\ \E B \in Bases(k, by) : Posted(Fresh(k), by, B)
  /\ kept' = kept \union {Fresh(k)} /\ untidy' = TRUE
  /\ Called /\ UNCHANGED <<phase, scopes, cleanups>>

-----------------------------------------------------------------------------
(* NetworkMixin, L3Mixin, SGMixin.                                         *)

NetworkScope(a) == Scope("network", Client(a), DeleteNetwork(Fresh("network"), a))
\* A slip: the deletion is registered without as_admin.
NetworkAsTenant(a) == Create("network", Client(a), DeleteNetwork(Fresh("network"), FALSE))
CreateNetwork(a) == Create("network", Client(a), DeleteNetwork(Fresh("network"), a))

SubnetScope(a) == Scope("subnet", Client(a), DeleteSubnet(Fresh("subnet"), FALSE))
CreateSubnet(a) == Create("subnet", Client(a), DeleteSubnet(Fresh("subnet"), a))

PortScope(a) == Scope("port", Client(a), DeletePort(Fresh("port"), FALSE))
CreatePort(a) == Create("port", Client(a), DeletePort(Fresh("port"), FALSE))

\* The deletion of the trunk, and that of its subports before it.
CreateTrunk(a, with_subports) ==
  LET trunk == Fresh("trunk")
      subports == IF with_subports THEN {Fresh("subports")} ELSE {}
      O == {trunk} \union subports
      by == Client(a)
      deletion == DeleteTrunk(trunk, FALSE)
  IN /\ Calling("trunk") /\ (with_subports => Free("subports") # {})
     /\ \E B \in Bases("trunk", by), w \in {"tenant", by} :
          /\ live' = live \union O /\ made' = made \union O
          /\ owner' = [o \in Objects |-> IF o \in O THEN w ELSE owner[o]]
          /\ uses' = [o \in Objects |-> IF o = trunk THEN B
                                        ELSE IF o \in subports THEN {trunk} ELSE uses[o]]
          /\ kept' = kept \union Unseen(deletion, HelpersDropping)
          /\ untidy' = (untidy \/ B \intersect Scoped # {}
                        \/ Unseen(deletion, HelpersDropping) # {})
     /\ cleanups' = (IF with_subports THEN <<RemoveSubports(Fresh("subports"), a)>> ELSE <<>>)
                    \o <<deletion>> \o cleanups
     /\ Called /\ UNCHANGED <<phase, scopes, firewalls>>

AddSubports(a) == Create("subports", Client(a), RemoveSubports(Fresh("subports"), a))

CreateRouter(a) == Create("router", Client(a), DeleteRouter(Fresh("router"), FALSE))
AddRouterInterface(a) == Create("interface", Client(a), RemoveRouterInterface(Fresh("interface"), a))

\* A router scope registers what its finally deletes as well; the finally takes
\* the interface off first, even one that add_router_interface did not add.
RouterScope(a, attached, added) ==
  LET router == Fresh("router")
      interfaces == IF attached THEN {Fresh("interface")} ELSE {}
      registered == IF added THEN interfaces ELSE {}
      O == {router} \union registered
      by == Client(a)
      deletion == DeleteRouter(router, FALSE)
      subnets == {s \in Of("subnet") : Visible(s, by) \/ ~attached}
  IN /\ Calling("router") /\ (attached => Free("interface") # {}) /\ (added \/ attached)
     /\ \E s \in subnets, w \in {"tenant", by} :
          /\ live' = live \union O /\ made' = made \union O
          /\ owner' = [o \in Objects |-> IF o \in O THEN w ELSE owner[o]]
          /\ uses' = [o \in Objects |-> IF o \in registered THEN {router, s} ELSE uses[o]]
     /\ kept' = kept \union Unseen(deletion, ScopesDropping)
     /\ untidy' = (untidy \/ ~added \/ Unseen(deletion, ScopesDropping) # {})
     /\ cleanups' = (IF attached /\ added THEN <<RemoveRouterInterface(Fresh("interface"), a)>>
                     ELSE <<>>) \o <<deletion>> \o cleanups
     /\ scopes' = <<[deletion EXCEPT !.first = interfaces]>> \o scopes
     /\ phase' = IF added THEN "body" ELSE "unwinding"
     /\ Called /\ UNCHANGED firewalls

\* Without cleanup=True, nothing deletes a floating IP.
CreateFloatingip(a, cleanup) ==
  IF cleanup THEN Create("floatingip", Client(a), DeleteFloatingip(Fresh("floatingip"), FALSE))
  ELSE WithoutDeletion("floatingip", Client(a))
FloatingipScope(a) == Scope("floatingip", Client(a), DeleteFloatingip(Fresh("floatingip"), FALSE))

\* setup_clients puts a client where sg_client() was: with tenant credentials
\* there is no method to call, and every helper raises a TypeError.
SgClient == ~has_primary
SecurityGroupScope(a) ==
  SgClient /\ Scope("security_group", Client(a), DeleteSecurityGroup(Fresh("security_group"), a))
CreateSecurityGroup(a) ==
  SgClient /\ Create("security_group", Client(a), DeleteSecurityGroup(Fresh("security_group"), a))
RuleScope(a) == SgClient /\ Scope("rule", Client(a), DeleteSecurityGroupRule(Fresh("rule"), FALSE))
CreateSecurityGroupRule(a) ==
  SgClient /\ Create("rule", Client(a), DeleteSecurityGroupRule(Fresh("rule"), FALSE))

-----------------------------------------------------------------------------
(* BGPVPNMixin, NetTopologyMixin, VPNMixin, FWaaSClientMixin.  These delete *)
(* with the client that created, and a scope of theirs raises NotFound.    *)

\* With do_delete=False the deletion is left to the test.
SameClient(k, by) ==
  has_primary /\ (Scope(k, by, Delete(Fresh(k), by, FALSE)) \/ WithoutDeletion(k, by))

Bgpvpn(a) == SameClient("bgpvpn", Direct(a))
RouterAssociation(a) == SameClient("router_association", Direct(a))
NetworkAssociation(a) == SameClient("network_association", Direct(a))
SwitchportMapping == SameClient("switchport_mapping", "admin")

\* The admin's VPN clients have the tenant's auth_provider.
Ikepolicy == SameClient("ikepolicy", "tenant")
Ipsecpolicy == SameClient("ipsecpolicy", "tenant")
Vpnservice == SameClient("vpnservice", "tenant")
Ipsecsiteconnection == SameClient("connection", "tenant")

CreateFirewallRule == has_primary /\ Create("fw_rule", "tenant", Delete(Fresh("fw_rule"), "tenant", TRUE))
CreateFirewallPolicy ==
  has_primary /\ Create("fw_policy", "tenant", Delete(Fresh("fw_policy"), "tenant", TRUE))
CreateFirewall == has_primary /\ Create("firewall", "tenant", Delete(Fresh("firewall"), "tenant", TRUE))

\* A rule in a policy cannot be deleted; the deletion of the later one comes first.
InsertFirewallRuleInPolicy(p, r) ==
  /\ phase = "body" /\ p \in live /\ r \in live
  /\ uses' = [uses EXCEPT ![p] = @ \union {r}]
  /\ untidy' = TRUE
  /\ UNCHANGED <<phase, test, live, owner, firewalls, polls, reported, made, kept>>

RemoveFirewallRuleFromPolicy(p, r) ==
  /\ phase = "body" /\ p \in live /\ r \in uses[p]
  /\ uses' = [uses EXCEPT ![p] = @ \ {r}]
  /\ UNCHANGED <<phase, test, live, owner, firewalls, polls, reported, history>>

-----------------------------------------------------------------------------
(* Deletions.                                                              *)

\* A slip: the router and not its interfaces.
NothingFirst(e) == {}
\* The interfaces of a router scope.
First(e) == e.first

Fails(o, e, gone) ==
  IF Visible(o, e.by) THEN InUse(o, gone) ELSE (o \in First(e) \/ ~e.ignore)

\* One after the other; what fails leaves the rest alone.
Deletion(e) ==
  /\ \/ \E i \in First(e) : Fails(i, e, {}) /\ reported' = reported \union {i} /\ UNCHANGED live
     \/ /\ \A i \in First(e) : ~Fails(i, e, {})
        /\ Fails(e.object, e, First(e))
        /\ reported' = reported \union {e.object}
        /\ live' = live \ First(e)
     \/ /\ \A i \in First(e) : ~Fails(i, e, {})
        /\ ~Fails(e.object, e, First(e))
        /\ live' = live \ (First(e) \union IF Visible(e.object, e.by)
                                          THEN {e.object} \union Carried(e.object) ELSE {})
        /\ UNCHANGED reported
  /\ UNCHANGED <<uses, owner>>

\* A test deletes a helper's object itself, or what has no deletion; the others' are
\* in a scope.
Ignored == {c.kind : c \in TempestClients} \union {"trunk", "subports"}
NotIgnored == {e.object : e \in {f \in {scopes[i] : i \in DOMAIN scopes} : ~f.ignore}}
              \union UNION {scopes[i].first : i \in DOMAIN scopes}
DeleteInBody(o) ==
  /\ phase = "body" /\ o \in live \intersect made /\ (Kind(o) \in Ignored \/ o \in kept)
  /\ \E by \in {Client(TRUE), Client(FALSE)} : Visible(o, by)
  /\ ~InUse(o, {})
  /\ live' = live \ ({o} \union Carried(o))
  /\ untidy' = (untidy \/ ({o} \union Carried(o)) \intersect NotIgnored # {})
  /\ UNCHANGED <<phase, test, uses, owner, firewalls, polls, reported, made, kept>>

\* An assertion, a request, or a helper that only raises: trunk() hands as_admin
\* to a client that does not take it.
BodyRaises ==
  /\ phase = "body" /\ phase' = "unwinding"
  /\ UNCHANGED <<test, neutron, polls, reported, history>>

\* A with statement ends, or an exception goes through it.
LeaveScope ==
  /\ phase \in {"body", "unwinding"} /\ scopes # <<>>
  /\ Deletion(Head(scopes))
  /\ scopes' = Tail(scopes)
  /\ phase' = IF reported' = reported THEN phase ELSE "unwinding"
  /\ UNCHANGED <<cleanups, calls, given, has_primary, firewalls, polls, history>>

EndBody ==
  /\ phase \in {"body", "unwinding"} /\ scopes = <<>>
  /\ phase' = "cleanup"
  /\ UNCHANGED <<test, neutron, polls, reported, history>>

\* doCleanups reports what a cleanup raises and runs the next.
RunCleanup ==
  /\ phase = "cleanup" /\ cleanups # <<>>
  /\ Kind(Head(cleanups).object) # "firewall"
  /\ Deletion(Head(cleanups))
  /\ cleanups' = Tail(cleanups)
  /\ UNCHANGED <<phase, scopes, calls, given, has_primary, firewalls, polls, history>>

EndCleanup ==
  /\ phase = "cleanup" /\ cleanups = <<>>
  /\ phase' = "done"
  /\ UNCHANGED <<test, neutron, polls, reported, history>>

-----------------------------------------------------------------------------
(* delete_firewall_and_wait.                                               *)

Firewall == Head(cleanups).object

DeleteFirewall ==
  /\ phase = "cleanup" /\ cleanups # <<>> /\ Kind(Firewall) = "firewall"
  /\ firewalls' = [firewalls EXCEPT !.pending = @ \union {Firewall}]
  /\ phase' = "waiting" /\ polls' = 0
  /\ UNCHANGED <<test, live, uses, owner, reported, history>>

\* The agent of the firewall deletes it, or cannot.
AgentDeletesFirewall(o) ==
  /\ o \in firewalls.pending /\ o \in live
  /\ live' = live \ {o} /\ firewalls' = [firewalls EXCEPT !.pending = @ \ {o}]
  /\ UNCHANGED <<phase, test, uses, owner, polls, reported, history>>
AgentFails(o) ==
  /\ o \in firewalls.pending
  /\ firewalls' = [pending |-> firewalls.pending \ {o}, error |-> firewalls.error \union {o}]
  /\ untidy' = TRUE
  /\ UNCHANGED <<phase, test, live, uses, owner, polls, reported, made, kept>>

NextCleanup == phase' = "cleanup" /\ cleanups' = Tail(cleanups)

\* Not found, or no longer PENDING_DELETE: that includes ERROR.
FirewallIsGone ==
  /\ phase = "waiting" /\ Firewall \notin firewalls.pending
  /\ NextCleanup
  /\ UNCHANGED <<scopes, calls, given, has_primary, neutron, polls, reported, history>>

\* A slip: the start is taken anew in each turn of the loop.
StartAgain == polls' = 0
\* A slip: the time of the request is added to the clock's.
SleptTwice == polls' = polls + 2
Slept == polls' = polls + 1

WaitFirewall ==
  /\ phase = "waiting" /\ Firewall \in firewalls.pending /\ polls < Timeout
  /\ Slept
  /\ UNCHANGED <<phase, test, neutron, reported, history>>

FirewallTimeout ==
  /\ phase = "waiting" /\ Firewall \in firewalls.pending /\ polls >= Timeout
  /\ reported' = reported \union {Firewall} /\ untidy' = TRUE
  /\ NextCleanup
  /\ UNCHANGED <<scopes, calls, given, has_primary, neutron, polls, made, kept>>

-----------------------------------------------------------------------------
Helpers(a) ==
  \/ NetworkScope(a) \/ CreateNetwork(a) \/ SubnetScope(a) \/ CreateSubnet(a)
  \/ PortScope(a) \/ CreatePort(a) \/ CreateRouter(a) \/ AddRouterInterface(a)
  \/ AddSubports(a) \/ FloatingipScope(a)
  \/ \E b, c \in BOOLEAN : RouterScope(a, b, c) \/ CreateTrunk(a, b) \/ CreateFloatingip(a, b)
  \/ SecurityGroupScope(a) \/ CreateSecurityGroup(a) \/ RuleScope(a) \/ CreateSecurityGroupRule(a)
  \/ Bgpvpn(a) \/ RouterAssociation(a) \/ NetworkAssociation(a)
  \/ SwitchportMapping \/ Ikepolicy \/ Ipsecpolicy \/ Vpnservice \/ Ipsecsiteconnection
  \/ CreateFirewallRule \/ CreateFirewallPolicy \/ CreateFirewall

Body ==
  \/ \E a \in BOOLEAN : Helpers(a)
  \/ \E o \in Objects : DeleteInBody(o)
  \/ \E p \in Of("fw_policy"), r \in Of("fw_rule") :
       InsertFirewallRuleInPolicy(p, r) \/ RemoveFirewallRuleFromPolicy(p, r)
  \/ BodyRaises

Step ==
  \/ LeaveScope \/ EndBody \/ RunCleanup \/ EndCleanup
  \/ DeleteFirewall \/ FirewallIsGone \/ WaitFirewall \/ FirewallTimeout

Agent == \E o \in Of("firewall") : AgentDeletesFirewall(o) \/ AgentFails(o)

Next == Body \/ Step \/ Agent

\* Requests are answered and the test runs on; the agent may never do anything.
Spec == Init /\ [][Next]_vars /\ WF_vars(Step)

-----------------------------------------------------------------------------
(* Properties.                                                             *)

\* Variables keep their kind; a deletion is planned only for what was made, or
\* for an interface whose addition failed.
TypeOK ==
  /\ phase \in {"body", "unwinding", "cleanup", "waiting", "done"}
  /\ has_primary \in BOOLEAN /\ untidy \in BOOLEAN /\ calls \in 0 .. MaxMade
  /\ \A e \in {scopes[i] : i \in DOMAIN scopes} \union {cleanups[i] : i \in DOMAIN cleanups} :
       e.object \in made /\ e.by \in {"tenant", "admin"} /\ e.first \subseteq Objects
  /\ live \subseteq given \union made /\ made \subseteq Objects /\ given \intersect made = {}
  /\ uses \in [Objects -> SUBSET Objects] /\ owner \in [Objects -> {"tenant", "admin"}]
  /\ firewalls.pending \union firewalls.error \union kept \subseteq made
  /\ polls \in 0 .. Timeout

\* After the cleanups, what a test has made is gone, unless a deletion raised, the
\* agent gave up on the firewall, the test asked for no deletion, or it is the admin's
\* and its helper deletes as the tenant, to whom it is not there.
NothingLeftSilently ==
  phase = "done" => live \intersect made \subseteq reported \union kept \union firewalls.error

\* Scopes and cleanups undo a test in any mix and wherever it raises, if what is
\* registered stands on nothing scoped, and no helper drops as_admin, adds an
\* interface in vain, keeps an object, or meets an agent that fails: nothing is
\* reported, and only the class's objects are left.
TidyIsClean == phase = "done" /\ ~untidy => reported = {} /\ live = given

\* A test that raises comes to its end, whatever the firewall agent does.
CleanupEnds == phase = "unwinding" ~> phase = "done"
=============================================================================
