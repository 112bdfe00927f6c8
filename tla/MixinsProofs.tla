---------------------------- MODULE MixinsProofs ----------------------------
(***************************************************************************)
(* Theorems about Mixins: what a test has made and what becomes of it.     *)
(*                                                                         *)
(* Why nothing is left silently: each object that is there and that the    *)
(* test made is accounted for.  Its deletion is planned, in a scope or     *)
(* among the cleanups, or it was reported, or kept, or its firewall agent  *)
(* failed, or it is the admin's and its helper deletes as the tenant.  A   *)
(* deletion that is carried out takes the object away, reports it, or is   *)
(* the tenant's for an admin's object, which no helper but those that drop *)
(* as_admin can plan.                                                      *)
(***************************************************************************)
EXTENDS Mixins, SequenceTheorems, TLAPS

Roles == {"tenant", "admin"}
Deletions == [object : Objects, by : Roles, ignore : BOOLEAN, first : SUBSET Objects]
Elements(s) == {s[i] : i \in DOMAIN s}
ObjectsOf(s) == {e.object : e \in Elements(s)}

\* What the variables hold.
PlanTypes ==
  /\ scopes \in Seq(Deletions) /\ cleanups \in Seq(Deletions)
  /\ \A e \in Elements(scopes) \union Elements(cleanups) : e.object \in made
CloudTypes ==
  /\ given \subseteq Objects /\ made \subseteq Objects /\ given \intersect made = {}
  /\ live \subseteq given \union made
  /\ uses \in [Objects -> SUBSET Objects] /\ owner \in [Objects -> Roles]
  /\ firewalls \in [pending : SUBSET made, error : SUBSET made]
  /\ kept \subseteq made
ControlTypes ==
  /\ phase \in {"body", "unwinding", "cleanup", "waiting", "done"}
  /\ has_primary \in BOOLEAN /\ untidy \in BOOLEAN
  /\ calls \in 0 .. MaxMade /\ polls \in 0 .. Timeout

Types == PlanTypes /\ CloudTypes /\ ControlTypes

-----------------------------------------------------------------------------
(* Sequences as stacks.                                                    *)

LEMMA Single == ASSUME NEW S, NEW e \in S PROVE <<e>> \in Seq(S)
OBVIOUS

LEMMA Pushed ==
  ASSUME NEW S, NEW s \in Seq(S), NEW e \in S
  PROVE  /\ <<e>> \o s \in Seq(S) /\ <<e>> \o s # <<>>
         /\ Elements(<<e>> \o s) = {e} \union Elements(s)
         /\ Len(<<e>> \o s) = Len(s) + 1 /\ DOMAIN (<<e>> \o s) = 1 .. Len(s) + 1
         /\ (<<e>> \o s)[1] = e
         /\ \A i \in 1 .. Len(s) : (<<e>> \o s)[i + 1] = s[i]
<1> DEFINE t == <<e>> \o s
<1>1. <<e>> \in Seq(S) /\ Len(<<e>>) = 1 /\ <<e>>[1] = e
  OBVIOUS
<1>2. /\ t \in Seq(S) /\ Len(t) = Len(s) + 1 /\ Len(s) \in Nat
      /\ \A i \in 1 .. Len(s) + 1 : t[i] = IF i <= 1 THEN <<e>>[i] ELSE s[i - 1]
  BY <1>1, ConcatProperties, LenProperties
<1>3. DOMAIN t = 1 .. Len(s) + 1 /\ DOMAIN s = 1 .. Len(s)
  BY <1>2, LenProperties
<1> HIDE DEF t
<1>4. t[1] = e /\ \A i \in 1 .. Len(s) : t[i + 1] = s[i]
  BY <1>1, <1>2
<1>5. \A i \in DOMAIN t : i = 1 \/ (i - 1 \in 1 .. Len(s) /\ t[i] = s[i - 1])
  BY <1>2, <1>3
<1>6. Elements(t) = {e} \union Elements(s)
  <2>1. ASSUME NEW i \in DOMAIN t PROVE t[i] = e \/ t[i] \in Elements(s)
    BY <1>3, <1>4, <1>5 DEF Elements
  <2>2. ASSUME NEW i \in DOMAIN s PROVE s[i] \in Elements(t)
    <3>1. i + 1 \in DOMAIN t /\ t[i + 1] = s[i]
      BY <1>2, <1>3, <1>4
    <3> QED
      BY <3>1 DEF Elements
  <2>3. e \in Elements(t)
    BY <1>2, <1>3, <1>4 DEF Elements
  <2> QED
    BY <2>1, <2>2, <2>3 DEF Elements
<1>7. t # <<>>
  BY <1>2, EmptySeq
<1> QED
  BY <1>2, <1>3, <1>4, <1>6, <1>7 DEF t

LEMMA Popped ==
  ASSUME NEW S, NEW s \in Seq(S), s # <<>>
  PROVE  /\ Head(s) \in S /\ Tail(s) \in Seq(S)
         /\ Elements(s) = {Head(s)} \union Elements(Tail(s))
         /\ Len(s) \in Nat \ {0} /\ DOMAIN s = 1 .. Len(s)
         /\ DOMAIN Tail(s) = 1 .. Len(s) - 1
         /\ Head(s) = s[1]
         /\ \A i \in 1 .. Len(s) - 1 : Tail(s)[i] = s[i + 1]
<1>1. /\ Head(s) \in S /\ Tail(s) \in Seq(S) /\ Head(s) = s[1]
      /\ Len(s) \in Nat \ {0} /\ DOMAIN s = 1 .. Len(s)
      /\ Len(Tail(s)) = Len(s) - 1
      /\ \A i \in 1 .. Len(Tail(s)) : Tail(s)[i] = s[i + 1]
  BY HeadTailProperties, EmptySeq, LenProperties
<1>2. DOMAIN Tail(s) = 1 .. Len(s) - 1
  BY <1>1, LenProperties
<1>3. \A i \in DOMAIN s : i = 1 \/ (i - 1 \in DOMAIN Tail(s) /\ Tail(s)[i - 1] = s[i])
  <2> SUFFICES ASSUME NEW i \in 2 .. Len(s)
               PROVE  i - 1 \in 1 .. Len(s) - 1 /\ Tail(s)[i - 1] = s[i]
    BY <1>1, <1>2
  <2>1. i - 1 \in 1 .. Len(Tail(s)) /\ (i - 1) + 1 = i
    BY <1>1
  <2> QED
    BY <1>1, <2>1
<1>4. Elements(s) = {Head(s)} \union Elements(Tail(s))
  <2> DEFINE t == Tail(s)
             h == Head(s)
  <2> HIDE DEF t, h
  <2>1. ASSUME NEW i \in DOMAIN t PROVE t[i] \in Elements(s)
    <3>1. i + 1 \in DOMAIN s /\ t[i] = s[i + 1]
      BY <1>1, <1>2 DEF t
    <3> QED
      BY <3>1 DEF Elements
  <2>2. h \in Elements(s)
    <3>1. 1 \in DOMAIN s /\ h = s[1]
      BY <1>1 DEF h
    <3> QED
      BY <3>1 DEF Elements
  <2>3. ASSUME NEW i \in DOMAIN s PROVE s[i] = h \/ s[i] \in Elements(t)
    BY <1>1, <1>3 DEF Elements, t, h
  <2>4. Elements(s) = {h} \union Elements(t)
    BY <2>1, <2>2, <2>3 DEF Elements
  <2> QED
    BY <2>4 DEF t, h
<1> QED
  BY <1>1, <1>2, <1>4

LEMMA TwicePushed ==
  ASSUME NEW S, NEW s \in Seq(S), NEW d \in S, NEW r \in S
  PROVE  /\ <<r>> \o (<<d>> \o s) \in Seq(S)
         /\ Elements(<<r>> \o (<<d>> \o s)) = {r, d} \union Elements(s)
<1>1. <<d>> \o s \in Seq(S) /\ Elements(<<d>> \o s) = {d} \union Elements(s)
  BY Pushed
<1>2. /\ <<r>> \o (<<d>> \o s) \in Seq(S)
      /\ Elements(<<r>> \o (<<d>> \o s)) = {r} \union Elements(<<d>> \o s)
  BY ONLY <1>1, Pushed, r \in S
<1> QED
  BY <1>1, <1>2

LEMMA NoElements == Elements(<<>>) = {} /\ ObjectsOf(<<>>) = {}
<1>1. DOMAIN <<>> = {}
  OBVIOUS
<1> QED
  BY <1>1 DEF Elements, ObjectsOf

LEMMA ObjectsOfPushed ==
  ASSUME NEW S, NEW s \in Seq(S), NEW e \in S
  PROVE  ObjectsOf(<<e>> \o s) = {e.object} \union ObjectsOf(s)
<1>1. Elements(<<e>> \o s) = {e} \union Elements(s)
  BY Pushed
<1> QED
  BY ONLY <1>1 DEF ObjectsOf

LEMMA ObjectsOfPopped ==
  ASSUME NEW S, NEW s \in Seq(S), s # <<>>
  PROVE  ObjectsOf(s) = {Head(s).object} \union ObjectsOf(Tail(s))
<1>1. Elements(s) = {Head(s)} \union Elements(Tail(s))
  BY Popped
<1> QED
  BY ONLY <1>1 DEF ObjectsOf

-----------------------------------------------------------------------------
(* Kinds, objects and what they need.                                      *)

\* The kinds, and what is needed, one by one.
LEMMA KindsAre ==
  /\ Kinds = {"network", "subnet", "port", "router", "interface", "floatingip",
              "security_group", "rule", "bgpvpn", "network_association",
              "router_association", "switchport_mapping", "ikepolicy", "ipsecpolicy",
              "vpnservice", "connection", "fw_rule", "fw_policy", "firewall", "trunk",
              "subports"}
  /\ \A c \in Clients : c.needs \subseteq Kinds \ {"interface", "firewall"}
<1> DEFINE CanCarry == {"network", "subnet", "port", "router", "security_group", "bgpvpn",
                        "vpnservice", "ikepolicy", "ipsecpolicy", "fw_rule", "fw_policy",
                        "trunk"}
<1>1. \A c \in Clients : c.needs \subseteq CanCarry
  BY DEF Clients, Makes, TempestClients, BGPVPNClient, BGPVPNNetworkAssociationClient,
         BGPVPNRouterAssociationClient, SwitchportMappingClient, IKEPolicyClient,
         IPSecPolicyClient, VPNServiceClient, IPSecSiteConnectionClient,
         FirewallRulesClient, FirewallPoliciesClient, FirewallsClient, TrunkClient,
         SubportsAction
<1>2. Kinds = {"network", "subnet", "port", "router", "interface", "floatingip",
              "security_group", "rule", "bgpvpn", "network_association",
              "router_association", "switchport_mapping", "ikepolicy", "ipsecpolicy",
              "vpnservice", "connection", "fw_rule", "fw_policy", "firewall", "trunk",
              "subports"}
  BY DEF Kinds, Clients, Makes, TempestClients, BGPVPNClient, BGPVPNNetworkAssociationClient,
         BGPVPNRouterAssociationClient, SwitchportMappingClient, IKEPolicyClient,
         IPSecPolicyClient, VPNServiceClient, IPSecSiteConnectionClient,
         FirewallRulesClient, FirewallPoliciesClient, FirewallsClient, TrunkClient,
         SubportsAction
<1>3. CanCarry \subseteq Kinds \ {"interface", "firewall"}
  BY <1>2
<1> QED
  BY <1>1, <1>2, <1>3

\* Nothing stands on an interface or on a firewall.
LEMMA NeedsAreKinds ==
  ASSUME NEW k
  PROVE  Needs(k) \subseteq Kinds \ {"interface", "firewall"}
BY KindsAre DEF Needs

LEMMA FreshIsFree ==
  ASSUME NEW k, Free(k) # {}
  PROVE  Fresh(k) \in Of(k) /\ Kind(Fresh(k)) = k /\ Fresh(k) \notin given \union made
<1>1. Fresh(k) \in Free(k)
  BY DEF Fresh
<1> QED
  BY <1>1 DEF Free, Of, Kind

LEMMA OfIsObjects ==
  ASSUME NEW k \in Kinds, NEW o \in Of(k)
  PROVE  o \in Objects /\ Kind(o) = k
BY DEF Of, Objects, Kind

\* What a creation stands on is there, is seen, and is of a kind it needs.
LEMMA BasesAreThere ==
  ASSUME NEW k, NEW by, NEW B \in Bases(k, by)
  PROVE  /\ B \subseteq Objects \intersect live
         /\ \A b \in B : Kind(b) \in Needs(k)
         /\ k # "floatingip" => \A b \in B : Visible(b, by)
<1>1. PICK f \in [Needs(k) -> 1 .. Copies] : B = {<<j, f[j]>> : j \in Needs(k)}
  BY DEF Bases
<1>2. \A b \in B : Kind(b) \in Needs(k) /\ b \in Objects
  BY <1>1, NeedsAreKinds DEF Kind, Objects
<1>3. \A b \in B : Visible(b, IF k = "floatingip" THEN "admin" ELSE by)
  BY DEF Bases
<1>4. B \subseteq live
  BY <1>3 DEF Visible
<1> QED
  BY <1>2, <1>3, <1>4

\* Whose a new object is; a tenant's request makes a tenant's object.
LEMMA OwnersAre ==
  ASSUME Types, NEW k, NEW by \in Roles, NEW B \in Bases(k, by), NEW w \in Owners(k, by, B)
  PROVE  w \in Roles /\ (by = "tenant" => w = "tenant")
<1>1. B \subseteq Objects /\ (k # "floatingip" => \A b \in B : Visible(b, by))
  BY BasesAreThere
<1>2. CASE k = "interface"
  BY <1>1, <1>2 DEF Owners, Types, CloudTypes, Visible, Roles
<1>3. CASE k = "subports"
  BY <1>1, <1>3 DEF Owners, Types, CloudTypes, Visible, Roles
<1>4. CASE k # "interface" /\ k # "subports"
  BY <1>4 DEF Owners, Roles
<1> QED
  BY <1>2, <1>3, <1>4

-----------------------------------------------------------------------------
(* The helpers come in five forms.                                         *)

\* Who may delete what a helper made: who made it, or the tenant if as_admin is dropped.
Allowed(k, by, d, dropping) == d = by \/ k \in dropping

CreateAny ==
  \E k \in Kinds, by, d \in Roles :
    Allowed(k, by, d, HelpersDropping) /\ Create(k, by, Delete(Fresh(k), d, TRUE))
ScopeAny ==
  \E k \in Kinds \ {"firewall"}, by, d \in Roles, ignore \in BOOLEAN :
    Allowed(k, by, d, ScopesDropping) /\ Scope(k, by, Delete(Fresh(k), d, ignore))
KeepAny == \E k \in Kinds, by \in Roles : WithoutDeletion(k, by)

LEMMA ClientsAre ==
  ASSUME NEW a \in BOOLEAN, has_primary \in BOOLEAN
  PROVE  /\ Client(a) \in Roles /\ Client(FALSE) \in Roles
         /\ Direct(a) \in Roles
BY DEF Client, Direct, Roles

LEMMA CreateForms ==
  ASSUME has_primary \in BOOLEAN, NEW a \in BOOLEAN,
         \/ CreateNetwork(a) \/ CreateSubnet(a) \/ CreatePort(a) \/ CreateRouter(a)
         \/ AddRouterInterface(a) \/ AddSubports(a) \/ CreateSecurityGroup(a)
         \/ CreateSecurityGroupRule(a) \/ CreateFloatingip(a, TRUE)
         \/ CreateFirewallRule \/ CreateFirewallPolicy \/ CreateFirewall
  PROVE  CreateAny
<1>1. ASSUME NEW k \in Kinds, NEW by \in Roles, NEW d \in Roles,
             Allowed(k, by, d, HelpersDropping), Create(k, by, Delete(Fresh(k), d, TRUE))
      PROVE  CreateAny
  BY <1>1 DEF CreateAny
<1>2. ASSUME NEW k \in Kinds, Create(k, Client(a), Delete(Fresh(k), Client(a), TRUE))
      PROVE  CreateAny
  BY <1>1, <1>2, ClientsAre DEF Allowed
<1>3. ASSUME NEW k \in Kinds \intersect HelpersDropping,
             Create(k, Client(a), Delete(Fresh(k), Client(FALSE), TRUE))
      PROVE  CreateAny
  BY <1>1, <1>3, ClientsAre DEF Allowed
<1>4. ASSUME NEW k \in Kinds, Create(k, "tenant", Delete(Fresh(k), "tenant", TRUE))
      PROVE  CreateAny
  BY <1>1, <1>4 DEF Allowed, Roles
<1>5. CASE CreateNetwork(a) \/ CreateSubnet(a) \/ AddRouterInterface(a) \/ AddSubports(a)
           \/ CreateSecurityGroup(a)
  BY <1>2, <1>5, KindsAre DEF CreateNetwork, DeleteNetwork, CreateSubnet, DeleteSubnet,
     AddRouterInterface, RemoveRouterInterface, AddSubports, RemoveSubports,
     CreateSecurityGroup, DeleteSecurityGroup
<1>6. CASE CreatePort(a) \/ CreateRouter(a) \/ CreateSecurityGroupRule(a)
           \/ CreateFloatingip(a, TRUE)
  BY <1>3, <1>6, KindsAre DEF CreatePort, DeletePort, CreateRouter, DeleteRouter,
     CreateSecurityGroupRule, DeleteSecurityGroupRule, CreateFloatingip, DeleteFloatingip,
     HelpersDropping
<1>7. CASE CreateFirewallRule \/ CreateFirewallPolicy \/ CreateFirewall
  BY <1>4, <1>7, KindsAre DEF CreateFirewallRule, CreateFirewallPolicy, CreateFirewall
<1> QED
  BY <1>5, <1>6, <1>7

LEMMA ScopeForms ==
  ASSUME has_primary \in BOOLEAN, NEW a \in BOOLEAN,
         \/ NetworkScope(a) \/ SubnetScope(a) \/ PortScope(a) \/ FloatingipScope(a)
         \/ SecurityGroupScope(a) \/ RuleScope(a) \/ Bgpvpn(a) \/ RouterAssociation(a)
         \/ NetworkAssociation(a) \/ SwitchportMapping \/ Ikepolicy \/ Ipsecpolicy
         \/ Vpnservice \/ Ipsecsiteconnection
  PROVE  ScopeAny \/ KeepAny
<1>1. ASSUME NEW k \in Kinds \ {"firewall"}, NEW by \in Roles, NEW d \in Roles,
             NEW ignore \in BOOLEAN, Allowed(k, by, d, ScopesDropping),
             Scope(k, by, Delete(Fresh(k), d, ignore))
      PROVE  ScopeAny
  BY <1>1 DEF ScopeAny
<1>2. ASSUME NEW k \in Kinds \ {"firewall"},
             Scope(k, Client(a), Delete(Fresh(k), Client(a), TRUE))
      PROVE  ScopeAny
  BY <1>1, <1>2, ClientsAre DEF Allowed
<1>3. ASSUME NEW k \in (Kinds \ {"firewall"}) \intersect ScopesDropping,
             Scope(k, Client(a), Delete(Fresh(k), Client(FALSE), TRUE))
      PROVE  ScopeAny
  BY <1>1, <1>3, ClientsAre DEF Allowed
<1>4. ASSUME NEW k \in Kinds \ {"firewall"}, NEW by \in Roles, SameClient(k, by)
      PROVE  ScopeAny \/ KeepAny
  <2>1. Scope(k, by, Delete(Fresh(k), by, FALSE)) \/ WithoutDeletion(k, by)
    BY <1>4 DEF SameClient
  <2>2. Allowed(k, by, by, ScopesDropping)
    BY DEF Allowed
  <2>3. WithoutDeletion(k, by) => KeepAny
    BY DEF KeepAny
  <2> QED
    BY <1>1, <2>1, <2>2, <2>3
<1>5. CASE NetworkScope(a) \/ SecurityGroupScope(a)
  BY <1>2, <1>5, KindsAre DEF NetworkScope, DeleteNetwork, SecurityGroupScope,
     DeleteSecurityGroup
<1>6. CASE SubnetScope(a) \/ PortScope(a) \/ FloatingipScope(a) \/ RuleScope(a)
  BY <1>3, <1>6, KindsAre DEF SubnetScope, DeleteSubnet, PortScope, DeletePort,
     FloatingipScope, DeleteFloatingip, RuleScope, DeleteSecurityGroupRule,
     ScopesDropping
<1>7. CASE Bgpvpn(a) \/ RouterAssociation(a) \/ NetworkAssociation(a)
  BY <1>4, <1>7, KindsAre, ClientsAre DEF Bgpvpn, RouterAssociation, NetworkAssociation
<1>8. CASE SwitchportMapping \/ Ikepolicy \/ Ipsecpolicy \/ Vpnservice \/ Ipsecsiteconnection
  BY <1>4, <1>8, KindsAre DEF SwitchportMapping, Ikepolicy, Ipsecpolicy, Vpnservice,
     Ipsecsiteconnection, Roles
<1> QED
  BY <1>5, <1>6, <1>7, <1>8

LEMMA HelperForms ==
  ASSUME has_primary \in BOOLEAN, NEW a \in BOOLEAN, Helpers(a)
  PROVE  \/ CreateAny
         \/ ScopeAny
         \/ \E b, c \in BOOLEAN : RouterScope(a, b, c)
         \/ \E b \in BOOLEAN : CreateTrunk(a, b)
         \/ KeepAny
<1>1. ASSUME NEW b \in BOOLEAN, CreateFloatingip(a, b)
      PROVE  CreateAny \/ KeepAny
  <2>1. CASE b
    BY <1>1, <2>1, CreateForms
  <2>2. CASE ~b
    <3>1. WithoutDeletion("floatingip", Client(a))
      BY <1>1, <2>2 DEF CreateFloatingip
    <3> QED
      BY <3>1, ClientsAre, KindsAre DEF KeepAny
  <2> QED
    BY <2>1, <2>2
<1> QED
  BY <1>1, CreateForms, ScopeForms DEF Helpers
-----------------------------------------------------------------------------
(* What a helper does to the cloud: new objects, and the old ones as they  *)
(* were.                                                                   *)

Grown(O) ==
  /\ phase = "body" /\ O \subseteq Objects /\ O \intersect (given \union made) = {}
  /\ live' = live \union O /\ made' = made \union O
  /\ uses' \in [Objects -> SUBSET Objects] /\ owner' \in [Objects -> Roles]
  /\ \A x \in Objects \ O : uses'[x] = uses[x] /\ owner'[x] = owner[x]
  /\ UNCHANGED <<firewalls, given, has_primary, reported, polls>>
  /\ calls' \in 0 .. MaxMade

\* A planned deletion: by one who sees the object, unless as_admin was dropped.
Fits(e, owned_by, unseen) ==
  e.by = "tenant" /\ owned_by[e.object] = "admin" => e.object \in unseen

\* What a deletion that drops as_admin does not see.
LEMMA UnseenAre ==
  ASSUME NEW o \in Objects, NEW e, e.object = o, NEW dropping
  PROVE  /\ Unseen(e, dropping) \subseteq {o}
         /\ Kind(o) \in dropping => Fits(e, owner', kept \union Unseen(e, dropping))
<1>1. Kind(o) \in dropping => o \in dropping \X (1 .. Copies)
  BY DEF Objects, Kind
<1> QED
  BY <1>1 DEF Unseen, Fits

LEMMA CountsCalls ==
  ASSUME Types, NEW k, Calling(k), Called
  PROVE  /\ phase = "body" /\ calls' \in 0 .. MaxMade /\ Free(k) # {}
         /\ UNCHANGED <<given, has_primary, polls, reported>>
<1>1. MaxMade \in Nat /\ calls \in 0 .. MaxMade /\ calls < MaxMade
  BY BoundsAssumption DEF Types, ControlTypes, Calling
<1>2. calls' \in 0 .. MaxMade
  BY <1>1 DEF Called
<1> QED
  BY <1>2 DEF Calling, Called

LEMMA PostedGrows ==
  ASSUME Types, NEW k \in Kinds, NEW by \in Roles, NEW B \in Bases(k, by),
         Calling(k), Called, Posted(Fresh(k), by, B)
  PROVE  /\ Grown({Fresh(k)}) /\ Fresh(k) \in Objects /\ Kind(Fresh(k)) = k
         /\ by = "tenant" => owner'[Fresh(k)] = "tenant"
         /\ uses'[Fresh(k)] \subseteq live /\ uses'[Fresh(k)] = B \union Addressed(k, B)
<1> DEFINE o == Fresh(k)
<1>1. o \in Objects /\ Kind(o) = k /\ o \notin given \union made
  BY CountsCalls, FreshIsFree, OfIsObjects
<1>2. /\ phase = "body" /\ calls' \in 0 .. MaxMade
      /\ UNCHANGED <<given, has_primary, polls, reported>>
  BY CountsCalls
<1> HIDE DEF o
<1>3. live' = live \union {o} /\ made' = made \union {o} /\ UNCHANGED firewalls
  BY DEF Posted, o
<1>4. PICK w \in Owners(k, by, B) : owner' = [owner EXCEPT ![o] = w]
  BY <1>1 DEF Posted, o
<1>5. w \in Roles /\ (by = "tenant" => w = "tenant")
  BY OwnersAre
<1>6. uses' = [uses EXCEPT ![o] = B \union Addressed(k, B)]
  BY <1>1 DEF Posted, o
<1>7. B \union Addressed(k, B) \subseteq Objects \intersect live
  <2>1. B \subseteq Objects \intersect live
    BY BasesAreThere
  <2>2. live \subseteq Objects
    BY DEF Types, CloudTypes
  <2> QED
    BY <2>1, <2>2 DEF Addressed
<1>8. uses \in [Objects -> SUBSET Objects] /\ owner \in [Objects -> Roles]
  BY DEF Types, CloudTypes
<1>9. /\ owner' \in [Objects -> Roles] /\ owner'[o] = w
      /\ \A x \in Objects \ {o} : owner'[x] = owner[x]
  BY <1>1, <1>4, <1>5, <1>8
<1>10. /\ uses' \in [Objects -> SUBSET Objects] /\ uses'[o] = B \union Addressed(k, B)
       /\ \A x \in Objects \ {o} : uses'[x] = uses[x]
  BY <1>1, <1>6, <1>7, <1>8
<1> QED
  BY <1>1, <1>2, <1>3, <1>5, <1>7, <1>9, <1>10 DEF Grown, o

LEMMA CreateGrows ==
  ASSUME Types, NEW k \in Kinds, NEW by \in Roles, NEW d \in Roles,
         Allowed(k, by, d, HelpersDropping), Create(k, by, Delete(Fresh(k), d, TRUE))
  PROVE  /\ Grown({Fresh(k)}) /\ Fresh(k) \in Objects
         /\ Delete(Fresh(k), d, TRUE) \in Deletions
         /\ Fits(Delete(Fresh(k), d, TRUE), owner', kept')
         /\ kept \subseteq kept' /\ kept' \subseteq kept \union {Fresh(k)}
         /\ cleanups' = <<Delete(Fresh(k), d, TRUE)>> \o cleanups
         /\ UNCHANGED <<phase, scopes>>
<1>1. PICK B \in Bases(k, by) : Posted(Fresh(k), by, B)
  BY DEF Create
<1>2. Calling(k) /\ Called
  BY DEF Create
<1>3. /\ Grown({Fresh(k)}) /\ Fresh(k) \in Objects /\ Kind(Fresh(k)) = k
      /\ by = "tenant" => owner'[Fresh(k)] = "tenant"
  BY <1>1, <1>2, PostedGrows
<1>4. Delete(Fresh(k), d, TRUE) \in Deletions
  BY <1>3 DEF Delete, Deletions
<1>5. kept' = kept \union Unseen(Delete(Fresh(k), d, TRUE), HelpersDropping)
  BY DEF Create
<1>6. Delete(Fresh(k), d, TRUE).object = Fresh(k) /\ Delete(Fresh(k), d, TRUE).by = d
  BY DEF Delete
<1>7. /\ Fits(Delete(Fresh(k), d, TRUE), owner', kept')
      /\ kept \subseteq kept' /\ kept' \subseteq kept \union {Fresh(k)}
  <2> SUFFICES ASSUME NEW e, e = Delete(Fresh(k), d, TRUE)
               PROVE  /\ Fits(e, owner', kept')
                      /\ kept \subseteq kept' /\ kept' \subseteq kept \union {Fresh(k)}
    OBVIOUS
  <2>1. /\ Unseen(e, HelpersDropping) \subseteq {Fresh(k)}
        /\ k \in HelpersDropping => Fits(e, owner', kept \union Unseen(e, HelpersDropping))
    <3>1. Fresh(k) \in Objects /\ Kind(Fresh(k)) = k /\ e.object = Fresh(k)
      BY <1>3, <1>6
    <3> QED
      BY ONLY <3>1, UnseenAre
  <2>2. d = by => Fits(e, owner', kept')
    BY <1>3, <1>6 DEF Fits
  <2> QED
    BY <1>5, <2>1, <2>2 DEF Allowed
<1> QED
  BY <1>3, <1>4, <1>7 DEF Create

LEMMA ScopeGrows ==
  ASSUME Types, NEW k \in Kinds, NEW by \in Roles, NEW d \in Roles, NEW ignore \in BOOLEAN,
         Allowed(k, by, d, ScopesDropping), Scope(k, by, Delete(Fresh(k), d, ignore))
  PROVE  /\ Grown({Fresh(k)}) /\ Fresh(k) \in Objects
         /\ Delete(Fresh(k), d, ignore) \in Deletions
         /\ Fits(Delete(Fresh(k), d, ignore), owner', kept')
         /\ kept \subseteq kept' /\ kept' \subseteq kept \union {Fresh(k)}
         /\ scopes' = <<Delete(Fresh(k), d, ignore)>> \o scopes
         /\ UNCHANGED <<phase, cleanups>>
<1>1. PICK B \in Bases(k, by) : Posted(Fresh(k), by, B)
  BY DEF Scope
<1>2. Calling(k) /\ Called
  BY DEF Scope
<1>3. /\ Grown({Fresh(k)}) /\ Fresh(k) \in Objects /\ Kind(Fresh(k)) = k
      /\ by = "tenant" => owner'[Fresh(k)] = "tenant"
  BY <1>1, <1>2, PostedGrows
<1>4. Delete(Fresh(k), d, ignore) \in Deletions
  BY <1>3 DEF Delete, Deletions
<1>5. kept' = kept \union Unseen(Delete(Fresh(k), d, ignore), ScopesDropping)
  BY DEF Scope
<1>6. Delete(Fresh(k), d, ignore).object = Fresh(k) /\ Delete(Fresh(k), d, ignore).by = d
  BY DEF Delete
<1>7. /\ Fits(Delete(Fresh(k), d, ignore), owner', kept')
      /\ kept \subseteq kept' /\ kept' \subseteq kept \union {Fresh(k)}
  <2> SUFFICES ASSUME NEW e, e = Delete(Fresh(k), d, ignore)
               PROVE  /\ Fits(e, owner', kept')
                      /\ kept \subseteq kept' /\ kept' \subseteq kept \union {Fresh(k)}
    OBVIOUS
  <2>1. /\ Unseen(e, ScopesDropping) \subseteq {Fresh(k)}
        /\ k \in ScopesDropping => Fits(e, owner', kept \union Unseen(e, ScopesDropping))
    <3>1. Fresh(k) \in Objects /\ Kind(Fresh(k)) = k /\ e.object = Fresh(k)
      BY <1>3, <1>6
    <3> QED
      BY ONLY <3>1, UnseenAre
  <2>2. d = by => Fits(e, owner', kept')
    BY <1>3, <1>6 DEF Fits
  <2> QED
    BY <1>5, <2>1, <2>2 DEF Allowed
<1> QED
  BY <1>3, <1>4, <1>7 DEF Scope

LEMMA KeepGrows ==
  ASSUME Types, NEW k \in Kinds, NEW by \in Roles, WithoutDeletion(k, by)
  PROVE  /\ Grown({Fresh(k)}) /\ kept' = kept \union {Fresh(k)}
         /\ UNCHANGED <<phase, scopes, cleanups>>
<1>1. PICK B \in Bases(k, by) : Posted(Fresh(k), by, B)
  BY DEF WithoutDeletion
<1>2. Calling(k) /\ Called
  BY DEF WithoutDeletion
<1>3. Grown({Fresh(k)})
  BY <1>1, <1>2, PostedGrows
<1> QED
  BY <1>3 DEF WithoutDeletion

\* as_admin, where a helper does not hand it on.
NotHandedOn == FALSE

-----------------------------------------------------------------------------
(* The invariant.                                                          *)

\* Scopes are left before the cleanups run, and these before the test is done.
Phased ==
  /\ phase \in {"cleanup", "waiting", "done"} => scopes = <<>>
  /\ phase = "done" => cleanups = <<>>
  /\ phase = "waiting" => cleanups # <<>>

\* The firewall that is waited for is gone, or its agent has it or has failed.
Waited ==
  phase = "waiting" =>
    Firewall \notin live \/ Firewall \in firewalls.pending \/ Firewall \in firewalls.error

\* A deletion that deletes something else first may stop there: only a router's, and
\* the router's deletion is registered as well.
Backed ==
  /\ \A e \in Elements(scopes) : e.first # {} => e.object \in ObjectsOf(cleanups)
  /\ \A e \in Elements(cleanups) : e.first = {}

AllFit == \A e \in Elements(scopes) \union Elements(cleanups) : Fits(e, owner, kept)

Accounted ==
  \A o \in live \intersect made :
    \/ o \in ObjectsOf(scopes) \union ObjectsOf(cleanups)
    \/ o \in reported \union kept \union firewalls.error

Inv == Types /\ Phased /\ Waited /\ Backed /\ AllFit /\ Accounted

LEMMA InvInit == Init => Inv
<1> SUFFICES ASSUME Init PROVE Inv
  OBVIOUS
<1>1. scopes = <<>> /\ cleanups = <<>> /\ phase = "body"
  BY DEF Init
<1>2. PlanTypes
  BY <1>1, NoElements, EmptySeq DEF PlanTypes
<1>3. given \subseteq Objects
  <2>1. PICK K \in Givens : given = K \X {1}
    BY DEF Init
  <2>2. K \subseteq Kinds /\ 1 \in 1 .. Copies
    BY GivensAssumption, BoundsAssumption
  <2> QED
    BY <2>1, <2>2 DEF Objects
<1>4. uses \in [Objects -> SUBSET Objects]
  <2>1. \A o \in Objects :
          (IF o \in given THEN {b \in given : Kind(b) \in NeedsAddressed(Kind(o))} ELSE {})
            \subseteq Objects
    BY <1>3
  <2> QED
    BY <2>1 DEF Init
<1>5. CloudTypes
  BY <1>3, <1>4 DEF Init, CloudTypes, Roles
<1>6. ControlTypes
  <2>1. 0 \in 0 .. MaxMade /\ 0 \in 0 .. Timeout
    BY BoundsAssumption
  <2> QED
    BY <2>1 DEF Init, ControlTypes
<1>7. Backed /\ AllFit
  BY <1>1, NoElements DEF Backed, AllFit
<1>8. Accounted
  BY DEF Init, Accounted
<1> QED
  BY <1>1, <1>2, <1>5, <1>6, <1>7, <1>8 DEF Inv, Types, Phased, Waited

\* New objects, and what is planned for them: S in a scope, C registered.
Grows(O, S, C) ==
  /\ Grown(O)
  /\ scopes' \in Seq(Deletions) /\ Elements(scopes') = S \union Elements(scopes)
  /\ cleanups' \in Seq(Deletions) /\ Elements(cleanups') = C \union Elements(cleanups)
  /\ \A e \in S \union C : e.object \in O /\ Fits(e, owner', kept')
  /\ O \subseteq {e.object : e \in S \union C} \union kept'
  /\ kept \subseteq kept' /\ kept' \subseteq made'
  /\ \A e \in C : e.first = {}
  /\ \A e \in S : e.first # {} => \E f \in C : f.object = e.object
  /\ phase' \in {"body", "unwinding"} /\ untidy' \in BOOLEAN

\* New objects with their deletions, or kept, leave the invariant as it is.
LEMMA GrowthKeeps ==
  ASSUME Inv, NEW O, NEW S, NEW C, Grows(O, S, C)
  PROVE  Inv'
<1> USE DEF Grows
<1>1. \A e \in Elements(scopes) \union Elements(cleanups) : e.object \in made
  BY DEF Inv, Types, PlanTypes
<1>2. PlanTypes'
  BY <1>1 DEF PlanTypes, Grown
<1>3. CloudTypes'
  <2>1. /\ given \subseteq Objects /\ made \subseteq Objects /\ given \intersect made = {}
        /\ live \subseteq given \union made
        /\ firewalls \in [pending : SUBSET made, error : SUBSET made]
    BY DEF Inv, Types, CloudTypes
  <2>2. firewalls' \in [pending : SUBSET (made'), error : SUBSET (made')]
    BY <2>1 DEF Grown
  <2>3. /\ (given \subseteq Objects)' /\ (made \subseteq Objects)' /\ (given \intersect made = {})'
        /\ (live \subseteq given \union made)'
    BY <2>1 DEF Grown
  <2> QED
    BY <2>2, <2>3 DEF CloudTypes, Grown
<1>4. ControlTypes'
  BY DEF Inv, Types, ControlTypes, Grown
<1>5. Phased' /\ Waited'
  BY DEF Phased, Waited
<1>6. Backed'
  BY DEF Inv, Backed, ObjectsOf
<1>7. \A x \in made : x \in Objects \ O
  BY DEF Grown, Inv, Types, CloudTypes
<1>8. AllFit'
  <2> SUFFICES ASSUME NEW e \in Elements(scopes') \union Elements(cleanups')
               PROVE  Fits(e, owner', kept')
    BY DEF AllFit, Fits, Grown
  <2>1. CASE e \in S \union C
    BY <2>1
  <2>2. CASE e \notin S \union C
    <3>1. e.object \in made /\ Fits(e, owner, kept)
      BY <1>1, <2>2 DEF Inv, AllFit
    <3> QED
      BY <1>7, <3>1 DEF Fits, Grown
  <2> QED
    BY <2>1, <2>2
<1>9. Accounted'
  <2> SUFFICES ASSUME NEW o \in live' \intersect made'
               PROVE  \/ o \in ObjectsOf(scopes') \union ObjectsOf(cleanups')
                      \/ o \in reported' \union kept' \union firewalls'.error
    BY DEF Accounted
  <2>1. ObjectsOf(scopes') \union ObjectsOf(cleanups')
          = {e.object : e \in S \union C} \union ObjectsOf(scopes) \union ObjectsOf(cleanups)
    BY DEF ObjectsOf
  <2>2. CASE o \in O
    BY <2>1, <2>2
  <2>3. CASE o \notin O
    <3>1. o \in live \intersect made
      BY <2>3 DEF Grown, Inv, Types, CloudTypes
    <3> QED
      BY <2>1, <3>1 DEF Inv, Accounted, Grown
  <2> QED
    BY <2>2, <2>3
<1> QED
  BY <1>2, <1>3, <1>4, <1>5, <1>6, <1>8, <1>9 DEF Inv, Types

\* What Inv says of the plans, as the growth lemmas need it.
LEMMA Plans ==
  ASSUME Inv
  PROVE  /\ Types /\ scopes \in Seq(Deletions) /\ cleanups \in Seq(Deletions)
         /\ kept \subseteq made /\ untidy \in BOOLEAN /\ has_primary \in BOOLEAN
BY DEF Inv, Types, PlanTypes, CloudTypes, ControlTypes

LEMMA CreateKeeps ==
  ASSUME Inv, CreateAny PROVE Inv'
<1>1. PICK k \in Kinds, by \in Roles, d \in Roles :
        Allowed(k, by, d, HelpersDropping) /\ Create(k, by, Delete(Fresh(k), d, TRUE))
  BY DEF CreateAny
<1> DEFINE e == Delete(Fresh(k), d, TRUE)
           o == Fresh(k)
<1>2. /\ Grown({o}) /\ o \in Objects /\ e \in Deletions /\ Fits(e, owner', kept')
      /\ cleanups' = <<e>> \o cleanups /\ UNCHANGED <<phase, scopes>>
      /\ kept \subseteq kept' /\ kept' \subseteq kept \union {o}
  BY <1>1, Plans, CreateGrows
<1>3. e.object = o /\ e.first = {}
  BY DEF Delete
<1>4. untidy' \in BOOLEAN
  BY <1>1 DEF Create
<1> HIDE DEF e, o
<1>5. /\ cleanups' \in Seq(Deletions) /\ Elements(cleanups') = {e} \union Elements(cleanups)
      /\ scopes' \in Seq(Deletions) /\ Elements(scopes') = {} \union Elements(scopes)
  BY <1>2, Plans, Pushed
<1>6. /\ \A f \in {} \union {e} : f.object \in {o} /\ Fits(f, owner', kept')
      /\ {o} \subseteq {f.object : f \in {} \union {e}} \union kept'
      /\ \A f \in {e} : f.first = {}
  BY <1>2, <1>3
<1>7. kept \subseteq kept' /\ kept' \subseteq made' /\ phase' \in {"body", "unwinding"}
  BY <1>2, Plans DEF Grown
<1>8. Grows({o}, {}, {e})
  BY <1>2, <1>4, <1>5, <1>6, <1>7 DEF Grows
<1> QED
  BY <1>8, GrowthKeeps

LEMMA ScopeKeeps ==
  ASSUME Inv, ScopeAny PROVE Inv'
<1>1. PICK k \in Kinds \ {"firewall"}, by \in Roles, d \in Roles, ignore \in BOOLEAN :
        Allowed(k, by, d, ScopesDropping) /\ Scope(k, by, Delete(Fresh(k), d, ignore))
  BY DEF ScopeAny
<1> DEFINE e == Delete(Fresh(k), d, ignore)
           o == Fresh(k)
<1>2. /\ Grown({o}) /\ o \in Objects /\ e \in Deletions /\ Fits(e, owner', kept')
      /\ scopes' = <<e>> \o scopes /\ UNCHANGED <<phase, cleanups>>
      /\ kept \subseteq kept' /\ kept' \subseteq kept \union {o}
  BY <1>1, Plans, ScopeGrows
<1>3. e.object = o /\ e.first = {}
  BY DEF Delete
<1>4. untidy' \in BOOLEAN
  BY <1>1 DEF Scope
<1> HIDE DEF e, o
<1>5. /\ scopes' \in Seq(Deletions) /\ Elements(scopes') = {e} \union Elements(scopes)
      /\ cleanups' \in Seq(Deletions) /\ Elements(cleanups') = {} \union Elements(cleanups)
  BY <1>2, Plans, Pushed
<1>6. /\ \A f \in {e} \union {} : f.object \in {o} /\ Fits(f, owner', kept')
      /\ {o} \subseteq {f.object : f \in {e} \union {}} \union kept'
      /\ \A f \in {e} : f.first # {} => \E g \in {} : g.object = f.object
  BY <1>2, <1>3
<1>7. kept \subseteq kept' /\ kept' \subseteq made' /\ phase' \in {"body", "unwinding"}
  BY <1>2, Plans DEF Grown
<1>8. Grows({o}, {e}, {})
  BY <1>2, <1>4, <1>5, <1>6, <1>7 DEF Grows
<1> QED
  BY <1>8, GrowthKeeps

LEMMA KeptKeeps ==
  ASSUME Inv, KeepAny PROVE Inv'
<1>0. PICK k \in Kinds, by \in Roles : WithoutDeletion(k, by)
  BY DEF KeepAny
<1> DEFINE o == Fresh(k)
<1>1. /\ Grown({o}) /\ kept' = kept \union {o} /\ UNCHANGED <<phase, scopes, cleanups>>
  BY <1>0, Plans, KeepGrows
<1>2. untidy' \in BOOLEAN
  BY <1>0 DEF WithoutDeletion
<1> HIDE DEF o
<1> SUFFICES ASSUME NEW S, S = {}, NEW C, C = {} PROVE Inv'
  OBVIOUS
<1>3. /\ scopes' \in Seq(Deletions) /\ Elements(scopes') = S \union Elements(scopes)
      /\ cleanups' \in Seq(Deletions) /\ Elements(cleanups') = C \union Elements(cleanups)
  BY <1>1, Plans
<1>4. /\ \A e \in S \union C : e.object \in {o} /\ Fits(e, owner', kept')
      /\ {o} \subseteq {e.object : e \in S \union C} \union kept'
  BY <1>1
<1>6. /\ \A e \in C : e.first = {}
      /\ \A e \in S : e.first # {} => \E f \in C : f.object = e.object
  OBVIOUS
<1>7. Grown({o})
  BY <1>1
<1>5. kept \subseteq kept' /\ kept' \subseteq made' /\ phase' \in {"body", "unwinding"}
  BY <1>1, Plans DEF Grown
<1>8. Grows({o}, S, C)
  BY ONLY <1>2, <1>3, <1>4, <1>5, <1>6, <1>7 DEF Grows
<1> QED
  BY ONLY Inv, <1>8, GrowthKeeps

-----------------------------------------------------------------------------
(* What takes objects away.                                                *)

\* A deletion takes its object away, or reports it, or it is the admin's and asked
\* for by the tenant; unless it stopped at what goes first.
LEMMA Deletes ==
  ASSUME Types, NEW e \in Deletions, Deletion(e)
  PROVE  /\ live' \subseteq live /\ reported \subseteq reported' /\ UNCHANGED <<uses, owner>>
         /\ e.first = {} => \/ e.object \notin live' \/ e.object \in reported'
                            \/ e.by = "tenant" /\ owner[e.object] = "admin"
<1>1. live' \subseteq live /\ reported \subseteq reported' /\ UNCHANGED <<uses, owner>>
  BY DEF Deletion
<1>2. ASSUME e.first = {}, e.object \in live', e.object \notin reported'
      PROVE  e.by = "tenant" /\ owner[e.object] = "admin"
  <2>1. ~Fails(e.object, e, First(e)) /\ (Visible(e.object, e.by) => e.object \notin live')
    BY <1>2 DEF Deletion, First
  <2>2. ~Visible(e.object, e.by) /\ e.object \in live
    BY <1>1, <1>2, <2>1
  <2>3. e.by \in Roles /\ e.object \in Objects /\ owner \in [Objects -> Roles]
    BY DEF Deletions, Types, CloudTypes
  <2> QED
    BY <2>2, <2>3 DEF Visible, Roles
<1> QED
  BY <1>1, <1>2

\* The invariant is kept when plans are carried out and objects go: what is no longer
\* planned is gone or accounted for otherwise.
LEMMA RemovalKeeps ==
  ASSUME Inv, NEW D,
         live' \subseteq live, UNCHANGED <<owner, given, made, kept, has_primary>>,
         uses' \in [Objects -> SUBSET Objects], reported \subseteq reported',
         firewalls' \in [pending : SUBSET made, error : SUBSET made],
         firewalls.error \subseteq firewalls'.error,
         scopes' \in Seq(Deletions), Elements(scopes') \subseteq Elements(scopes),
         cleanups' \in Seq(Deletions), Elements(cleanups') \subseteq Elements(cleanups),
         ObjectsOf(scopes) \union ObjectsOf(cleanups)
           \subseteq ObjectsOf(scopes') \union ObjectsOf(cleanups') \union D,
         \A o \in D \intersect live' :
           \/ o \in ObjectsOf(scopes') \union ObjectsOf(cleanups')
           \/ o \in reported' \union kept \union firewalls'.error,
         ControlTypes', Phased', Waited', Backed'
  PROVE  Inv'
<1>1. /\ \A e \in Elements(scopes) \union Elements(cleanups) : e.object \in made
      /\ given \subseteq Objects /\ made \subseteq Objects /\ given \intersect made = {}
      /\ live \subseteq given \union made /\ owner \in [Objects -> Roles] /\ kept \subseteq made
  BY DEF Inv, Types, PlanTypes, CloudTypes
<1>2. PlanTypes'
  BY <1>1 DEF PlanTypes
<1>3. CloudTypes'
  <2>1. /\ (given \subseteq Objects)' /\ (made \subseteq Objects)' /\ (given \intersect made = {})'
        /\ (live \subseteq given \union made)' /\ (owner \in [Objects -> Roles])'
        /\ (kept \subseteq made)'
    BY <1>1
  <2>2. (firewalls \in [pending : SUBSET made, error : SUBSET made])'
    OBVIOUS
  <2> QED
    BY <2>1, <2>2 DEF CloudTypes
<1>4. AllFit'
  <2> SUFFICES ASSUME NEW e \in Elements(scopes') \union Elements(cleanups')
               PROVE  Fits(e, owner', kept')
    BY DEF AllFit, Fits
  <2> QED
    BY DEF Inv, AllFit
<1>5. Accounted'
  <2> SUFFICES ASSUME NEW o \in live' \intersect made
               PROVE  \/ o \in ObjectsOf(scopes') \union ObjectsOf(cleanups')
                      \/ o \in reported' \union kept \union firewalls'.error
    BY DEF Accounted
  <2> QED
    BY DEF Inv, Accounted
<1> QED
  BY <1>2, <1>3, <1>4, <1>5 DEF Inv, Types

\* A step that changes no plan and adds no object.
LEMMA SamePlans ==
  ASSUME Inv, UNCHANGED <<scopes, cleanups, owner, given, made, kept, has_primary, reported>>,
         live' \subseteq live, uses' \in [Objects -> SUBSET Objects],
         firewalls' \in [pending : SUBSET made, error : SUBSET made],
         firewalls.error \subseteq firewalls'.error,
         ControlTypes', Phased', Waited'
  PROVE  Inv'
<1>1. scopes \in Seq(Deletions) /\ cleanups \in Seq(Deletions)
  BY Plans
<1>2. Backed'
  BY DEF Inv, Backed
<1> QED
  BY <1>1, <1>2, RemovalKeeps

LEMMA FirewallTypes ==
  ASSUME Inv
  PROVE  /\ firewalls \in [pending : SUBSET made, error : SUBSET made]
         /\ uses \in [Objects -> SUBSET Objects] /\ owner \in [Objects -> Roles]
         /\ firewalls = [pending |-> firewalls.pending, error |-> firewalls.error]
BY DEF Inv, Types, CloudTypes

LEMMA LeaveScopeKeeps ==
  ASSUME Inv, LeaveScope PROVE Inv'
<1> SUFFICES ASSUME NEW e, e = Head(scopes) PROVE Inv'
  OBVIOUS
<1>1. /\ phase \in {"body", "unwinding"} /\ scopes # <<>> /\ Deletion(e)
      /\ scopes' = Tail(scopes) /\ phase' \in {"body", "unwinding"}
      /\ UNCHANGED <<cleanups, calls, given, has_primary, firewalls, polls, made, kept, untidy>>
  BY DEF LeaveScope, history
<1>2. /\ scopes' \in Seq(Deletions) /\ Elements(scopes) = {e} \union Elements(scopes')
      /\ ObjectsOf(scopes) = {e.object} \union ObjectsOf(scopes') /\ e \in Deletions
  BY <1>1, Plans, Popped, ObjectsOfPopped
<1>3. /\ live' \subseteq live /\ reported \subseteq reported' /\ UNCHANGED <<uses, owner>>
      /\ e.first = {} => \/ e.object \notin live' \/ e.object \in reported'
                         \/ e.by = "tenant" /\ owner[e.object] = "admin"
  BY <1>1, <1>2, Plans, Deletes
<1>4. /\ Elements(scopes') \subseteq Elements(scopes)
      /\ cleanups' \in Seq(Deletions) /\ Elements(cleanups') \subseteq Elements(cleanups)
      /\ ObjectsOf(scopes) \union ObjectsOf(cleanups)
           \subseteq ObjectsOf(scopes') \union ObjectsOf(cleanups') \union {e.object}
  BY <1>1, <1>2, Plans
<1>5. Fits(e, owner, kept) /\ (e.first # {} => e.object \in ObjectsOf(cleanups'))
  BY <1>1, <1>2 DEF Inv, AllFit, Backed
<1>6. \A o \in {e.object} \intersect live' :
        \/ o \in ObjectsOf(scopes') \union ObjectsOf(cleanups')
        \/ o \in reported' \union kept \union firewalls'.error
  BY <1>3, <1>5 DEF Fits
<1>7. ControlTypes' /\ Phased' /\ Waited'
  BY <1>1 DEF Inv, Types, ControlTypes, Phased, Waited
<1>8. Backed'
  <2>1. /\ \A f \in Elements(scopes') : f.first # {} => f.object \in ObjectsOf(cleanups)
        /\ \A f \in Elements(cleanups) : f.first = {}
    BY <1>4 DEF Inv, Backed
  <2> QED
    BY <1>1, <2>1 DEF Backed
<1>9. /\ uses' \in [Objects -> SUBSET Objects]
      /\ firewalls' \in [pending : SUBSET made, error : SUBSET made]
      /\ firewalls.error \subseteq firewalls'.error
  BY <1>1, <1>3, FirewallTypes
<1> QED
  BY <1>1, <1>2, <1>3, <1>4, <1>6, <1>7, <1>8, <1>9, RemovalKeeps

\* The first cleanup is done, and its object is gone or accounted for.
LEMMA CleanedUp ==
  ASSUME Inv, phase \in {"cleanup", "waiting"}, phase' = "cleanup",
         cleanups # <<>>, cleanups' = Tail(cleanups),
         UNCHANGED <<scopes, calls, given, has_primary, firewalls, uses, owner, made, kept>>,
         live' \subseteq live, reported \subseteq reported',
         polls' = polls, untidy' \in BOOLEAN,
         \/ Head(cleanups).object \notin live'
         \/ Head(cleanups).object \in reported' \union firewalls.error
         \/ Head(cleanups).by = "tenant" /\ owner[Head(cleanups).object] = "admin"
  PROVE  Inv'
<1> SUFFICES ASSUME NEW e, e = Head(cleanups) PROVE Inv'
  OBVIOUS
<1>1. scopes = <<>>
  BY DEF Inv, Phased
<1>2. /\ cleanups' \in Seq(Deletions) /\ Elements(cleanups) = {e} \union Elements(cleanups')
      /\ ObjectsOf(cleanups) = {e.object} \union ObjectsOf(cleanups')
  BY Plans, Popped, ObjectsOfPopped
<1>3. /\ Elements(cleanups') \subseteq Elements(cleanups)
      /\ scopes' \in Seq(Deletions) /\ Elements(scopes') \subseteq Elements(scopes)
      /\ ObjectsOf(scopes) \union ObjectsOf(cleanups)
           \subseteq ObjectsOf(scopes') \union ObjectsOf(cleanups') \union {e.object}
  BY <1>2, Plans
<1>4. Fits(e, owner, kept)
  BY <1>2 DEF Inv, AllFit
<1>5. \A o \in {e.object} \intersect live' :
        \/ o \in ObjectsOf(scopes') \union ObjectsOf(cleanups')
        \/ o \in reported' \union kept \union firewalls'.error
  BY <1>4 DEF Fits
<1>6. ControlTypes' /\ Phased' /\ Waited'
  BY <1>1 DEF Inv, Types, ControlTypes, Phased, Waited
<1>7. Backed'
  <2>1. \A f \in Elements(cleanups') : f.first = {}
    BY <1>3 DEF Inv, Backed
  <2>2. Elements(scopes') = {}
    BY <1>1, NoElements
  <2> QED
    BY <2>1, <2>2 DEF Backed
<1> QED
  BY <1>2, <1>3, <1>5, <1>6, <1>7, FirewallTypes, RemovalKeeps

LEMMA RunCleanupKeeps ==
  ASSUME Inv, RunCleanup PROVE Inv'
<1>1. /\ phase = "cleanup" /\ cleanups # <<>> /\ Deletion(Head(cleanups))
      /\ cleanups' = Tail(cleanups) /\ phase' = phase
      /\ UNCHANGED <<scopes, calls, given, has_primary, firewalls, polls, made, kept, untidy>>
  BY DEF RunCleanup, history
<1>2. Head(cleanups) \in Deletions /\ Head(cleanups) \in Elements(cleanups)
  BY <1>1, Plans, Popped
<1>3. Head(cleanups).first = {}
  BY <1>2 DEF Inv, Backed
<1>4. /\ live' \subseteq live /\ reported \subseteq reported' /\ UNCHANGED <<uses, owner>>
      /\ \/ Head(cleanups).object \notin live' \/ Head(cleanups).object \in reported'
         \/ Head(cleanups).by = "tenant" /\ owner[Head(cleanups).object] = "admin"
  BY <1>1, <1>2, <1>3, Plans, Deletes
<1> QED
  BY <1>1, <1>4, Plans, CleanedUp

LEMMA FirewallIsGoneKeeps ==
  ASSUME Inv, FirewallIsGone PROVE Inv'
<1>1. /\ phase = "waiting" /\ Firewall \notin firewalls.pending
      /\ phase' = "cleanup" /\ cleanups' = Tail(cleanups)
      /\ UNCHANGED <<scopes, calls, given, has_primary, live, uses, owner, firewalls, polls,
                     reported, made, kept, untidy>>
  BY DEF FirewallIsGone, NextCleanup, neutron, history
<1>2. cleanups # <<>> /\ (Firewall \notin live \/ Firewall \in firewalls.error)
  BY <1>1 DEF Inv, Phased, Waited
<1> QED
  BY <1>1, <1>2, Plans, CleanedUp DEF Firewall

LEMMA FirewallTimeoutKeeps ==
  ASSUME Inv, FirewallTimeout PROVE Inv'
<1>1. /\ phase = "waiting" /\ phase' = "cleanup" /\ cleanups' = Tail(cleanups)
      /\ reported' = reported \union {Firewall} /\ untidy' = TRUE
      /\ UNCHANGED <<scopes, calls, given, has_primary, live, uses, owner, firewalls, polls,
                     made, kept>>
  BY DEF FirewallTimeout, NextCleanup, neutron
<1>2. cleanups # <<>>
  BY <1>1 DEF Inv, Phased
<1> QED
  BY <1>1, <1>2, Plans, CleanedUp DEF Firewall

LEMMA DeleteFirewallKeeps ==
  ASSUME Inv, DeleteFirewall PROVE Inv'
<1>1. /\ phase = "cleanup" /\ cleanups # <<>> /\ phase' = "waiting" /\ polls' = 0
      /\ firewalls' = [firewalls EXCEPT !.pending = @ \union {Firewall}]
      /\ UNCHANGED <<scopes, cleanups, calls, given, has_primary, live, uses, owner, reported,
                     made, kept, untidy>>
  BY DEF DeleteFirewall, test, history
<1>2. Firewall \in made
  <2>1. Head(cleanups) \in Elements(cleanups)
    BY <1>1, Plans, Popped
  <2> QED
    BY <2>1 DEF Inv, Types, PlanTypes, Firewall
<1>3. /\ firewalls'.pending = firewalls.pending \union {Firewall}
      /\ firewalls'.error = firewalls.error
      /\ firewalls' \in [pending : SUBSET made, error : SUBSET made]
  BY <1>1, <1>2, FirewallTypes
<1>4. Phased' /\ Waited'
  BY <1>1, <1>3 DEF Inv, Phased, Waited, Firewall
<1>5. ControlTypes'
  <2>1. 0 \in 0 .. Timeout
    BY BoundsAssumption
  <2> QED
    BY <1>1, <2>1 DEF Inv, Types, ControlTypes
<1> QED
  BY <1>1, <1>3, <1>4, <1>5, FirewallTypes, SamePlans

LEMMA WaitFirewallKeeps ==
  ASSUME Inv, WaitFirewall PROVE Inv'
<1>1. /\ phase = "waiting" /\ polls < Timeout /\ polls' = polls + 1
      /\ UNCHANGED <<phase, scopes, cleanups, calls, given, has_primary, live, uses, owner,
                     firewalls, reported, made, kept, untidy>>
  BY DEF WaitFirewall, Slept, test, neutron, history
<1>2. polls' \in 0 .. Timeout
  BY <1>1, BoundsAssumption DEF Inv, Types, ControlTypes
<1>3. ControlTypes'
  BY <1>1, <1>2 DEF Inv, Types, ControlTypes
<1>4. Phased' /\ Waited'
  BY <1>1 DEF Inv, Phased, Waited, Firewall
<1> QED
  BY <1>1, <1>3, <1>4, FirewallTypes, SamePlans

LEMMA AgentKeeps ==
  ASSUME Inv, Agent PROVE Inv'
<1>1. PICK o \in Of("firewall") : AgentDeletesFirewall(o) \/ AgentFails(o)
  BY DEF Agent
<1>2. o \in firewalls.pending /\ o \in made
  BY <1>1, FirewallTypes DEF AgentDeletesFirewall, AgentFails
<1>3. /\ live' \subseteq live /\ untidy' \in BOOLEAN
      /\ UNCHANGED <<phase, scopes, cleanups, calls, given, has_primary, uses, owner, polls,
                     reported, made, kept>>
  BY <1>1, Plans DEF AgentDeletesFirewall, AgentFails, test, history
<1>4. /\ firewalls'.pending = firewalls.pending \ {o}
      /\ firewalls.error \subseteq firewalls'.error
      /\ firewalls' \in [pending : SUBSET made, error : SUBSET made]
      /\ o \notin live' \/ o \in firewalls'.error
  <2>1. CASE AgentDeletesFirewall(o)
    BY <2>1, FirewallTypes DEF AgentDeletesFirewall
  <2>2. CASE AgentFails(o)
    <3>1. /\ firewalls' = [pending |-> firewalls.pending \ {o},
                           error |-> firewalls.error \union {o}]
      BY <2>2 DEF AgentFails
    <3> QED
      BY <1>2, <3>1, FirewallTypes
  <2> QED
    BY <1>1, <2>1, <2>2
<1>5. ControlTypes'
  BY <1>3 DEF Inv, Types, ControlTypes
<1>6. Phased' /\ Waited'
  BY <1>3, <1>4 DEF Inv, Phased, Waited, Firewall
<1> QED
  BY <1>3, <1>4, <1>5, <1>6, FirewallTypes, SamePlans

\* The test goes on, or to its end, or changes what a policy or the cloud holds.
LEMMA BodyKeeps ==
  ASSUME Inv,
         \/ \E o \in Objects : DeleteInBody(o)
         \/ \E p \in Of("fw_policy"), r \in Of("fw_rule") :
              InsertFirewallRuleInPolicy(p, r) \/ RemoveFirewallRuleFromPolicy(p, r)
         \/ BodyRaises \/ EndBody \/ EndCleanup
  PROVE  Inv'
<1>1. /\ UNCHANGED <<scopes, cleanups, calls, given, has_primary, owner, polls, firewalls,
                     reported, made, kept>>
      /\ live' \subseteq live
  BY DEF DeleteInBody, InsertFirewallRuleInPolicy, RemoveFirewallRuleFromPolicy, BodyRaises,
     EndBody, EndCleanup, test, neutron, history
<1>2. untidy' \in BOOLEAN
  BY Plans DEF DeleteInBody, InsertFirewallRuleInPolicy, RemoveFirewallRuleFromPolicy,
     BodyRaises, EndBody, EndCleanup, history
<1>3. /\ phase' \in {"body", "unwinding", "cleanup", "done"}
      /\ phase' \in {"cleanup", "done"} => scopes = <<>>
      /\ phase' = "done" => cleanups = <<>>
  BY DEF Inv, Phased, DeleteInBody, InsertFirewallRuleInPolicy, RemoveFirewallRuleFromPolicy,
     BodyRaises, EndBody, EndCleanup
<1>4. uses' \in [Objects -> SUBSET Objects]
  <2>1. CASE \E p \in Of("fw_policy"), r \in Of("fw_rule") :
               InsertFirewallRuleInPolicy(p, r) \/ RemoveFirewallRuleFromPolicy(p, r)
    <3>1. PICK p \in Of("fw_policy"), r \in Of("fw_rule") :
            InsertFirewallRuleInPolicy(p, r) \/ RemoveFirewallRuleFromPolicy(p, r)
      BY <2>1
    <3>2. p \in Objects /\ r \in Objects
      BY KindsAre, OfIsObjects
    <3>3. PICK T \in SUBSET Objects : uses' = [uses EXCEPT ![p] = T]
      <4>1. uses[p] \union {r} \in SUBSET Objects /\ uses[p] \ {r} \in SUBSET Objects
        BY <3>2, FirewallTypes
      <4> QED
        BY <3>1, <4>1 DEF InsertFirewallRuleInPolicy, RemoveFirewallRuleFromPolicy
    <3> QED
      BY <3>2, <3>3, FirewallTypes
  <2>2. CASE uses' = uses
    BY <2>2, FirewallTypes
  <2> QED
    BY <2>1, <2>2 DEF DeleteInBody, BodyRaises, EndBody, EndCleanup, neutron
<1>5. ControlTypes'
  BY <1>1, <1>2, <1>3 DEF Inv, Types, ControlTypes
<1>6. Phased' /\ Waited'
  BY <1>1, <1>3 DEF Phased, Waited
<1> QED
  BY <1>1, <1>4, <1>5, <1>6, FirewallTypes, SamePlans

LEMMA StutterKeeps ==
  ASSUME Inv, UNCHANGED vars PROVE Inv'
<1>1. /\ UNCHANGED <<phase, scopes, cleanups, calls, given, has_primary, live, uses, owner,
                     firewalls, polls, reported, made, kept, untidy>>
  BY DEF vars, test, neutron, history
<1>2. ControlTypes' /\ Phased' /\ Waited'
  BY <1>1 DEF Inv, Types, ControlTypes, Phased, Waited, Firewall
<1> QED
  BY <1>1, <1>2, FirewallTypes, SamePlans

-----------------------------------------------------------------------------
(* Why a tidy test ends clean: as long as it is tidy, whatever stands on   *)
(* the object of a planned deletion goes before it, in the same scope, in  *)
(* an inner one, or by a cleanup registered later; and whoever deletes     *)
(* sees the object.  So no deletion is refused, none passes over an object *)
(* that is there, and the last one takes the last object.                  *)

\* What is there and stands on an object goes first, or is among the others.
Ordered(s, stands_on, there, others) ==
  \A i \in DOMAIN s : \A u \in there : s[i].object \in stands_on[u] =>
    u \in others \/ \E j \in 1 .. i : u \in s[j].first \/ (j # i /\ s[j].object = u)

\* No two deletions have anything in common.
Separate(s) ==
  \A i, j \in DOMAIN s :
    i # j => s[i].object # s[j].object /\ s[i].first \intersect s[j].first = {}

\* Objects stand on what has been made, and nothing stands on an interface.
Known ==
  \A o \in Objects :
    /\ uses[o] \subseteq given \union made /\ \A b \in uses[o] : Kind(b) # "interface"
    /\ o \notin given \union made => uses[o] = {}
\* The agents have firewalls to delete only after the body.
AgentsAreLate == firewalls.pending # {} => phase \in {"cleanup", "waiting", "done"}

Sees(e, o, owned_by) == e.by = "admin" \/ owned_by[o] = "tenant"

GivensStay == given \subseteq live /\ \A g \in given : uses[g] \subseteq given
Planned == live \intersect made \subseteq ObjectsOf(scopes) \union ObjectsOf(cleanups)
ScopesFit ==
  \A e \in Elements(scopes) :
    /\ Sees(e, e.object, owner)
    /\ ~e.ignore => e.object \in live
    /\ e.object \in ObjectsOf(cleanups) => e.ignore
FirstsFit ==
  \A e \in Elements(scopes) : \A f \in e.first :
    /\ f \in live \intersect made /\ Sees(e, f, owner)
    /\ Kind(f) = "interface" /\ f \notin ObjectsOf(scopes)
CleanupsFit ==
  \A e \in Elements(cleanups) : Sees(e, e.object, owner) /\ e.ignore /\ e.first = {}
InOrder ==
  /\ Separate(scopes) /\ Ordered(scopes, uses, live, {})
  /\ Ordered(cleanups, uses, live, ObjectsOf(scopes))

Tidy ==
  /\ reported = {} /\ firewalls.error = {}
  /\ GivensStay /\ Planned /\ ScopesFit /\ FirstsFit /\ CleanupsFit /\ InOrder

TidyInv == Inv /\ Known /\ AgentsAreLate /\ (~untidy => Tidy)

\* A new deletion keeps the order, if what stands on its object is among the others.
LEMMA OrderedPushed ==
  ASSUME NEW D, NEW s \in Seq(D), NEW e \in D, NEW U, NEW L, NEW X,
         Ordered(s, U, L, X \union {e.object} \union e.first),
         \A u \in L : e.object \in U[u] => u \in X \union e.first
  PROVE  Ordered(<<e>> \o s, U, L, X)
<1> SUFFICES ASSUME NEW t, t = <<e>> \o s PROVE Ordered(t, U, L, X)
  OBVIOUS
<1>1. /\ Len(s) \in Nat /\ DOMAIN t = 1 .. Len(s) + 1 /\ DOMAIN s = 1 .. Len(s)
      /\ t[1] = e /\ \A i \in 1 .. Len(s) : t[i + 1] = s[i]
  BY Pushed, LenProperties
<1> SUFFICES ASSUME NEW i \in DOMAIN t, NEW u \in L, t[i].object \in U[u], u \notin X
             PROVE  \E j \in 1 .. i : u \in t[j].first \/ (j # i /\ t[j].object = u)
  BY DEF Ordered
<1>2. CASE i = 1
  <2>1. u \in t[1].first /\ 1 \in 1 .. i
    BY <1>1, <1>2
  <2> QED
    BY <2>1
<1>3. CASE i # 1
  <2>1. PICK k \in 1 .. Len(s) : i = k + 1
    <3>1. i - 1 \in 1 .. Len(s) /\ i = (i - 1) + 1
      BY <1>1, <1>3
    <3> QED
      BY <3>1
  <2>2. s[k].object \in U[u] /\ k \in DOMAIN s
    BY <1>1, <2>1
  <2>3. CASE u = e.object \/ u \in e.first
    <3>1. 1 \in 1 .. i /\ 1 # i /\ (t[1].object = u \/ u \in t[1].first)
      BY <1>1, <1>3, <2>3
    <3> QED
      BY <3>1
  <2>4. CASE u # e.object /\ u \notin e.first
    <3>1. u \notin X \union {e.object} \union e.first
      BY <2>4
    <3>2. PICK j \in 1 .. k : u \in s[j].first \/ (j # k /\ s[j].object = u)
      BY <2>2, <3>1 DEF Ordered
    <3>3. j + 1 \in 1 .. i /\ t[j + 1] = s[j] /\ (j # k => j + 1 # i)
      BY <1>1, <2>1
    <3> QED
      BY <3>2, <3>3
  <2> QED
    BY <2>3, <2>4
<1> QED
  BY <1>2, <1>3

\* When the first deletion is done, those whose order it kept are the others'.
LEMMA OrderedPopped ==
  ASSUME NEW D, NEW s \in Seq(D), s # <<>>, NEW U, NEW L, NEW X, Ordered(s, U, L, X)
  PROVE  /\ Ordered(Tail(s), U, L, X \union {Head(s).object} \union Head(s).first)
         /\ \A u \in L : Head(s).object \in U[u] => u \in X \union Head(s).first
<1> SUFFICES ASSUME NEW t, t = Tail(s), NEW e, e = Head(s)
             PROVE  /\ Ordered(t, U, L, X \union {e.object} \union e.first)
                    /\ \A u \in L : e.object \in U[u] => u \in X \union e.first
  OBVIOUS
<1>1. /\ Len(s) \in Nat \ {0} /\ DOMAIN s = 1 .. Len(s) /\ DOMAIN t = 1 .. Len(s) - 1
      /\ e = s[1] /\ \A i \in 1 .. Len(s) - 1 : t[i] = s[i + 1]
  BY Popped
<1>2. \A u \in L : e.object \in U[u] => u \in X \union e.first
  <2> SUFFICES ASSUME NEW u \in L, e.object \in U[u], u \notin X PROVE u \in e.first
    OBVIOUS
  <2>1. 1 \in DOMAIN s
    BY <1>1
  <2>2. PICK j \in 1 .. 1 : u \in s[j].first \/ (j # 1 /\ s[j].object = u)
    BY <1>1, <2>1 DEF Ordered
  <2>3. j = 1
    OBVIOUS
  <2> QED
    BY <1>1, <2>2, <2>3
<1>3. Ordered(t, U, L, X \union {e.object} \union e.first)
  <2> SUFFICES ASSUME NEW i \in DOMAIN t, NEW u \in L, t[i].object \in U[u],
                      u \notin X \union {e.object} \union e.first
               PROVE  \E j \in 1 .. i : u \in t[j].first \/ (j # i /\ t[j].object = u)
    BY DEF Ordered
  <2>1. i + 1 \in DOMAIN s /\ i \in Nat /\ t[i] = s[i + 1]
    BY <1>1
  <2>2. PICK j \in 1 .. i + 1 : u \in s[j].first \/ (j # i + 1 /\ s[j].object = u)
    BY <2>1 DEF Ordered
  <2>3. j # 1
    BY <1>1, <2>2
  <2>4. /\ j - 1 \in 1 .. i /\ j - 1 \in 1 .. Len(s) - 1 /\ (j - 1) + 1 = j
        /\ j # i + 1 => j - 1 # i
    BY <1>1, <2>1, <2>3
  <2>5. t[j - 1] = s[j]
    BY <1>1, <2>4
  <2> QED
    BY <2>2, <2>4, <2>5
<1> QED
  BY <1>2, <1>3

\* The order is kept if what is there stands on no more of the objects than before, or
\* is among the others.
LEMMA OrderedStays ==
  ASSUME NEW s, NEW U, NEW L, NEW X, Ordered(s, U, L, X), NEW V, NEW M, NEW Y,
         \A u \in M : \/ u \in Y
                      \/ V[u] \intersect ObjectsOf(s) = {}
                      \/ u \in L /\ V[u] \subseteq U[u] /\ u \notin X
  PROVE  Ordered(s, V, M, Y)
<1> SUFFICES ASSUME NEW i \in DOMAIN s, NEW u \in M, s[i].object \in V[u], u \notin Y
             PROVE  \E j \in 1 .. i : u \in s[j].first \/ (j # i /\ s[j].object = u)
  BY DEF Ordered
<1>1. s[i].object \in ObjectsOf(s)
  BY DEF ObjectsOf, Elements
<1>2. u \in L /\ s[i].object \in U[u] /\ u \notin X
  BY <1>1
<1> QED
  BY <1>2 DEF Ordered

\* Objects and what they stand on as at first.
LEMMA KnownInit == Init => Known
<1> SUFFICES ASSUME Init, NEW o \in Objects
             PROVE  /\ uses[o] \subseteq given /\ (o \notin given => uses[o] = {})
                    /\ \A b \in uses[o] : Kind(b) # "interface"
  BY DEF Known
<1>1. uses[o] = IF o \in given THEN {b \in given : Kind(b) \in NeedsAddressed(Kind(o))} ELSE {}
  BY DEF Init
<1>2. "interface" \notin NeedsAddressed(Kind(o))
  BY NeedsAreKinds DEF NeedsAddressed
<1> QED
  BY <1>1, <1>2

LEMMA TidyInit == Init => TidyInv
<1> SUFFICES ASSUME Init PROVE TidyInv
  OBVIOUS
<1>1. /\ scopes = <<>> /\ cleanups = <<>> /\ reported = {} /\ made = {} /\ live = given
      /\ firewalls = [pending |-> {}, error |-> {}]
  BY DEF Init
<1>2. \A o \in Objects : uses[o] \subseteq given
  BY <1>1, KnownInit DEF Known
<1>3. GivensStay
  BY <1>1, <1>2, InvInit DEF GivensStay, Inv, Types, CloudTypes
<1>4. Planned /\ ScopesFit /\ FirstsFit /\ CleanupsFit
  BY <1>1, NoElements DEF Planned, ScopesFit, FirstsFit, CleanupsFit
<1>5. InOrder
  <2>1. DOMAIN <<>> = {}
    OBVIOUS
  <2> QED
    BY <1>1, <2>1 DEF InOrder, Separate, Ordered
<1>6. AgentsAreLate
  BY <1>1 DEF AgentsAreLate
<1> QED
  BY <1>1, <1>3, <1>4, <1>5, <1>6, InvInit, KnownInit DEF TidyInv, Tidy

LEMMA AgentsStayLate ==
  ASSUME Inv, AgentsAreLate, NEW O, Grown(O) PROVE AgentsAreLate'
BY DEF AgentsAreLate, Grown

\* New objects stand on old ones or on one another, and not on interfaces.
LEMMA GrowthIsKnown ==
  ASSUME Known, NEW O, Grown(O),
         \A o \in O : /\ uses'[o] \subseteq given \union made \union O
                      /\ \A b \in uses'[o] : Kind(b) # "interface"
  PROVE  Known'
<1> SUFFICES ASSUME NEW o \in Objects
             PROVE  /\ uses'[o] \subseteq given' \union made'
                    /\ o \notin given' \union made' => uses'[o] = {}
                    /\ \A b \in uses'[o] : Kind(b) # "interface"
  BY DEF Known
<1>1. given' = given /\ made' = made \union O /\ (o \notin O => uses'[o] = uses[o])
  BY DEF Grown
<1> QED
  BY <1>1 DEF Known

\* New objects do not disturb the order of the old plans: nothing stood on them.
LEMMA OldOrder ==
  ASSUME TidyInv, ~untidy, NEW O, Grown(O)
  PROVE  /\ Ordered(scopes, uses', live', O)
         /\ Ordered(cleanups, uses', live', ObjectsOf(scopes) \union O)
         /\ \A u \in live : uses'[u] \intersect O = {}
         /\ (\A u \in O : uses'[u] \intersect ObjectsOf(scopes) = {}) =>
              Ordered(scopes, uses', live', {})
<1>1. /\ Ordered(scopes, uses, live, {}) /\ Ordered(cleanups, uses, live, ObjectsOf(scopes))
      /\ live \subseteq given \union made /\ live \subseteq Objects /\ Known
  BY DEF TidyInv, Tidy, InOrder, Inv, Types, CloudTypes
<1>2. live' = live \union O /\ \A u \in live : u \notin O /\ uses'[u] = uses[u]
  BY <1>1 DEF Grown
<1>3. \A u \in live : uses'[u] \intersect O = {}
  BY <1>1, <1>2 DEF Known, Grown
<1>4. Ordered(scopes, uses', live', O)
  <2>1. \A u \in live' : u \in O \/ (u \in live /\ uses'[u] \subseteq uses[u] /\ u \notin {})
    BY <1>2
  <2> QED
    BY <1>1, <2>1, OrderedStays
<1>5. Ordered(cleanups, uses', live', ObjectsOf(scopes) \union O)
  <2>1. \A u \in live' : \/ u \in ObjectsOf(scopes) \union O
                         \/ u \in live /\ uses'[u] \subseteq uses[u] /\ u \notin ObjectsOf(scopes)
    BY <1>2
  <2> QED
    BY <1>1, <2>1, OrderedStays
<1>6. ASSUME \A u \in O : uses'[u] \intersect ObjectsOf(scopes) = {}
      PROVE  Ordered(scopes, uses', live', {})
  <2>1. \A u \in live' : \/ uses'[u] \intersect ObjectsOf(scopes) = {}
                         \/ u \in live /\ uses'[u] \subseteq uses[u] /\ u \notin {}
    BY <1>2, <1>6
  <2> QED
    BY <1>1, <2>1, OrderedStays
<1> QED
  BY <1>3, <1>4, <1>5, <1>6

\* New objects with their deletions leave a tidy test tidy, if these are in order.
LEMMA GrowthTidies ==
  ASSUME TidyInv, ~untidy, NEW O, Grown(O), NEW S, NEW C,
         Elements(scopes') = S \union Elements(scopes),
         Elements(cleanups') = C \union Elements(cleanups),
         \A e \in S \union C : e.object \in O /\ Sees(e, e.object, owner'),
         O \subseteq {e.object : e \in S \union C},
         \A e \in C : e.ignore /\ e.first = {},
         \A e \in S : e.object \in {c.object : c \in C} => e.ignore,
         \A e \in S : \A f \in e.first :
           f \in O /\ Sees(e, f, owner') /\ Kind(f) = "interface" /\ f \notin {x.object : x \in S},
         InOrder'
  PROVE  Tidy'
<1>1. /\ live' = live \union O /\ made' = made \union O /\ given' = given
      /\ firewalls' = firewalls /\ reported' = reported
      /\ O \intersect made = {} /\ O \intersect given = {}
  BY DEF Grown
<1>2. /\ \A e \in Elements(scopes) \union Elements(cleanups) : e.object \in made
      /\ made \subseteq Objects /\ given \subseteq Objects
      /\ Tidy
  BY DEF TidyInv, Inv, Types, PlanTypes, CloudTypes
<1>3. \A o \in made \union given : o \notin O /\ o \in Objects /\ uses'[o] = uses[o] /\ owner'[o] = owner[o]
  BY <1>1, <1>2 DEF Grown
<1>4. /\ ObjectsOf(scopes') = {e.object : e \in S} \union ObjectsOf(scopes)
      /\ ObjectsOf(cleanups') = {e.object : e \in C} \union ObjectsOf(cleanups)
  BY DEF ObjectsOf
<1>5. \A e \in S \union C : e.object \notin ObjectsOf(scopes) \union ObjectsOf(cleanups)
  BY <1>1, <1>2 DEF ObjectsOf
<1>6. GivensStay'
  BY <1>1, <1>2, <1>3 DEF GivensStay, Tidy
<1>7. Planned'
  BY <1>1, <1>2, <1>4 DEF Planned, Tidy
<1>8. ScopesFit'
  <2> SUFFICES ASSUME NEW e \in S \union Elements(scopes)
               PROVE  /\ Sees(e, e.object, owner')
                      /\ ~e.ignore => e.object \in live'
                      /\ e.object \in ObjectsOf(cleanups') => e.ignore
    BY DEF ScopesFit, Sees
  <2>1. CASE e \in S
    BY <1>1, <1>4, <1>5, <2>1
  <2>2. CASE e \notin S
    <3>1. /\ Sees(e, e.object, owner) /\ (~e.ignore => e.object \in live)
          /\ e.object \in ObjectsOf(cleanups) => e.ignore
      BY <1>2, <2>2 DEF Tidy, ScopesFit
    <3>2. e.object \in made /\ e.object \notin {c.object : c \in C}
      BY <1>1, <1>2, <2>2
    <3> QED
      BY <1>1, <1>3, <1>4, <3>1, <3>2 DEF Sees
  <2> QED
    BY <2>1, <2>2
<1>9. FirstsFit'
  <2> SUFFICES ASSUME NEW e \in S \union Elements(scopes), NEW f \in e.first
               PROVE  /\ f \in live' \intersect made' /\ Sees(e, f, owner')
                      /\ Kind(f) = "interface" /\ f \notin ObjectsOf(scopes')
    BY DEF FirstsFit, Sees
  <2>1. CASE e \in S
    <3>1. f \in O /\ f \notin ObjectsOf(scopes)
      BY <1>1, <1>2, <2>1 DEF ObjectsOf
    <3> QED
      BY <1>1, <1>4, <2>1, <3>1
  <2>2. CASE e \notin S
    <3>1. /\ f \in live \intersect made /\ Sees(e, f, owner)
          /\ Kind(f) = "interface" /\ f \notin ObjectsOf(scopes)
      BY <1>2, <2>2 DEF Tidy, FirstsFit
    <3> QED
      BY <1>1, <1>3, <1>4, <3>1 DEF Sees
  <2> QED
    BY <2>1, <2>2
<1>10. CleanupsFit'
  <2> SUFFICES ASSUME NEW e \in C \union Elements(cleanups)
               PROVE  Sees(e, e.object, owner') /\ e.ignore /\ e.first = {}
    BY DEF CleanupsFit, Sees
  <2>1. CASE e \notin C
    BY <1>2, <1>3, <2>1 DEF Tidy, CleanupsFit, Sees
  <2> QED
    BY <2>1
<1> QED
  BY <1>1, <1>2, <1>6, <1>7, <1>8, <1>9, <1>10 DEF Tidy

LEMMA SeparatePushed ==
  ASSUME NEW D, NEW s \in Seq(D), NEW e \in D, Separate(s), e.object \notin ObjectsOf(s),
         \A x \in Elements(s) : e.first \intersect x.first = {}
  PROVE  Separate(<<e>> \o s)
<1> SUFFICES ASSUME NEW t, t = <<e>> \o s PROVE Separate(t)
  OBVIOUS
<1>1. /\ Len(s) \in Nat /\ DOMAIN t = 1 .. Len(s) + 1 /\ DOMAIN s = 1 .. Len(s)
      /\ t[1] = e /\ \A i \in 1 .. Len(s) : t[i + 1] = s[i]
  BY Pushed, LenProperties
<1>2. \A i \in DOMAIN t : i # 1 => \E k \in DOMAIN s : i = k + 1 /\ t[i] = s[k]
  <2> SUFFICES ASSUME NEW i \in DOMAIN t, i # 1
               PROVE  \E k \in DOMAIN s : i = k + 1 /\ t[i] = s[k]
    OBVIOUS
  <2>1. i - 1 \in 1 .. Len(s) /\ i = (i - 1) + 1
    BY <1>1
  <2> QED
    BY <1>1, <2>1
<1>3. \A k \in DOMAIN s : s[k].object # e.object /\ e.first \intersect s[k].first = {}
  BY DEF ObjectsOf, Elements
<1> SUFFICES ASSUME NEW i \in DOMAIN t, NEW j \in DOMAIN t, i # j
             PROVE  t[i].object # t[j].object /\ t[i].first \intersect t[j].first = {}
  BY DEF Separate
<1>4. CASE i = 1
  BY <1>1, <1>2, <1>3, <1>4
<1>5. CASE j = 1
  BY <1>1, <1>2, <1>3, <1>5
<1>6. CASE i # 1 /\ j # 1
  <2>1. PICK k \in DOMAIN s : i = k + 1 /\ t[i] = s[k]
    BY <1>2, <1>6
  <2>2. PICK l \in DOMAIN s : j = l + 1 /\ t[j] = s[l]
    BY <1>2, <1>6
  <2> QED
    BY <2>1, <2>2 DEF Separate
<1> QED
  BY <1>4, <1>5, <1>6

LEMMA SeparatePopped ==
  ASSUME NEW D, NEW s \in Seq(D), s # <<>>, Separate(s)
  PROVE  /\ Separate(Tail(s))
         /\ \A x \in Elements(Tail(s)) :
              x.object # Head(s).object /\ x.first \intersect Head(s).first = {}
<1> SUFFICES ASSUME NEW t, t = Tail(s), NEW e, e = Head(s)
             PROVE  /\ Separate(t)
                    /\ \A i \in DOMAIN t :
                         t[i].object # e.object /\ t[i].first \intersect e.first = {}
  BY DEF Elements
<1>1. /\ Len(s) \in Nat \ {0} /\ DOMAIN s = 1 .. Len(s) /\ DOMAIN t = 1 .. Len(s) - 1
      /\ e = s[1] /\ \A i \in 1 .. Len(s) - 1 : t[i] = s[i + 1]
  BY Popped
<1>2. \A i \in DOMAIN t : i + 1 \in DOMAIN s /\ i + 1 # 1 /\ t[i] = s[i + 1] /\ i \in Int
  BY <1>1
<1>3. 1 \in DOMAIN s
  BY <1>1
<1>4. Separate(t)
  BY <1>2 DEF Separate
<1>5. \A i \in DOMAIN t : t[i].object # e.object /\ t[i].first \intersect e.first = {}
  BY <1>1, <1>2, <1>3 DEF Separate
<1> QED
  BY <1>4, <1>5

\* What is posted stands on what is there, and never on an interface.
LEMMA PostedIsKnown ==
  ASSUME Inv, Known, NEW k \in Kinds, NEW by \in Roles, NEW B \in Bases(k, by),
         Calling(k), Called, Posted(Fresh(k), by, B)
  PROVE  Known' /\ uses'[Fresh(k)] \subseteq live /\ Fresh(k) \notin live
<1>1. /\ Grown({Fresh(k)}) /\ uses'[Fresh(k)] \subseteq live
      /\ uses'[Fresh(k)] = B \union Addressed(k, B)
  BY PostedGrows DEF Inv
<1>2. \A b \in uses'[Fresh(k)] : Kind(b) # "interface"
  <2>1. \A b \in B : Kind(b) # "interface"
    BY BasesAreThere, NeedsAreKinds
  <2>2. \A b \in Addressed(k, B) : Kind(b) # "interface"
    BY OfIsObjects, KindsAre DEF Addressed
  <2> QED
    BY <1>1, <2>1, <2>2
<1>3. live \subseteq given \union made
  BY DEF Inv, Types, CloudTypes
<1>4. Known'
  BY <1>1, <1>2, <1>3, GrowthIsKnown
<1> QED
  BY <1>1, <1>3, <1>4 DEF Grown

\* The one who deletes a new object sees it, unless as_admin was dropped.
LEMMA SeenByMaker ==
  ASSUME NEW o \in Objects, NEW by \in Roles, NEW e, e.object = o, e.by \in Roles, NEW dropping,
         Allowed(Kind(o), by, e.by, dropping),
         owner' \in [Objects -> Roles], by = "tenant" => owner'[o] = "tenant",
         Unseen(e, dropping) = {}
  PROVE  Sees(e, o, owner')
<1>1. Kind(o) \in dropping => o \in dropping \X (1 .. Copies)
  BY DEF Objects, Kind
<1>2. Kind(o) \in dropping => ~(owner'[o] = "admin" /\ e.by = "tenant")
  BY <1>1 DEF Unseen
<1> QED
  BY <1>2 DEF Allowed, Roles, Sees

LEMMA ScopedAreObjects == Scoped = ObjectsOf(scopes)
BY DEF Scoped, ObjectsOf, Elements

LEMMA CreateTidies ==
  ASSUME TidyInv, CreateAny PROVE TidyInv'
<1>1. PICK k \in Kinds, by \in Roles, d \in Roles :
        Allowed(k, by, d, HelpersDropping) /\ Create(k, by, Delete(Fresh(k), d, TRUE))
  BY DEF CreateAny
<1>2. PICK B \in Bases(k, by) :
        /\ Posted(Fresh(k), by, B)
        /\ untidy' = (untidy \/ uses'[Fresh(k)] \intersect Scoped # {}
                      \/ Unseen(Delete(Fresh(k), d, TRUE), HelpersDropping) # {})
  BY <1>1 DEF Create
<1>3. Calling(k) /\ Called
  BY <1>1 DEF Create
<1>4. Types /\ Inv /\ Known /\ AgentsAreLate
  BY DEF TidyInv, Inv
<1> SUFFICES ASSUME NEW o, o = Fresh(k), NEW e, e = Delete(Fresh(k), d, TRUE) PROVE TidyInv'
  OBVIOUS
<1>5. /\ Grown({o}) /\ o \in Objects /\ Kind(o) = k /\ (by = "tenant" => owner'[o] = "tenant")
      /\ uses'[o] \subseteq live /\ o \notin live /\ Known'
  BY <1>2, <1>3, <1>4, PostedGrows, PostedIsKnown
<1>6. /\ e \in Deletions /\ cleanups' = <<e>> \o cleanups /\ UNCHANGED <<phase, scopes>>
      /\ e.object = o /\ e.by = d /\ e.ignore = TRUE /\ e.first = {}
  BY <1>1, <1>4, CreateGrows DEF Delete
<1>7. Inv' /\ AgentsAreLate'
  BY <1>4, <1>5, CreateKeeps, AgentsStayLate
<1>8. ASSUME ~untidy' PROVE Tidy'
  <2>1. ~untidy /\ uses'[o] \intersect ObjectsOf(scopes) = {} /\ Unseen(e, HelpersDropping) = {}
    BY <1>2, <1>8, ScopedAreObjects
  <2>2. Sees(e, e.object, owner')
    <3>1. Allowed(Kind(o), by, e.by, HelpersDropping) /\ e.by \in Roles /\ owner' \in [Objects -> Roles]
      BY <1>1, <1>5, <1>6 DEF Grown
    <3> QED
      BY <1>5, <1>6, <2>1, <3>1, SeenByMaker
  <2>3. /\ Ordered(scopes, uses', live', {})
        /\ Ordered(cleanups, uses', live', ObjectsOf(scopes) \union {o})
        /\ \A u \in live : o \notin uses'[u]
        /\ live' = live \union {o}
    BY <1>5, <2>1, OldOrder DEF Grown
  <2>4. Ordered(cleanups', uses', live', ObjectsOf(scopes'))
    <3>1. Ordered(cleanups, uses', live', ObjectsOf(scopes) \union {e.object} \union e.first)
      BY <1>6, <2>3
    <3>2. \A u \in live' : e.object \in uses'[u] => u \in ObjectsOf(scopes) \union e.first
      BY <1>5, <1>6, <2>3
    <3>3. cleanups \in Seq(Deletions)
      BY <1>4, Plans
    <3>4. Ordered(<<e>> \o cleanups, uses', live', ObjectsOf(scopes))
      BY ONLY <1>6, <3>1, <3>2, <3>3, OrderedPushed
    <3> QED
      BY <1>6, <3>4
  <2>5. InOrder'
    <3>1. Separate(scopes)
      BY <2>1 DEF TidyInv, Tidy, InOrder
    <3> QED
      BY <1>6, <2>3, <2>4, <3>1 DEF InOrder
  <2>6. /\ Elements(scopes') = {} \union Elements(scopes)
        /\ Elements(cleanups') = {e} \union Elements(cleanups)
    <3>1. cleanups \in Seq(Deletions)
      BY <1>4, Plans
    <3> QED
      BY ONLY <1>6, <3>1, Pushed
  <2>0. ~untidy
    BY <2>1
  <2> SUFFICES ASSUME NEW S, S = {}, NEW C, C = {e}, NEW O, O = {o} PROVE Tidy'
    OBVIOUS
  <2>7. /\ \A x \in S \union C : x.object \in O /\ Sees(x, x.object, owner')
        /\ O \subseteq {x.object : x \in S \union C}
        /\ \A x \in C : x.ignore /\ x.first = {}
        /\ \A x \in S : x.object \in {c.object : c \in C} => x.ignore
        /\ \A x \in S : \A f \in x.first :
             f \in O /\ Sees(x, f, owner') /\ Kind(f) = "interface" /\ f \notin {y.object : y \in S}
    BY <1>6, <2>2
  <2>8. /\ Elements(scopes') = S \union Elements(scopes)
        /\ Elements(cleanups') = C \union Elements(cleanups)
        /\ Grown(O)
    BY <1>5, <2>6
  <2> QED
    BY ONLY TidyInv, <2>0, <2>5, <2>7, <2>8, GrowthTidies
<1> QED
  BY <1>5, <1>7, <1>8 DEF TidyInv

LEMMA ScopeTidies ==
  ASSUME TidyInv, ScopeAny PROVE TidyInv'
<1>1. PICK k \in Kinds \ {"firewall"}, by \in Roles, d \in Roles, ignore \in BOOLEAN :
        Allowed(k, by, d, ScopesDropping) /\ Scope(k, by, Delete(Fresh(k), d, ignore))
  BY DEF ScopeAny
<1>2. PICK B \in Bases(k, by) : Posted(Fresh(k), by, B)
  BY <1>1 DEF Scope
<1>3. Calling(k) /\ Called /\ untidy' = (untidy \/ Unseen(Delete(Fresh(k), d, ignore), ScopesDropping) # {})
  BY <1>1 DEF Scope
<1>4. Types /\ Inv /\ Known /\ AgentsAreLate
  BY DEF TidyInv, Inv
<1> SUFFICES ASSUME NEW o, o = Fresh(k), NEW e, e = Delete(Fresh(k), d, ignore) PROVE TidyInv'
  OBVIOUS
<1>5. /\ Grown({o}) /\ o \in Objects /\ Kind(o) = k /\ (by = "tenant" => owner'[o] = "tenant")
      /\ uses'[o] \subseteq live /\ o \notin live /\ Known'
  BY <1>2, <1>3, <1>4, PostedGrows, PostedIsKnown
<1>6. /\ e \in Deletions /\ scopes' = <<e>> \o scopes /\ UNCHANGED <<phase, cleanups>>
      /\ e.object = o /\ e.by = d /\ e.first = {}
  BY <1>1, <1>4, ScopeGrows DEF Delete
<1>7. Inv' /\ AgentsAreLate'
  BY <1>4, <1>5, ScopeKeeps, AgentsStayLate
<1>8. ASSUME ~untidy' PROVE Tidy'
  <2>1. ~untidy /\ Unseen(e, ScopesDropping) = {}
    BY <1>3, <1>8
  <2>2. Sees(e, e.object, owner')
    <3>1. Allowed(Kind(o), by, e.by, ScopesDropping) /\ e.by \in Roles /\ owner' \in [Objects -> Roles]
      BY <1>1, <1>5, <1>6 DEF Grown
    <3> QED
      BY <1>5, <1>6, <2>1, <3>1, SeenByMaker
  <2>3. /\ Ordered(scopes, uses', live', {o})
        /\ Ordered(cleanups, uses', live', ObjectsOf(scopes) \union {o})
        /\ \A u \in live : o \notin uses'[u]
        /\ live' = live \union {o}
    BY <1>5, <2>1, OldOrder DEF Grown
  <2>4. scopes \in Seq(Deletions) /\ ObjectsOf(scopes') = {o} \union ObjectsOf(scopes)
    BY <1>4, <1>6, Plans, ObjectsOfPushed
  <2>5. Ordered(scopes', uses', live', {})
    <3>1. Ordered(scopes, uses', live', {} \union {e.object} \union e.first)
      BY <1>6, <2>3
    <3>2. \A u \in live' : e.object \in uses'[u] => u \in {} \union e.first
      BY <1>5, <1>6, <2>3
    <3>3. Ordered(<<e>> \o scopes, uses', live', {})
      BY ONLY <1>6, <2>4, <3>1, <3>2, OrderedPushed
    <3> QED
      BY <1>6, <3>3
  <2>6. Separate(scopes')
    <3>1. Separate(scopes)
      BY <2>1 DEF TidyInv, Tidy, InOrder
    <3>2. e.object \notin ObjectsOf(scopes)
      BY <1>4, <1>5, <1>6 DEF Types, PlanTypes, ObjectsOf, Grown
    <3>3. \A x \in Elements(scopes) : e.first \intersect x.first = {}
      BY <1>6
    <3>4. Separate(<<e>> \o scopes)
      BY ONLY <1>6, <2>4, <3>1, <3>2, <3>3, SeparatePushed
    <3> QED
      BY <1>6, <3>4
  <2>7. InOrder'
    <3>1. Ordered(cleanups', uses', live', ObjectsOf(scopes'))
      BY <1>6, <2>3, <2>4
    <3> QED
      BY <2>5, <2>6, <3>1 DEF InOrder
  <2>8. /\ Elements(scopes') = {e} \union Elements(scopes)
        /\ Elements(cleanups') = {} \union Elements(cleanups)
    BY <1>6, <2>4, Pushed
  <2>0. ~untidy
    BY <2>1
  <2> SUFFICES ASSUME NEW S, S = {e}, NEW C, C = {}, NEW O, O = {o} PROVE Tidy'
    OBVIOUS
  <2>9. /\ \A x \in S \union C : x.object \in O /\ Sees(x, x.object, owner')
        /\ O \subseteq {x.object : x \in S \union C}
        /\ \A x \in C : x.ignore /\ x.first = {}
        /\ \A x \in S : x.object \in {c.object : c \in C} => x.ignore
        /\ \A x \in S : \A f \in x.first :
             f \in O /\ Sees(x, f, owner') /\ Kind(f) = "interface" /\ f \notin {y.object : y \in S}
    BY <1>6, <2>2
  <2>10. /\ Elements(scopes') = S \union Elements(scopes)
         /\ Elements(cleanups') = C \union Elements(cleanups)
         /\ Grown(O)
    BY <1>5, <2>8
  <2> QED
    BY ONLY TidyInv, <2>0, <2>7, <2>9, <2>10, GrowthTidies
<1> QED
  BY <1>5, <1>7, <1>8 DEF TidyInv

LEMMA KeptTidies ==
  ASSUME TidyInv, KeepAny PROVE TidyInv'
<1>0. PICK k \in Kinds, by \in Roles : WithoutDeletion(k, by)
  BY DEF KeepAny
<1>1. PICK B \in Bases(k, by) : Posted(Fresh(k), by, B)
  BY <1>0 DEF WithoutDeletion
<1>2. Calling(k) /\ Called /\ untidy' = TRUE
  BY <1>0 DEF WithoutDeletion
<1>3. Types /\ Inv /\ Known /\ AgentsAreLate
  BY DEF TidyInv, Inv
<1>5. Grown({Fresh(k)}) /\ Known'
  BY <1>1, <1>2, <1>3, PostedGrows, PostedIsKnown
<1>6. Inv' /\ AgentsAreLate'
  BY <1>0, <1>3, <1>5, KeptKeeps, AgentsStayLate
<1> QED
  BY <1>2, <1>5, <1>6 DEF TidyInv

\* A trunk, with its subports or without.
LEMMA TrunkKeeps ==
  ASSUME Inv, NEW a \in BOOLEAN, NEW b \in BOOLEAN, CreateTrunk(a, b)
  PROVE  Inv' /\ (TidyInv => TidyInv')
<1> SUFFICES ASSUME NEW trunk, trunk = Fresh("trunk"),
                    NEW subports, subports = Fresh("subports"),
                    NEW d, d = DeleteTrunk(trunk, NotHandedOn),
                    NEW r, r = RemoveSubports(subports, a),
                    NEW O, O = {trunk} \union IF b THEN {subports} ELSE {},
                    NEW C, C = {d} \union IF b THEN {r} ELSE {}
             PROVE  Inv' /\ (TidyInv => TidyInv')
  OBVIOUS
<1>0. Types
  BY Plans
<1> DEFINE by == Client(a)
<1>1. /\ by \in Roles /\ Client(NotHandedOn) \in Roles
  BY <1>0, ClientsAre DEF Types, ControlTypes, NotHandedOn
<1>2. /\ Calling("trunk") /\ (b => Free("subports") # {}) /\ Called
      /\ UNCHANGED <<phase, scopes, firewalls>>
  BY DEF CreateTrunk
<1>3. /\ trunk \in Objects /\ Kind(trunk) = "trunk" /\ trunk \notin given \union made
      /\ b => subports \in Objects /\ Kind(subports) = "subports"
              /\ subports \notin given \union made
  BY <1>0, <1>2, CountsCalls, FreshIsFree, OfIsObjects, KindsAre
<1>4. PICK B \in Bases("trunk", by), w \in {"tenant", by} :
         /\ live' = live \union O /\ made' = made \union O
         /\ owner' = [o \in Objects |-> IF o \in O THEN w ELSE owner[o]]
         /\ uses' = [o \in Objects |->
                       IF o = trunk THEN B
                       ELSE IF o \in (IF b THEN {subports} ELSE {}) THEN {trunk} ELSE uses[o]]
         /\ kept' = kept \union Unseen(d, HelpersDropping)
         /\ untidy' = (untidy \/ B \intersect Scoped # {} \/ Unseen(d, HelpersDropping) # {})
  BY DEF CreateTrunk, NotHandedOn
<1>5. B \subseteq Objects
  BY BasesAreThere
<1>6. w \in Roles /\ (by = "tenant" => w = "tenant")
  BY <1>1 DEF Roles
<1>7. uses \in [Objects -> SUBSET Objects] /\ owner \in [Objects -> Roles]
  BY <1>0 DEF Types, CloudTypes
<1>8. /\ owner' \in [Objects -> Roles] /\ \A x \in Objects \ O : owner'[x] = owner[x]
      /\ \A x \in O \intersect Objects : owner'[x] = w
  BY <1>4, <1>6, <1>7
<1>9. uses' \in [Objects -> SUBSET Objects]
  <2>1. ASSUME NEW o \in Objects
        PROVE  (IF o = trunk THEN B
                ELSE IF o \in (IF b THEN {subports} ELSE {}) THEN {trunk} ELSE uses[o])
                 \in SUBSET Objects
    BY <1>3, <1>5, <1>7
  <2> QED
    BY <1>4, <2>1
<1>10. \A x \in Objects \ O : uses'[x] = uses[x]
  BY <1>4
<1>11. Grown(O)
  BY <1>2, <1>3, <1>4, <1>8, <1>9, <1>10, <1>0, CountsCalls DEF Grown
<1>12. /\ d = [object |-> trunk, by |-> Client(NotHandedOn), ignore |-> TRUE, first |-> {}]
       /\ r = [object |-> subports, by |-> by, ignore |-> TRUE, first |-> {}]
  BY DEF DeleteTrunk, RemoveSubports, Delete
<1>13. d \in Deletions /\ (b => r \in Deletions)
  <2>1. [object |-> trunk, by |-> Client(NotHandedOn), ignore |-> TRUE, first |-> {}] \in Deletions
    BY <1>1, <1>3 DEF Deletions
  <2>2. b => [object |-> subports, by |-> by, ignore |-> TRUE, first |-> {}] \in Deletions
    BY <1>1, <1>3 DEF Deletions
  <2> QED
    BY <1>12, <2>1, <2>2
<1>20. /\ d.object = trunk /\ d.by = Client(NotHandedOn) /\ d.ignore = TRUE /\ d.first = {}
       /\ r.object = subports /\ r.by = by /\ r.ignore = TRUE /\ r.first = {}
  BY ONLY <1>12
<1>19. /\ Unseen(d, HelpersDropping) \subseteq {trunk}
       /\ Fits(d, owner', kept \union Unseen(d, HelpersDropping))
  BY <1>3, <1>20, UnseenAre DEF HelpersDropping
<1>14. Fits(d, owner', kept') /\ (b => Fits(r, owner', kept'))
  <2>1. by = "tenant" => \A x \in O \intersect Objects : owner'[x] = "tenant"
    BY <1>6, <1>8
  <2>2. Fits(d, owner', kept')
    BY <1>3, <1>4, <1>19
  <2>3. b => Fits(r, owner', kept')
    BY <1>3, <1>20, <2>1 DEF Fits
  <2> QED
    BY <2>2, <2>3
<1>15. cleanups' = (IF b THEN <<r>> ELSE <<>>) \o <<d>> \o cleanups
  BY DEF CreateTrunk, NotHandedOn
<1>16. cleanups \in Seq(Deletions) /\ <<d>> \in Seq(Deletions)
  BY <1>13, <1>0, Single DEF Types, PlanTypes
<1>17. ~b => cleanups' = <<d>> \o cleanups
  BY <1>15, <1>16, ConcatEmptySeq
<1>18. b => cleanups' = <<r>> \o (<<d>> \o cleanups)
  <2> SUFFICES ASSUME b PROVE cleanups' = <<r>> \o (<<d>> \o cleanups)
    OBVIOUS
  <2>1. <<r>> \in Seq(Deletions)
    BY <1>13
  <2> QED
    BY <1>15, <1>16, <2>1, ConcatAssociative
<1>21. cleanups' \in Seq(Deletions) /\ Elements(cleanups') = C \union Elements(cleanups)
  <2>1. cleanups \in Seq(Deletions)
    BY Plans
  <2>2. CASE b
    <3>1. d \in Deletions /\ r \in Deletions /\ C = {r, d}
      BY <1>13, <2>2
    <3>2. cleanups' = <<r>> \o (<<d>> \o cleanups)
      BY <1>18, <2>2
    <3> QED
      BY ONLY <2>1, <3>1, <3>2, TwicePushed
  <2>3. CASE ~b
    <3>1. d \in Deletions /\ C = {d}
      BY <1>13, <2>3
    <3>2. cleanups' = <<d>> \o cleanups
      BY <1>17, <2>3
    <3> QED
      BY ONLY <2>1, <3>1, <3>2, Pushed
  <2> QED
    BY <2>2, <2>3
<1>22. scopes' \in Seq(Deletions) /\ Elements(scopes') = {} \union Elements(scopes)
  BY <1>2, Plans
<1>23. /\ \A x \in {} \union C : x.object \in O /\ Fits(x, owner', kept')
       /\ \A x \in C : x.first = {}
  BY <1>14, <1>20
<1>24. O \subseteq {x.object : x \in {} \union C} \union kept'
  <2>1. trunk \in {x.object : x \in {} \union C}
    BY <1>20
  <2>2. b => subports \in {x.object : x \in {} \union C}
    BY <1>20
  <2> QED
    BY <2>1, <2>2
<1>25. kept \subseteq kept' /\ kept' \subseteq made' /\ phase' \in {"body", "unwinding"}
  BY <1>2, <1>4, <1>11, <1>19, Plans DEF Grown
<1>26. untidy' \in BOOLEAN
  BY DEF CreateTrunk
<1>27. Inv'
  <2>1. Grows(O, {}, C)
    BY ONLY <1>11, <1>21, <1>22, <1>23, <1>24, <1>25, <1>26 DEF Grows
  <2> QED
    BY ONLY Inv, <2>1, GrowthKeeps
<1>28. B \subseteq live /\ \A x \in B : Kind(x) # "interface"
  BY BasesAreThere, NeedsAreKinds
<1>29. live \subseteq given \union made /\ made \subseteq Objects /\ live \subseteq Objects
  BY <1>0 DEF Types, CloudTypes
<1>30. /\ uses'[trunk] = B /\ trunk \notin live /\ (b => subports \notin live /\ subports # trunk)
       /\ b => uses'[subports] = {trunk}
  BY <1>3, <1>4, <1>29
<1>31. ASSUME TidyInv PROVE Known'
  <2>1. \A o \in O : /\ uses'[o] \subseteq given \union made \union O
                     /\ \A x \in uses'[o] : Kind(x) # "interface"
    BY <1>3, <1>28, <1>29, <1>30
  <2>2. Known
    BY <1>31 DEF TidyInv
  <2> QED
    BY ONLY <1>11, <2>1, <2>2, GrowthIsKnown
<1>32. ASSUME TidyInv PROVE AgentsAreLate'
  <2>1. AgentsAreLate
    BY <1>32 DEF TidyInv
  <2> QED
    BY ONLY Inv, <1>11, <2>1, AgentsStayLate
<1>33. ASSUME TidyInv, ~untidy' PROVE Tidy'
  <2>1. ~untidy /\ B \intersect ObjectsOf(scopes) = {} /\ Unseen(d, HelpersDropping) = {}
    BY <1>4, <1>33, ScopedAreObjects
  <2>2. Client(NotHandedOn) = "admin" \/ \A x \in O : owner'[x] = "tenant"
    <3>1. trunk \in HelpersDropping \X (1 .. Copies)
      BY <1>3 DEF Objects, Kind, HelpersDropping
    <3>2. ~(owner'[trunk] = "admin" /\ Client(NotHandedOn) = "tenant")
      BY <1>20, <2>1, <3>1 DEF Unseen
    <3> QED
      BY <1>1, <1>3, <1>6, <1>8, <3>2 DEF Roles
  <2>11. by = "admin" \/ \A x \in O : owner'[x] = "tenant"
    BY <1>1, <1>3, <1>6, <1>8 DEF Roles
  <2>3. /\ Ordered(scopes, uses', live', {})
        /\ Ordered(cleanups, uses', live', ObjectsOf(scopes) \union O)
        /\ \A u \in live : uses'[u] \intersect O = {}
    <3>1. ObjectsOf(scopes) \subseteq made
      BY <1>0 DEF Types, PlanTypes, ObjectsOf
    <3>2. \A u \in O : uses'[u] \intersect ObjectsOf(scopes) = {}
      BY <1>3, <1>30, <2>1, <3>1
    <3> QED
      BY ONLY <1>33, <1>11, <2>1, <3>2, OldOrder
  <2>4. live' = live \union O
    BY <1>4
  <2>5. cleanups \in Seq(Deletions) /\ d \in Deletions /\ (b => r \in Deletions)
    BY <1>13, Plans
  <2>6. Ordered(cleanups', uses', live', ObjectsOf(scopes))
    <3> SUFFICES ASSUME NEW X, X = ObjectsOf(scopes) PROVE Ordered(cleanups', uses', live', X)
      OBVIOUS
    <3>1. CASE b
      <4>1. Ordered(cleanups, uses', live', (X \union {subports}) \union {d.object} \union d.first)
        <5>1. (X \union {subports}) \union {d.object} \union d.first = X \union O
          BY <1>20, <3>1
        <5> QED
          BY <2>3, <5>1
      <4>2. \A u \in live' : d.object \in uses'[u] => u \in (X \union {subports}) \union d.first
        BY <1>20, <1>28, <1>30, <2>3, <2>4, <3>1
      <4>3. Ordered(<<d>> \o cleanups, uses', live', X \union {subports})
        BY ONLY <2>5, <4>1, <4>2, OrderedPushed
      <4>4. Ordered(<<d>> \o cleanups, uses', live', X \union {r.object} \union r.first)
        <5>1. X \union {r.object} \union r.first = X \union {subports}
          BY <1>20
        <5> QED
          BY <4>3, <5>1
      <4>5. \A u \in live' : r.object \in uses'[u] => u \in X \union r.first
        BY <1>20, <1>28, <1>30, <2>3, <2>4, <3>1
      <4>6. <<d>> \o cleanups \in Seq(Deletions) /\ r \in Deletions
        BY <1>16, <2>5, <3>1
      <4>7. Ordered(<<r>> \o (<<d>> \o cleanups), uses', live', X)
        BY ONLY <4>4, <4>5, <4>6, OrderedPushed
      <4> QED
        BY <1>18, <3>1, <4>7
    <3>2. CASE ~b
      <4>1. Ordered(cleanups, uses', live', X \union {d.object} \union d.first)
        <5>1. X \union {d.object} \union d.first = X \union O
          BY <1>20, <3>2
        <5> QED
          BY <2>3, <5>1
      <4>2. \A u \in live' : d.object \in uses'[u] => u \in X \union d.first
        BY <1>20, <1>28, <1>30, <2>3, <2>4, <3>2
      <4>3. Ordered(<<d>> \o cleanups, uses', live', X)
        BY ONLY <2>5, <4>1, <4>2, OrderedPushed
      <4> QED
        BY <1>17, <3>2, <4>3
    <3> QED
      BY <3>1, <3>2
  <2>7. InOrder'
    <3>1. Separate(scopes)
      BY <1>33, <2>1 DEF TidyInv, Tidy, InOrder
    <3>2. scopes' = scopes
      BY <1>2
    <3> QED
      BY ONLY <2>3, <2>6, <3>1, <3>2 DEF InOrder
  <2>0. TidyInv /\ ~untidy
    BY <1>33, <2>1
  <2> SUFFICES ASSUME NEW S, S = {} PROVE Tidy'
    OBVIOUS
  <2>8. /\ \A x \in S \union C : x.object \in O /\ Sees(x, x.object, owner')
        /\ \A x \in C : x.ignore /\ x.first = {}
        /\ \A x \in S : x.object \in {c.object : c \in C} => x.ignore
        /\ \A x \in S : \A f \in x.first :
             f \in O /\ Sees(x, f, owner') /\ Kind(f) = "interface" /\ f \notin {y.object : y \in S}
    BY <1>20, <1>23, <2>2, <2>11 DEF Sees
  <2>9. O \subseteq {x.object : x \in S \union C}
    <3>1. trunk \in {x.object : x \in S \union C}
      BY <1>20
    <3>2. b => subports \in {x.object : x \in S \union C}
      BY <1>20
    <3> QED
      BY <3>1, <3>2
  <2>10. /\ Elements(scopes') = S \union Elements(scopes)
         /\ Elements(cleanups') = C \union Elements(cleanups)
    BY <1>21, <1>22
  <2> QED
    BY ONLY <1>11, <2>0, <2>7, <2>8, <2>9, <2>10, GrowthTidies
<1> QED
  BY <1>27, <1>31, <1>32, <1>33 DEF TidyInv

\* A router scope, with an interface or without, which may not have been added.
LEMMA RouterKeeps ==
  ASSUME Inv, NEW a \in BOOLEAN, NEW attached \in BOOLEAN, NEW added \in BOOLEAN,
         RouterScope(a, attached, added)
  PROVE  Inv' /\ (TidyInv => TidyInv')
<1> SUFFICES ASSUME NEW router, router = Fresh("router"),
                    NEW interface, interface = Fresh("interface"),
                    NEW d, d = DeleteRouter(router, NotHandedOn),
                    NEW r, r = RemoveRouterInterface(interface, a),
                    NEW s, s = [d EXCEPT !.first = IF attached THEN {interface} ELSE {}],
                    NEW O, O = {router} \union IF attached /\ added THEN {interface} ELSE {},
                    NEW C, C = {d} \union IF attached /\ added THEN {r} ELSE {}
             PROVE  Inv' /\ (TidyInv => TidyInv')
  OBVIOUS
<1>0. Types
  BY Plans
<1> DEFINE by == Client(a)
           registered == IF added THEN (IF attached THEN {interface} ELSE {}) ELSE {}
<1>1. /\ by \in Roles /\ Client(NotHandedOn) \in Roles
  BY <1>0, ClientsAre DEF Types, ControlTypes, NotHandedOn
<1>2. /\ Calling("router") /\ (attached => Free("interface") # {}) /\ Called
      /\ UNCHANGED firewalls /\ phase' = IF added THEN "body" ELSE "unwinding"
  BY DEF RouterScope
<1>3. /\ router \in Objects /\ Kind(router) = "router" /\ router \notin given \union made
      /\ attached => interface \in Objects /\ Kind(interface) = "interface"
                     /\ interface \notin given \union made
  BY <1>0, <1>2, CountsCalls, FreshIsFree, OfIsObjects, KindsAre
<1>4. O = {router} \union registered
  OBVIOUS
<1>5. PICK sub \in {x \in Of("subnet") : Visible(x, by) \/ ~attached}, w \in {"tenant", by} :
         /\ live' = live \union ({router} \union registered)
         /\ made' = made \union ({router} \union registered)
         /\ owner' = [o \in Objects |-> IF o \in {router} \union registered THEN w ELSE owner[o]]
         /\ uses' = [o \in Objects |-> IF o \in registered THEN {router, sub} ELSE uses[o]]
  BY DEF RouterScope
<1>6. sub \in Objects
  BY OfIsObjects, KindsAre
<1>7. w \in Roles /\ (by = "tenant" => w = "tenant")
  BY <1>1 DEF Roles
<1>8. uses \in [Objects -> SUBSET Objects] /\ owner \in [Objects -> Roles]
  BY <1>0 DEF Types, CloudTypes
<1>9. /\ owner' \in [Objects -> Roles] /\ \A x \in Objects \ O : owner'[x] = owner[x]
      /\ \A x \in O \intersect Objects : owner'[x] = w
  BY <1>4, <1>5, <1>7, <1>8
<1>10. uses' \in [Objects -> SUBSET Objects]
  <2>1. ASSUME NEW o \in Objects
        PROVE  (IF o \in registered THEN {router, sub} ELSE uses[o]) \in SUBSET Objects
    BY <1>3, <1>6, <1>8
  <2> QED
    BY <1>5, <2>1
<1>11. \A x \in Objects \ O : uses'[x] = uses[x]
  BY <1>4, <1>5
<1>12. Grown(O)
  BY <1>2, <1>3, <1>4, <1>5, <1>9, <1>10, <1>11, <1>0, CountsCalls DEF Grown
<1>13. /\ d = [object |-> router, by |-> Client(NotHandedOn), ignore |-> TRUE, first |-> {}]
       /\ r = [object |-> interface, by |-> by, ignore |-> TRUE, first |-> {}]
       /\ s = [object |-> router, by |-> Client(NotHandedOn), ignore |-> TRUE,
               first |-> IF attached THEN {interface} ELSE {}]
  BY DEF DeleteRouter, RemoveRouterInterface, Delete
<1>14. d \in Deletions /\ s \in Deletions /\ (attached => r \in Deletions)
  <2>1. [object |-> router, by |-> Client(NotHandedOn), ignore |-> TRUE, first |-> {}] \in Deletions
    BY <1>1, <1>3 DEF Deletions
  <2>2. [object |-> router, by |-> Client(NotHandedOn), ignore |-> TRUE,
         first |-> IF attached THEN {interface} ELSE {}] \in Deletions
    BY <1>1, <1>3 DEF Deletions
  <2>3. attached =>
          [object |-> interface, by |-> by, ignore |-> TRUE, first |-> {}] \in Deletions
    BY <1>1, <1>3 DEF Deletions
  <2> QED
    BY <1>13, <2>1, <2>2, <2>3
<1>20. /\ d.object = router /\ d.by = Client(NotHandedOn) /\ d.ignore = TRUE /\ d.first = {}
       /\ r.object = interface /\ r.by = by /\ r.ignore = TRUE /\ r.first = {}
       /\ s.object = router /\ s.by = Client(NotHandedOn) /\ s.ignore = TRUE
       /\ s.first = IF attached THEN {interface} ELSE {}
  BY ONLY <1>13
<1>34. /\ kept' = kept \union Unseen(d, ScopesDropping)
       /\ untidy' = (untidy \/ ~added \/ Unseen(d, ScopesDropping) # {})
  BY DEF RouterScope, NotHandedOn
<1>35. /\ Unseen(d, ScopesDropping) \subseteq {router}
       /\ Fits(d, owner', kept \union Unseen(d, ScopesDropping))
  BY <1>3, <1>20, UnseenAre DEF ScopesDropping
<1>15. /\ Fits(d, owner', kept') /\ Fits(s, owner', kept')
       /\ attached /\ added => Fits(r, owner', kept')
  <2>1. by = "tenant" => \A x \in O \intersect Objects : owner'[x] = "tenant"
    BY <1>7, <1>9
  <2>2. Fits(d, owner', kept') /\ Fits(s, owner', kept')
    BY <1>20, <1>34, <1>35 DEF Fits
  <2>3. attached /\ added => Fits(r, owner', kept')
    BY <1>3, <1>20, <2>1 DEF Fits
  <2> QED
    BY <2>2, <2>3
<1>16. /\ cleanups' = (IF attached /\ added THEN <<r>> ELSE <<>>) \o <<d>> \o cleanups
       /\ scopes' = <<s>> \o scopes
  BY DEF RouterScope, NotHandedOn
<1>17. cleanups \in Seq(Deletions) /\ <<d>> \in Seq(Deletions)
  BY <1>14, <1>0, Single DEF Types, PlanTypes
<1>18. ~(attached /\ added) => cleanups' = <<d>> \o cleanups
  BY <1>16, <1>17, ConcatEmptySeq
<1>19. attached /\ added => cleanups' = <<r>> \o (<<d>> \o cleanups)
  <2> SUFFICES ASSUME attached, added PROVE cleanups' = <<r>> \o (<<d>> \o cleanups)
    OBVIOUS
  <2>1. <<r>> \in Seq(Deletions)
    BY <1>14
  <2> QED
    BY <1>16, <1>17, <2>1, ConcatAssociative
<1>21. cleanups' \in Seq(Deletions) /\ Elements(cleanups') = C \union Elements(cleanups)
  <2>1. cleanups \in Seq(Deletions)
    BY Plans
  <2>2. CASE attached /\ added
    <3>1. d \in Deletions /\ r \in Deletions /\ C = {r, d}
      BY <1>14, <2>2
    <3>2. cleanups' = <<r>> \o (<<d>> \o cleanups)
      BY <1>19, <2>2
    <3> QED
      BY ONLY <2>1, <3>1, <3>2, TwicePushed
  <2>3. CASE ~(attached /\ added)
    <3>1. d \in Deletions /\ C = {d}
      BY <1>14, <2>3
    <3>2. cleanups' = <<d>> \o cleanups
      BY <1>18, <2>3
    <3> QED
      BY ONLY <2>1, <3>1, <3>2, Pushed
  <2> QED
    BY <2>2, <2>3
<1>22. scopes' \in Seq(Deletions) /\ Elements(scopes') = {s} \union Elements(scopes)
  <2>1. scopes \in Seq(Deletions) /\ s \in Deletions /\ scopes' = <<s>> \o scopes
    BY <1>14, <1>16, Plans
  <2> QED
    BY ONLY <2>1, Pushed
<1>23. /\ \A x \in {s} \union C : x.object \in O /\ Fits(x, owner', kept')
       /\ \A x \in C : x.first = {}
  BY <1>15, <1>20
<1>27. \A x \in {s} : x.first # {} => \E y \in C : y.object = x.object
  <2>1. d \in C /\ d.object = s.object
    BY <1>20
  <2> QED
    BY ONLY <2>1
<1>24. O \subseteq {x.object : x \in {s} \union C} \union kept'
  <2>1. router \in {x.object : x \in {s} \union C}
    BY <1>20
  <2>2. attached /\ added => interface \in {x.object : x \in {s} \union C}
    BY <1>20
  <2> QED
    BY <2>1, <2>2
<1>25. kept \subseteq kept' /\ kept' \subseteq made' /\ phase' \in {"body", "unwinding"}
  BY <1>2, <1>12, <1>34, <1>35, Plans DEF Grown
<1>26. untidy' \in BOOLEAN
  BY DEF RouterScope
<1>28. Inv'
  <2> SUFFICES ASSUME NEW S, S = {s} PROVE Inv'
    OBVIOUS
  <2>1. scopes' \in Seq(Deletions) /\ Elements(scopes') = S \union Elements(scopes)
    BY <1>22
  <2>2. /\ \A x \in S \union C : x.object \in O /\ Fits(x, owner', kept')
        /\ \A x \in C : x.first = {}
    BY <1>23
  <2>3. \A x \in S : x.first # {} => \E y \in C : y.object = x.object
    BY <1>27
  <2>4. O \subseteq {x.object : x \in S \union C} \union kept'
    BY <1>24
  <2>5. Grows(O, S, C)
    BY ONLY <1>12, <1>21, <2>1, <2>2, <2>3, <2>4, <1>25, <1>26 DEF Grows
  <2> QED
    BY ONLY Inv, <2>5, GrowthKeeps
<1>29. /\ live \subseteq given \union made /\ made \subseteq Objects /\ live \subseteq Objects
       /\ ObjectsOf(scopes) \subseteq made
  BY <1>0 DEF Types, CloudTypes, PlanTypes, ObjectsOf
<1>30. /\ router \notin live /\ uses'[router] = uses[router]
       /\ attached => interface \notin live /\ interface # router
       /\ attached /\ added => uses'[interface] = {router, sub} /\ sub \in live
  BY <1>3, <1>5, <1>29 DEF Visible
<1>31. ASSUME TidyInv PROVE Known' /\ uses'[router] = {}
  <2>1. Known /\ Kind(sub) = "subnet" /\ uses[router] = {}
    BY <1>3, <1>5, <1>31, OfIsObjects, KindsAre DEF TidyInv, Known
  <2>2. \A o \in O : /\ uses'[o] \subseteq given \union made \union O
                     /\ \A x \in uses'[o] : Kind(x) # "interface"
    BY <1>3, <1>29, <1>30, <2>1
  <2>3. Known'
    BY ONLY <1>12, <2>1, <2>2, GrowthIsKnown
  <2> QED
    BY <1>30, <2>1, <2>3
<1>32. ASSUME TidyInv PROVE AgentsAreLate'
  <2>1. AgentsAreLate
    BY <1>32 DEF TidyInv
  <2> QED
    BY ONLY Inv, <1>12, <2>1, AgentsStayLate
<1>33. ASSUME TidyInv, ~untidy' PROVE Tidy'
  <2>1. ~untidy /\ added /\ Unseen(d, ScopesDropping) = {}
    BY <1>33, <1>34
  <2>2. Client(NotHandedOn) = "admin" \/ \A x \in O : owner'[x] = "tenant"
    <3>1. router \in ScopesDropping \X (1 .. Copies)
      BY <1>3 DEF Objects, Kind, ScopesDropping
    <3>2. ~(owner'[router] = "admin" /\ Client(NotHandedOn) = "tenant")
      BY <1>20, <2>1, <3>1 DEF Unseen
    <3> QED
      BY <1>1, <1>3, <1>7, <1>9, <3>2 DEF Roles
  <2>15. by = "admin" \/ \A x \in O : owner'[x] = "tenant"
    BY <1>1, <1>3, <1>7, <1>9 DEF Roles
  <2>3. /\ Ordered(scopes, uses', live', O)
        /\ Ordered(cleanups, uses', live', ObjectsOf(scopes) \union O)
        /\ \A u \in live : uses'[u] \intersect O = {}
    BY ONLY <1>33, <1>12, <2>1, OldOrder
  <2>4. live' = live \union O /\ uses'[router] = {}
    BY <1>4, <1>5, <1>31, <1>33
  <2>5. /\ cleanups \in Seq(Deletions) /\ scopes \in Seq(Deletions)
        /\ d \in Deletions /\ s \in Deletions /\ (attached => r \in Deletions)
    BY <1>14, Plans
  <2>6. Ordered(scopes', uses', live', {})
    <3>1. Ordered(scopes, uses', live', {} \union {s.object} \union s.first)
      <4>1. {} \union {s.object} \union s.first = O
        BY <1>20, <2>1
      <4> QED
        BY <2>3, <4>1
    <3>2. \A u \in live' : s.object \in uses'[u] => u \in {} \union s.first
      BY <1>20, <2>1, <2>3, <2>4
    <3>3. Ordered(<<s>> \o scopes, uses', live', {})
      BY ONLY <2>5, <3>1, <3>2, OrderedPushed
    <3> QED
      BY <1>16, <3>3
  <2>7. Separate(scopes')
    <3>1. Separate(scopes)
      BY <1>33, <2>1 DEF TidyInv, Tidy, InOrder
    <3>2. s.object \notin ObjectsOf(scopes)
      BY <1>3, <1>20, <1>29
    <3>3. \A x \in Elements(scopes) : s.first \intersect x.first = {}
      <4>1. \A x \in Elements(scopes) : x.first \subseteq made
        BY <1>33, <2>1 DEF TidyInv, Tidy, FirstsFit
      <4> QED
        BY <1>3, <1>20, <4>1
    <3>4. Separate(<<s>> \o scopes)
      BY ONLY <2>5, <3>1, <3>2, <3>3, SeparatePushed
    <3> QED
      BY <1>16, <3>4
  <2>8. ObjectsOf(scopes') = {router} \union ObjectsOf(scopes)
    <3>1. ObjectsOf(<<s>> \o scopes) = {s.object} \union ObjectsOf(scopes)
      BY ONLY <2>5, ObjectsOfPushed
    <3> QED
      BY <1>16, <1>20, <3>1
  <2>9. Ordered(cleanups', uses', live', ObjectsOf(scopes'))
    <3> SUFFICES ASSUME NEW X, X = ObjectsOf(scopes') PROVE Ordered(cleanups', uses', live', X)
      OBVIOUS
    <3>1. CASE attached
      <4>1. Ordered(cleanups, uses', live', (X \union {interface}) \union {d.object} \union d.first)
        <5>1. (X \union {interface}) \union {d.object} \union d.first = ObjectsOf(scopes) \union O
          BY <1>20, <2>1, <2>8, <3>1
        <5> QED
          BY <2>3, <5>1
      <4>2. \A u \in live' : d.object \in uses'[u] => u \in (X \union {interface}) \union d.first
        BY <1>20, <2>1, <2>3, <2>4, <3>1
      <4>3. Ordered(<<d>> \o cleanups, uses', live', X \union {interface})
        BY ONLY <2>5, <4>1, <4>2, OrderedPushed
      <4>4. Ordered(<<d>> \o cleanups, uses', live', X \union {r.object} \union r.first)
        <5>1. X \union {r.object} \union r.first = X \union {interface}
          BY <1>20
        <5> QED
          BY <4>3, <5>1
      <4>5. \A u \in live' : r.object \in uses'[u] => u \in X \union r.first
        BY <1>20, <1>30, <2>1, <2>3, <2>4, <3>1
      <4>6. <<d>> \o cleanups \in Seq(Deletions) /\ r \in Deletions
        BY <1>17, <2>5, <3>1
      <4>7. Ordered(<<r>> \o (<<d>> \o cleanups), uses', live', X)
        BY ONLY <4>4, <4>5, <4>6, OrderedPushed
      <4> QED
        BY <1>19, <2>1, <3>1, <4>7
    <3>2. CASE ~attached
      <4>1. Ordered(cleanups, uses', live', X \union {d.object} \union d.first)
        <5>1. X \union {d.object} \union d.first = ObjectsOf(scopes) \union O
          BY <1>20, <2>8, <3>2
        <5> QED
          BY <2>3, <5>1
      <4>2. \A u \in live' : d.object \in uses'[u] => u \in X \union d.first
        BY <1>20, <2>3, <2>4, <2>8, <3>2
      <4>3. Ordered(<<d>> \o cleanups, uses', live', X)
        BY ONLY <2>5, <4>1, <4>2, OrderedPushed
      <4> QED
        BY <1>18, <3>2, <4>3
    <3> QED
      BY <3>1, <3>2
  <2>10. InOrder'
    BY ONLY <2>6, <2>7, <2>9 DEF InOrder
  <2>0. TidyInv /\ ~untidy
    BY <1>33, <2>1
  <2> SUFFICES ASSUME NEW S, S = {s} PROVE Tidy'
    OBVIOUS
  <2>11. /\ \A x \in S \union C : x.object \in O /\ Sees(x, x.object, owner')
         /\ \A x \in C : x.ignore /\ x.first = {}
    BY <1>20, <1>23, <2>2, <2>15 DEF Sees
  <2>12. /\ \A x \in S : x.object \in {c.object : c \in C} => x.ignore
         /\ \A x \in S : \A f \in x.first :
              f \in O /\ Sees(x, f, owner') /\ Kind(f) = "interface" /\ f \notin {y.object : y \in S}
    <3>1. \A x \in S : x.object \in {c.object : c \in C} => x.ignore
      BY <1>20
    <3>2. {y.object : y \in S} = {router}
      BY <1>20
    <3>3. \A x \in S : \A f \in x.first : attached /\ f = interface
      <4>1. \A f \in s.first : attached /\ f = interface
        BY <1>20
      <4> QED
        BY <4>1
    <3>4. attached => /\ interface \in O /\ Sees(s, interface, owner')
                      /\ Kind(interface) = "interface" /\ interface # router
      BY <1>3, <1>20, <1>30, <2>1, <2>2 DEF Sees
    <3>5. \A x \in S : x = s
      OBVIOUS
    <3> QED
      BY <3>1, <3>2, <3>3, <3>4, <3>5
  <2>13. O \subseteq {x.object : x \in S \union C}
    <3>1. router \in {x.object : x \in S \union C}
      BY <1>20
    <3>2. attached /\ added => interface \in {x.object : x \in S \union C}
      BY <1>20
    <3> QED
      BY <3>1, <3>2
  <2>14. /\ Elements(scopes') = S \union Elements(scopes)
         /\ Elements(cleanups') = C \union Elements(cleanups)
    BY <1>21, <1>22
  <2> QED
    BY ONLY <1>12, <2>0, <2>10, <2>11, <2>12, <2>13, <2>14, GrowthTidies
<1> QED
  BY <1>28, <1>31, <1>32, <1>33 DEF TidyInv

LEMMA HelpersKeep ==
  ASSUME Inv, NEW a \in BOOLEAN, Helpers(a) PROVE Inv'
BY Plans, HelperForms, CreateKeeps, ScopeKeeps, KeptKeeps, TrunkKeeps, RouterKeeps

LEMMA HelpersTidy ==
  ASSUME TidyInv, NEW a \in BOOLEAN, Helpers(a) PROVE TidyInv'
<1>1. Inv
  BY DEF TidyInv
<1> QED
  BY <1>1, Plans, HelperForms, CreateTidies, ScopeTidies, KeptTidies, TrunkKeeps, RouterKeeps

-----------------------------------------------------------------------------
(* Deletions of a tidy test.                                               *)

\* When what stands on the object goes first, nothing is in the way: the deletion
\* takes the object, and what goes first, and nothing else.
LEMMA TidyDeletion ==
  ASSUME Types, Known, NEW e \in Deletions, Deletion(e),
         Sees(e, e.object, owner), ~e.ignore => e.object \in live, e.object \notin e.first,
         \A f \in e.first : f \in live /\ Sees(e, f, owner) /\ Kind(f) = "interface",
         \A u \in live : e.object \in uses[u] => u \in e.first
  PROVE  /\ live' = live \ ({e.object} \union e.first)
         /\ reported' = reported /\ UNCHANGED <<uses, owner>>
<1> SUFFICES ASSUME NEW o, o = e.object, NEW F, F = e.first
             PROVE  /\ live' = live \ ({o} \union F) /\ reported' = reported
                    /\ UNCHANGED <<uses, owner>>
  OBVIOUS
<1>1. \A u \in live : uses[u] \intersect F = {}
  <2>1. live \subseteq Objects
    BY DEF Types, CloudTypes
  <2> QED
    BY <2>1 DEF Known
<1>2. \A f \in F : Carried(f) = {} /\ ~InUse(f, {}) /\ Visible(f, e.by)
  BY <1>1 DEF Carried, InUse, Visible, Sees
<1>3. \A f \in F : ~Fails(f, e, {})
  BY <1>2 DEF Fails
<1>4. Carried(o) \subseteq F
  BY DEF Carried
<1>5. ~InUse(o, F)
  BY <1>1, <1>4 DEF InUse
<1>6. Visible(o, e.by) \/ o \notin live
  BY DEF Visible, Sees
<1>7. ~Fails(o, e, F)
  BY <1>5, <1>6 DEF Fails, First
<1>8. /\ live' = live \ (F \union IF Visible(o, e.by) THEN {o} \union Carried(o) ELSE {})
      /\ reported' = reported /\ UNCHANGED <<uses, owner>>
  BY <1>3, <1>7 DEF Deletion, First
<1> QED
  BY <1>4, <1>6, <1>8

LEMMA StaysKnown ==
  ASSUME Known, UNCHANGED <<given, made>>, \A u \in Objects : uses'[u] \subseteq uses[u]
  PROVE  Known'
BY DEF Known

\* A tidy test stays tidy when objects go, but those that go first or whose deletion
\* must find them, and no plan is dropped whose object is there.
LEMMA RemovalTidies ==
  ASSUME TidyInv, ~untidy, NEW G, live' = live \ G, G \intersect given = {},
         UNCHANGED <<owner, given, made, reported>>, firewalls'.error = firewalls.error,
         \A u \in Objects : uses'[u] \subseteq uses[u],
         Elements(scopes') \subseteq Elements(scopes),
         Elements(cleanups') \subseteq Elements(cleanups),
         \A o \in live' : o \in ObjectsOf(scopes) \union ObjectsOf(cleanups) =>
           o \in ObjectsOf(scopes') \union ObjectsOf(cleanups'),
         \A e \in Elements(scopes') :
           (~e.ignore => e.object \notin G) /\ e.first \intersect G = {},
         InOrder'
  PROVE  Tidy'
<1>1. Tidy /\ given \subseteq Objects
  BY DEF TidyInv, Inv, Types, CloudTypes
<1>2. /\ ObjectsOf(scopes') \subseteq ObjectsOf(scopes)
      /\ ObjectsOf(cleanups') \subseteq ObjectsOf(cleanups)
  BY DEF ObjectsOf
<1>3. GivensStay' /\ Planned'
  <2>1. given \subseteq live' /\ \A g \in given : uses'[g] \subseteq given
    BY <1>1 DEF Tidy, GivensStay
  <2>2. live' \intersect made \subseteq ObjectsOf(scopes') \union ObjectsOf(cleanups')
    BY <1>1 DEF Tidy, Planned
  <2> QED
    BY <2>1, <2>2 DEF GivensStay, Planned
<1>4. ScopesFit'
  <2> SUFFICES ASSUME NEW e \in Elements(scopes')
               PROVE  /\ Sees(e, e.object, owner)
                      /\ ~e.ignore => e.object \in live'
                      /\ e.object \in ObjectsOf(cleanups') => e.ignore
    BY DEF ScopesFit, Sees
  <2> QED
    BY <1>1, <1>2 DEF Tidy, ScopesFit
<1>5. FirstsFit'
  <2> SUFFICES ASSUME NEW e \in Elements(scopes'), NEW f \in e.first
               PROVE  /\ f \in live' \intersect made /\ Sees(e, f, owner)
                      /\ Kind(f) = "interface" /\ f \notin ObjectsOf(scopes')
    BY DEF FirstsFit, Sees
  <2> QED
    BY <1>1, <1>2 DEF Tidy, FirstsFit
<1>6. CleanupsFit'
  <2> SUFFICES ASSUME NEW e \in Elements(cleanups')
               PROVE  Sees(e, e.object, owner) /\ e.ignore /\ e.first = {}
    BY DEF CleanupsFit, Sees
  <2> QED
    BY <1>1 DEF Tidy, CleanupsFit
<1> QED
  BY <1>1, <1>3, <1>4, <1>5, <1>6 DEF Tidy

\* With the same plans, the order is kept when objects go.
LEMMA OrderAfter ==
  ASSUME TidyInv, ~untidy, UNCHANGED <<scopes, cleanups>>, live' \subseteq live,
         \A u \in Objects : uses'[u] \subseteq uses[u]
  PROVE  InOrder'
<1>1. /\ Separate(scopes) /\ Ordered(scopes, uses, live, {})
      /\ Ordered(cleanups, uses, live, ObjectsOf(scopes)) /\ live \subseteq Objects
  BY DEF TidyInv, Tidy, InOrder, Inv, Types, CloudTypes
<1>2. Ordered(scopes, uses', live', {})
  <2>1. \A u \in live' : u \in {} \/ (u \in live /\ uses'[u] \subseteq uses[u] /\ u \notin {})
    BY <1>1
  <2> QED
    BY ONLY <1>1, <2>1, OrderedStays
<1>3. Ordered(cleanups, uses', live', ObjectsOf(scopes))
  <2>1. \A u \in live' : \/ u \in ObjectsOf(scopes)
                         \/ /\ u \in live /\ uses'[u] \subseteq uses[u]
                            /\ u \notin ObjectsOf(scopes)
    BY <1>1
  <2> QED
    BY ONLY <1>1, <2>1, OrderedStays
<1> QED
  BY <1>1, <1>2, <1>3 DEF InOrder

\* The first of the plans is done, and its object is not there.
LEMMA OrderPopped ==
  ASSUME NEW s \in Seq(Deletions), s # <<>>, NEW X, Ordered(s, uses, live, X),
         NEW Y, X \intersect live' \subseteq Y, live' \subseteq live, uses' = uses,
         Head(s).object \notin live', Head(s).first \intersect live' = {}
  PROVE  Ordered(Tail(s), uses', live', Y)
<1>1. Ordered(Tail(s), uses, live, X \union {Head(s).object} \union Head(s).first)
  BY OrderedPopped
<1>2. \A u \in live' :
        \/ u \in Y
        \/ /\ u \in live /\ uses'[u] \subseteq uses[u]
           /\ u \notin X \union {Head(s).object} \union Head(s).first
  OBVIOUS
<1> QED
  BY ONLY <1>1, <1>2, OrderedStays

LEMMA LeaveScopeTidies ==
  ASSUME TidyInv, LeaveScope PROVE TidyInv'
<1> SUFFICES ASSUME NEW e, e = Head(scopes) PROVE TidyInv'
  OBVIOUS
<1>1. /\ phase \in {"body", "unwinding"} /\ scopes # <<>> /\ Deletion(e)
      /\ scopes' = Tail(scopes)
      /\ UNCHANGED <<cleanups, calls, given, has_primary, firewalls, polls, made, kept, untidy>>
  BY DEF LeaveScope, history
<1>2. Inv /\ Types /\ Known /\ AgentsAreLate
  BY DEF TidyInv, Inv
<1>3. Inv'
  BY <1>2, LeaveScopeKeeps
<1>4. scopes \in Seq(Deletions) /\ cleanups \in Seq(Deletions)
  BY <1>2, Plans
<1>5. /\ Elements(scopes) = {e} \union Elements(scopes') /\ e \in Deletions
      /\ ObjectsOf(scopes) = {e.object} \union ObjectsOf(scopes')
  BY ONLY <1>1, <1>4, e = Head(scopes), Popped, ObjectsOfPopped
<1>6. Known'
  <2>1. uses' = uses
    BY <1>1 DEF Deletion
  <2> QED
    BY <1>1, <1>2, <2>1 DEF Known
<1>7. AgentsAreLate'
  BY <1>1, <1>2 DEF AgentsAreLate
<1>8. ASSUME ~untidy PROVE Tidy'
  <2>1. /\ ScopesFit /\ FirstsFit /\ Separate(scopes) /\ Ordered(scopes, uses, live, {})
        /\ Ordered(cleanups, uses, live, ObjectsOf(scopes))
    BY <1>8 DEF TidyInv, Tidy, InOrder
  <2>2. /\ Sees(e, e.object, owner) /\ (~e.ignore => e.object \in live)
        /\ e.object \in made
    BY <1>2, <1>5, <2>1 DEF ScopesFit, Types, PlanTypes
  <2>3. \A f \in e.first : /\ f \in live \intersect made /\ Sees(e, f, owner)
                           /\ Kind(f) = "interface" /\ f \notin ObjectsOf(scopes)
    BY <1>5, <2>1 DEF FirstsFit
  <2>4. \A u \in live : e.object \in uses[u] => u \in e.first
    <3>1. \A u \in live : Head(scopes).object \in uses[u] => u \in {} \union Head(scopes).first
      BY ONLY <1>1, <1>4, <2>1, OrderedPopped
    <3> QED
      BY <3>1
  <2>5. e.object \notin e.first
    BY <1>5, <2>3
  <2>6. /\ live' = live \ ({e.object} \union e.first)
        /\ reported' = reported /\ UNCHANGED <<uses, owner>>
    BY ONLY <1>1, <1>2, <1>5, <2>2, <2>3, <2>4, <2>5, TidyDeletion
  <2>7. /\ Separate(scopes')
        /\ \A x \in Elements(scopes') : x.object # e.object /\ x.first \intersect e.first = {}
    BY ONLY <1>1, <1>4, <2>1, e = Head(scopes), SeparatePopped
  <2>8. InOrder'
    <3>1. Ordered(Tail(scopes), uses', live', {})
      <4>1. /\ Head(scopes).object \notin live' /\ Head(scopes).first \intersect live' = {}
            /\ live' \subseteq live /\ uses' = uses /\ {} \intersect live' \subseteq {}
        BY <2>6
      <4> QED
        BY ONLY <1>1, <1>4, <2>1, <4>1, OrderPopped
    <3>2. Ordered(cleanups, uses', live', ObjectsOf(scopes'))
      <4>1. \A u \in live' :
              \/ u \in ObjectsOf(scopes')
              \/ u \in live /\ uses'[u] \subseteq uses[u] /\ u \notin ObjectsOf(scopes)
        BY <1>5, <2>6
      <4> QED
        BY ONLY <2>1, <4>1, OrderedStays
    <3> QED
      BY <1>1, <2>7, <3>1, <3>2 DEF InOrder
  <2> SUFFICES ASSUME NEW G, G = {e.object} \union e.first PROVE Tidy'
    OBVIOUS
  <2>9. live' = live \ G /\ G \intersect given = {}
    BY <1>2, <2>2, <2>3, <2>6 DEF Types, CloudTypes
  <2>10. \A x \in Elements(scopes') : (~x.ignore => x.object \notin G) /\ x.first \intersect G = {}
    <3> SUFFICES ASSUME NEW x \in Elements(scopes')
                 PROVE  x.object \notin G /\ x.first \intersect G = {}
      OBVIOUS
    <3>1. x \in Elements(scopes) /\ x.object \in ObjectsOf(scopes)
      BY <1>5 DEF ObjectsOf
    <3>2. x.object \notin G
      BY <2>3, <2>7, <3>1
    <3>3. e.object \notin x.first
      BY <1>5, <2>1, <3>1 DEF FirstsFit
    <3> QED
      BY <2>7, <3>2, <3>3
  <2>11. /\ UNCHANGED <<owner, given, made, reported>> /\ firewalls'.error = firewalls.error
         /\ \A u \in Objects : uses'[u] \subseteq uses[u]
         /\ Elements(scopes') \subseteq Elements(scopes)
         /\ Elements(cleanups') \subseteq Elements(cleanups)
    BY <1>1, <1>5, <2>6
  <2>12. \A o \in live' : o \in ObjectsOf(scopes) \union ObjectsOf(cleanups) =>
           o \in ObjectsOf(scopes') \union ObjectsOf(cleanups')
    BY <1>1, <1>5, <2>6
  <2> QED
    BY ONLY TidyInv, <1>8, <2>8, <2>9, <2>10, <2>11, <2>12, RemovalTidies
<1> QED
  BY <1>1, <1>3, <1>6, <1>7, <1>8 DEF TidyInv

\* A cleanup is done, and its object is not there.
LEMMA CleanedUpTidies ==
  ASSUME TidyInv, ~untidy, phase \in {"cleanup", "waiting"},
         cleanups # <<>>, cleanups' = Tail(cleanups), scopes' = scopes,
         UNCHANGED <<given, firewalls, uses, owner, made, reported>>,
         live' = live \ {Head(cleanups).object}
  PROVE  Tidy'
<1> SUFFICES ASSUME NEW e, e = Head(cleanups), NEW G, G = {e.object} PROVE Tidy'
  OBVIOUS
<1>1. /\ scopes = <<>> /\ cleanups \in Seq(Deletions) /\ CleanupsFit
      /\ Ordered(cleanups, uses, live, ObjectsOf(scopes))
      /\ Separate(scopes) /\ Ordered(scopes, uses, live, {})
  BY Plans DEF TidyInv, Tidy, InOrder, Inv, Phased
<1>2. /\ Elements(cleanups) = {e} \union Elements(cleanups')
      /\ ObjectsOf(cleanups) = {e.object} \union ObjectsOf(cleanups')
  BY <1>1, Popped, ObjectsOfPopped
<1>3. /\ Elements(scopes') = {} /\ ObjectsOf(scopes) = {} /\ e.first = {}
      /\ e.object \in made /\ given \intersect made = {}
  BY <1>1, <1>2, NoElements DEF CleanupsFit, TidyInv, Inv, Types, PlanTypes, CloudTypes
<1>4. InOrder'
  <2>1. Ordered(Tail(cleanups), uses', live', ObjectsOf(scopes))
    <3>1. /\ Head(cleanups).object \notin live' /\ Head(cleanups).first \intersect live' = {}
          /\ live' \subseteq live /\ uses' = uses /\ ObjectsOf(scopes) \intersect live' \subseteq ObjectsOf(scopes)
      BY <1>3
    <3> QED
      BY <1>1, <3>1, OrderPopped
  <2>2. Ordered(scopes, uses', live', {})
    <3>1. DOMAIN <<>> = {}
      OBVIOUS
    <3> QED
      BY <1>1, <3>1 DEF Ordered
  <2> QED
    BY <1>1, <2>1, <2>2 DEF InOrder
<1>5. live' = live \ G /\ G \intersect given = {}
  BY <1>3
<1>6. /\ firewalls'.error = firewalls.error /\ \A u \in Objects : uses'[u] \subseteq uses[u]
      /\ Elements(scopes') \subseteq Elements(scopes)
      /\ Elements(cleanups') \subseteq Elements(cleanups)
      /\ \A x \in Elements(scopes') :
           (~x.ignore => x.object \notin G) /\ x.first \intersect G = {}
      /\ \A o \in live' : o \in ObjectsOf(scopes) \union ObjectsOf(cleanups) =>
           o \in ObjectsOf(scopes') \union ObjectsOf(cleanups')
  BY <1>2, <1>3
<1> QED
  BY <1>4, <1>5, <1>6, RemovalTidies

LEMMA RunCleanupTidies ==
  ASSUME TidyInv, RunCleanup PROVE TidyInv'
<1> SUFFICES ASSUME NEW e, e = Head(cleanups) PROVE TidyInv'
  OBVIOUS
<1>1. /\ phase = "cleanup" /\ cleanups # <<>> /\ Deletion(e)
      /\ cleanups' = Tail(cleanups) /\ phase' = phase
      /\ UNCHANGED <<scopes, calls, given, has_primary, firewalls, polls, made, kept, untidy>>
  BY DEF RunCleanup, history
<1>2. Inv /\ Types /\ Known /\ AgentsAreLate /\ uses' = uses
  BY <1>1 DEF TidyInv, Inv, Deletion
<1>3. Inv' /\ Known' /\ AgentsAreLate'
  <2>1. Known'
    BY <1>1, <1>2 DEF Known
  <2>2. AgentsAreLate'
    BY <1>1, <1>2 DEF AgentsAreLate
  <2> QED
    BY <1>2, <2>1, <2>2, RunCleanupKeeps
<1>4. ASSUME ~untidy PROVE Tidy'
  <2>1. /\ cleanups \in Seq(Deletions) /\ CleanupsFit /\ scopes = <<>>
        /\ Ordered(cleanups, uses, live, ObjectsOf(scopes))
    BY <1>1, <1>2, <1>4, Plans DEF TidyInv, Tidy, InOrder, Inv, Phased
  <2>2. e \in Elements(cleanups) /\ e \in Deletions
    BY <1>1, <2>1, Popped
  <2>3. Sees(e, e.object, owner) /\ e.ignore /\ e.first = {} /\ ObjectsOf(scopes) = {}
    BY <2>1, <2>2, NoElements DEF CleanupsFit
  <2>4. \A u \in live : e.object \in uses[u] => u \in e.first
    <3>1. \A u \in live : Head(cleanups).object \in uses[u] =>
            u \in ObjectsOf(scopes) \union Head(cleanups).first
      BY ONLY <1>1, <2>1, OrderedPopped
    <3> QED
      BY <2>3, <3>1
  <2>5. /\ live' = live \ ({e.object} \union e.first)
        /\ reported' = reported /\ UNCHANGED <<uses, owner>>
    BY <1>1, <1>2, <2>2, <2>3, <2>4, TidyDeletion
  <2>6. live' = live \ {Head(cleanups).object}
    BY <2>3, <2>5
  <2> QED
    BY <1>1, <1>4, <2>5, <2>6, CleanedUpTidies
<1> QED
  BY <1>1, <1>3, <1>4 DEF TidyInv

LEMMA FirewallIsGoneTidies ==
  ASSUME TidyInv, FirewallIsGone PROVE TidyInv'
<1>1. /\ phase = "waiting" /\ Firewall \notin firewalls.pending
      /\ phase' = "cleanup" /\ cleanups' = Tail(cleanups)
      /\ UNCHANGED <<scopes, calls, given, has_primary, live, uses, owner, firewalls, polls,
                     reported, made, kept, untidy>>
  BY DEF FirewallIsGone, NextCleanup, neutron, history
<1>2. Inv /\ Known
  BY DEF TidyInv
<1>3. cleanups # <<>> /\ (Firewall \notin live \/ Firewall \in firewalls.error)
  BY <1>1, <1>2 DEF Inv, Phased, Waited
<1>4. Inv' /\ Known' /\ AgentsAreLate'
  <2>1. Known'
    BY <1>1, <1>2 DEF Known
  <2>2. AgentsAreLate'
    BY <1>1 DEF AgentsAreLate
  <2> QED
    BY <1>2, <2>1, <2>2, FirewallIsGoneKeeps
<1>5. ASSUME ~untidy PROVE Tidy'
  <2>1. live' = live \ {Head(cleanups).object}
    BY <1>1, <1>3, <1>5 DEF TidyInv, Tidy, Firewall
  <2> QED
    BY <1>1, <1>3, <1>5, <2>1, CleanedUpTidies
<1> QED
  BY <1>1, <1>4, <1>5 DEF TidyInv

\* A step that changes no plan and ends no object of the class or of a scope.
LEMMA SamePlansTidy ==
  ASSUME TidyInv, ~untidy, NEW G, live' = live \ G, G \intersect given = {},
         UNCHANGED <<scopes, cleanups, owner, given, made, reported>>,
         firewalls'.error = firewalls.error,
         \A u \in Objects : uses'[u] \subseteq uses[u],
         \A e \in Elements(scopes) :
           (~e.ignore => e.object \notin G) /\ e.first \intersect G = {}
  PROVE  Tidy'
<1>1. InOrder'
  BY OrderAfter
<1> QED
  BY <1>1, RemovalTidies

LEMMA AgentTidies ==
  ASSUME TidyInv, Agent PROVE TidyInv'
<1>1. PICK o \in Of("firewall") : AgentDeletesFirewall(o) \/ AgentFails(o)
  BY DEF Agent
<1>2. Inv /\ Known /\ AgentsAreLate
  BY DEF TidyInv
<1>3. /\ o \in firewalls.pending /\ o \in made
      /\ phase \in {"cleanup", "waiting", "done"} /\ scopes = <<>>
  <2>1. o \in firewalls.pending /\ o \in made
    BY <1>1, <1>2, FirewallTypes DEF AgentDeletesFirewall, AgentFails
  <2> QED
    BY <1>2, <2>1 DEF AgentsAreLate, Inv, Phased
<1>4. UNCHANGED <<phase, scopes, cleanups, given, uses, owner, reported, made>>
  BY <1>1 DEF AgentDeletesFirewall, AgentFails, test, history
<1>5. Known'
  BY <1>2, <1>4 DEF Known
<1>6. AgentsAreLate'
  BY <1>3, <1>4 DEF AgentsAreLate
<1>7. Inv'
  BY <1>2, AgentKeeps
<1>8. CASE AgentDeletesFirewall(o)
  <2>1. live' = live \ {o} /\ firewalls'.error = firewalls.error /\ untidy' = untidy
    BY <1>2, <1>8, FirewallTypes DEF AgentDeletesFirewall, history
  <2>2. {o} \intersect given = {} /\ Elements(scopes) = {}
    BY <1>2, <1>3, NoElements DEF Inv, Types, CloudTypes
  <2>3. ASSUME ~untidy PROVE Tidy'
    BY <1>4, <2>1, <2>2, <2>3, SamePlansTidy
  <2> QED
    BY <1>5, <1>6, <1>7, <2>1, <2>3 DEF TidyInv
<1>9. CASE AgentFails(o)
  <2>1. untidy' = TRUE
    BY <1>9 DEF AgentFails
  <2> QED
    BY <1>5, <1>6, <1>7, <2>1 DEF TidyInv
<1> QED
  BY <1>1, <1>8, <1>9

\* A helper's object that the test deletes itself: what goes with it is not the
\* class's, nor the object of a deletion that must find it.
LEMMA DeleteInBodyTidies ==
  ASSUME TidyInv, NEW o \in Objects, DeleteInBody(o) PROVE TidyInv'
<1>1. /\ o \in live \intersect made /\ live' = live \ ({o} \union Carried(o))
      /\ untidy' = (untidy \/ ({o} \union Carried(o)) \intersect NotIgnored # {})
      /\ UNCHANGED <<phase, scopes, cleanups, given, uses, owner, firewalls, reported, made>>
  BY DEF DeleteInBody, test
<1>2. Inv /\ Known /\ AgentsAreLate
  BY DEF TidyInv
<1>3. Inv' /\ Known' /\ AgentsAreLate'
  <2>1. Known'
    BY <1>1, <1>2 DEF Known
  <2>2. AgentsAreLate'
    BY <1>1, <1>2 DEF AgentsAreLate
  <2> QED
    BY <1>2, <2>1, <2>2, BodyKeeps
<1>4. ASSUME ~untidy' PROVE Tidy'
  <2> SUFFICES ASSUME NEW G, G = {o} \union Carried(o) PROVE Tidy'
    OBVIOUS
  <2>1. ~untidy /\ G \intersect NotIgnored = {}
    BY <1>1, <1>4
  <2>2. G \intersect given = {}
    <3>1. o \notin given
      BY <1>1, <1>2 DEF Inv, Types, CloudTypes
    <3>2. \A u \in Carried(o) : o \in uses[u]
      BY DEF Carried
    <3>3. \A g \in given : uses[g] \subseteq given
      BY <2>1 DEF TidyInv, Tidy, GivensStay
    <3> QED
      BY <3>1, <3>2, <3>3
  <2>3. \A e \in Elements(scopes) :
          (~e.ignore => e.object \notin G) /\ e.first \intersect G = {}
    <3> SUFFICES ASSUME NEW i \in DOMAIN scopes
                 PROVE  /\ ~scopes[i].ignore => scopes[i].object \notin G
                        /\ scopes[i].first \intersect G = {}
      BY DEF Elements
    <3>1. ~scopes[i].ignore => scopes[i].object \in NotIgnored
      BY DEF NotIgnored
    <3>2. scopes[i].first \subseteq NotIgnored
      BY DEF NotIgnored
    <3> QED
      BY <2>1, <3>1, <3>2
  <2> QED
    BY <1>1, <2>1, <2>2, <2>3, SamePlansTidy
<1> QED
  BY <1>3, <1>4 DEF TidyInv

LEMMA RuleTidies ==
  ASSUME TidyInv, NEW p \in Of("fw_policy"), NEW r \in Of("fw_rule"),
         InsertFirewallRuleInPolicy(p, r) \/ RemoveFirewallRuleFromPolicy(p, r)
  PROVE  TidyInv'
<1>1. /\ p \in live
      /\ UNCHANGED <<phase, scopes, cleanups, given, live, owner, firewalls, reported, made>>
  BY DEF InsertFirewallRuleInPolicy, RemoveFirewallRuleFromPolicy, test, history
<1>2. Inv /\ Known /\ AgentsAreLate
  BY DEF TidyInv
<1>3. /\ Inv' /\ AgentsAreLate'
  BY <1>1, <1>2, BodyKeeps DEF AgentsAreLate
<1>4. /\ p \in Objects /\ r \in Objects /\ Kind(r) = "fw_rule"
      /\ uses \in [Objects -> SUBSET Objects] /\ live \subseteq given \union made
  BY <1>2, KindsAre, OfIsObjects, FirewallTypes DEF Inv, Types, CloudTypes
<1>5. CASE InsertFirewallRuleInPolicy(p, r)
  <2>1. r \in live /\ uses' = [uses EXCEPT ![p] = uses[p] \union {r}] /\ untidy' = TRUE
    BY <1>5 DEF InsertFirewallRuleInPolicy
  <2>2. Known'
    <3>1. \A o \in Objects : uses'[o] = IF o = p THEN uses[p] \union {r} ELSE uses[o]
      BY <1>4, <2>1
    <3> QED
      BY <1>1, <1>2, <1>4, <2>1, <3>1 DEF Known
  <2> QED
    BY <1>3, <2>1, <2>2 DEF TidyInv
<1>6. CASE RemoveFirewallRuleFromPolicy(p, r)
  <2>1. uses' = [uses EXCEPT ![p] = uses[p] \ {r}] /\ untidy' = untidy
    BY <1>6 DEF RemoveFirewallRuleFromPolicy, history
  <2>2. \A o \in Objects : uses'[o] \subseteq uses[o]
    BY <1>4, <2>1
  <2>3. Known'
    BY <1>1, <1>2, <2>2, StaysKnown
  <2>4. ASSUME ~untidy PROVE Tidy'
    <3> SUFFICES ASSUME NEW G, G = {} PROVE Tidy'
      OBVIOUS
    <3>1. live' = live \ G /\ G \intersect given = {}
      BY <1>1
    <3> QED
      BY <1>1, <2>2, <2>4, <3>1, SamePlansTidy
  <2> QED
    BY <1>3, <2>1, <2>3, <2>4 DEF TidyInv
<1> QED
  BY <1>5, <1>6

\* The test goes on, waits, or comes to an end, and nothing else changes.
LEMMA NothingTidies ==
  ASSUME TidyInv, Inv',
         BodyRaises \/ EndBody \/ EndCleanup \/ DeleteFirewall \/ WaitFirewall \/ UNCHANGED vars
  PROVE  TidyInv'
<1>1. /\ UNCHANGED <<scopes, cleanups, given, live, uses, owner, reported, made, untidy>>
      /\ firewalls' = firewalls \/ (DeleteFirewall /\ phase' = "waiting")
  BY DEF BodyRaises, EndBody, EndCleanup, DeleteFirewall, WaitFirewall, vars, test, neutron,
     history
<1>2. Inv /\ Known /\ AgentsAreLate
  BY DEF TidyInv
<1>3. Known'
  BY <1>1, <1>2 DEF Known
<1>4. firewalls'.error = firewalls.error
  BY <1>1, <1>2, FirewallTypes DEF DeleteFirewall
<1>5. AgentsAreLate'
  <2>1. CASE firewalls' = firewalls
    <3>1. \/ phase' = phase \/ phase' \in {"cleanup", "waiting", "done"} \/ phase = "body"
      BY DEF BodyRaises, EndBody, EndCleanup, DeleteFirewall, WaitFirewall, vars
    <3>2. CASE phase = "body"
      BY <1>2, <2>1, <3>2 DEF AgentsAreLate
    <3> QED
      BY <1>2, <2>1, <3>1, <3>2 DEF AgentsAreLate
  <2>2. CASE phase' = "waiting"
    BY <2>2 DEF AgentsAreLate
  <2> QED
    BY <1>1, <2>1, <2>2
<1>6. ASSUME ~untidy PROVE Tidy'
  <2> SUFFICES ASSUME NEW G, G = {} PROVE Tidy'
    OBVIOUS
  <2>1. live' = live \ G /\ G \intersect given = {}
    BY <1>1
  <2>2. \A e \in Elements(scopes) : (~e.ignore => e.object \notin G) /\ e.first \intersect G = {}
    OBVIOUS
  <2>3. \A u \in Objects : uses'[u] \subseteq uses[u]
    BY <1>1
  <2> QED
    BY <1>1, <1>4, <1>6, <2>1, <2>2, <2>3, SamePlansTidy
<1> QED
  BY <1>1, <1>3, <1>5, <1>6 DEF TidyInv

LEMMA FirewallTimeoutTidies ==
  ASSUME TidyInv, FirewallTimeout PROVE TidyInv'
<1>1. /\ phase' = "cleanup" /\ untidy' = TRUE /\ UNCHANGED <<given, uses, made>>
  BY DEF FirewallTimeout, NextCleanup, neutron
<1>2. Inv /\ Known
  BY DEF TidyInv
<1>3. Inv' /\ Known' /\ AgentsAreLate'
  <2>1. Known'
    BY <1>1, <1>2 DEF Known
  <2>2. AgentsAreLate'
    BY <1>1 DEF AgentsAreLate
  <2> QED
    BY <1>2, <2>1, <2>2, FirewallTimeoutKeeps
<1> QED
  BY <1>1, <1>3 DEF TidyInv

-----------------------------------------------------------------------------
(* Theorems.                                                               *)

\* In every reachable state each object the test made is accounted for: its deletion
\* is planned in a scope or registered, or it was reported or given up by its firewall
\* agent, or its helper plans no deletion or drops as_admin on the way to it.
THEOREM EachIsAccountedFor == Spec => []Inv
<1>1. Inv /\ [Next]_vars => Inv'
  <2> SUFFICES ASSUME Inv, [Next]_vars PROVE Inv'
    OBVIOUS
  <2>1. CASE Body
    BY <2>1, HelpersKeep, BodyKeeps DEF Body
  <2>2. CASE Step
    BY <2>2, LeaveScopeKeeps, BodyKeeps, RunCleanupKeeps, DeleteFirewallKeeps,
       FirewallIsGoneKeeps, WaitFirewallKeeps, FirewallTimeoutKeeps DEF Step
  <2>3. CASE Agent
    BY <2>3, AgentKeeps
  <2>4. CASE UNCHANGED vars
    BY <2>4, StutterKeeps
  <2> QED
    BY <2>1, <2>2, <2>3, <2>4 DEF Next
<1> QED
  BY <1>1, InvInit, PTL DEF Spec

\* Deletions are planned for what the test has made only, objects of the class stay
\* apart from those of the test, and calls and polls are bounded.
THEOREM TypesHold == Spec => []TypeOK
<1>1. Inv => TypeOK
  <2> SUFFICES ASSUME Inv PROVE TypeOK
    OBVIOUS
  <2>1. \A e \in {scopes[i] : i \in DOMAIN scopes} \union {cleanups[i] : i \in DOMAIN cleanups} :
          e.object \in made /\ e.by \in {"tenant", "admin"} /\ e.first \subseteq Objects
    <3>1. ASSUME NEW s \in Seq(Deletions), NEW e \in Elements(s)
          PROVE  e \in Deletions
      BY <3>1 DEF Elements
    <3>2. \A e \in Elements(scopes) \union Elements(cleanups) : e.object \in made /\ e \in Deletions
      BY <3>1, Plans DEF Inv, Types, PlanTypes
    <3> QED
      BY <3>2 DEF Elements, Deletions, Roles
  <2> QED
    BY <2>1 DEF Inv, Types, CloudTypes, ControlTypes, TypeOK, Roles
<1> QED
  BY <1>1, EachIsAccountedFor, PTL

\* Once the cleanups have run, what a test has made is gone, unless a deletion raised,
\* the agent gave up on the firewall, the test asked for no deletion, or it is the
\* admin's and its helper deletes as the tenant.
THEOREM NothingIsLeftSilently == Spec => []NothingLeftSilently
<1>1. Inv => NothingLeftSilently
  <2> SUFFICES ASSUME Inv, phase = "done", NEW o \in live \intersect made
               PROVE  o \in reported \union kept \union firewalls.error
    BY DEF NothingLeftSilently
  <2>1. ObjectsOf(scopes) = {} /\ ObjectsOf(cleanups) = {}
    BY NoElements DEF Inv, Phased
  <2> QED
    BY <2>1 DEF Inv, Accounted
<1> QED
  BY <1>1, EachIsAccountedFor, PTL

\* While a test is tidy, each plan's object goes after what stands on it, and who
\* deletes it sees it.
THEOREM TidyIsInOrder == Spec => []TidyInv
<1>1. ASSUME TidyInv, [Next]_vars, Inv' PROVE TidyInv'
  <2>1. CASE Body
    <3>1. CASE \E a \in BOOLEAN : Helpers(a)
      BY <1>1, <3>1, HelpersTidy
    <3>2. CASE \E o \in Objects : DeleteInBody(o)
      BY <1>1, <3>2, DeleteInBodyTidies
    <3>3. CASE \E p \in Of("fw_policy"), r \in Of("fw_rule") :
                 InsertFirewallRuleInPolicy(p, r) \/ RemoveFirewallRuleFromPolicy(p, r)
      BY <1>1, <3>3, RuleTidies
    <3>4. CASE BodyRaises
      BY <1>1, <3>4, NothingTidies
    <3> QED
      BY <2>1, <3>1, <3>2, <3>3, <3>4 DEF Body
  <2>2. CASE Step
    BY <1>1, <2>2, LeaveScopeTidies, RunCleanupTidies, NothingTidies, FirewallIsGoneTidies,
       FirewallTimeoutTidies DEF Step
  <2>3. CASE Agent
    BY <1>1, <2>3, AgentTidies
  <2>4. CASE UNCHANGED vars
    BY <1>1, <2>4, NothingTidies
  <2> QED
    BY <1>1, <2>1, <2>2, <2>3, <2>4 DEF Next
<1> QED
  BY <1>1, TidyInit, EachIsAccountedFor, PTL DEF Spec

\* A test that did nothing untidy leaves exactly the class's objects, and none of its
\* deletions raised.
THEOREM TidyTestsEndClean == Spec => []TidyIsClean
<1>1. TidyInv => TidyIsClean
  <2> SUFFICES ASSUME TidyInv, phase = "done", ~untidy PROVE reported = {} /\ live = given
    BY DEF TidyIsClean
  <2>1. ObjectsOf(scopes) = {} /\ ObjectsOf(cleanups) = {}
    BY NoElements DEF TidyInv, Inv, Phased
  <2>2. reported = {} /\ given \subseteq live /\ live \intersect made = {}
    BY <2>1 DEF TidyInv, Tidy, GivensStay, Planned
  <2>3. live \subseteq given \union made
    BY DEF TidyInv, Inv, Types, CloudTypes
  <2> QED
    BY <2>2, <2>3
<1> QED
  BY <1>1, TidyIsInOrder, PTL
=============================================================================
