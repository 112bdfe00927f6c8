------------------------------ MODULE Gateways ------------------------------
(***************************************************************************)
(* The gateway test classes (tests/api/base_nuage_gateway.py and the class *)
(* for redundancy groups that extends it): gateways, their ports, groups   *)
(* of two gateways, VLANs on a port or a group, and the vports that tests  *)
(* put on a VLAN through Neutron, all listed in the class, next to a       *)
(* network in a net-partition of its own.                                  *)
(*                                                                         *)
(* resource_cleanup asks for everything it lists to be deleted, catches    *)
(* each exception and goes on, and raises a TearDownException at its end   *)
(* if it caught one.  Two requests share a try: the interface and its      *)
(* vport, the permission and its VLAN.  The cleanup of the OpenStack       *)
(* objects stands outside every try.                                       *)
(***************************************************************************)
EXTENDS Naturals, Sequences

CONSTANTS Gateways, GwPorts, Groups, GwVlans, GwVports

Objects == Gateways \union GwPorts \union Groups \union GwVlans \union GwVports

\* A slip: the gateways before what stands on them.
GatewaysFirst == <<GwVports, Gateways, GwPorts, Groups, GwVlans>>
\* The loops of resource_cleanup.
CleanupOrder == <<GwVports, GwVlans, Groups, GwPorts, Gateways>>

ASSUME KindsAssumption ==
  \A i, j \in DOMAIN CleanupOrder : i # j => CleanupOrder[i] \intersect CleanupOrder[j] = {}

VARIABLES
  phase,    \* "super" and "setup" (of resource_setup), "body", "cleanup" (the
            \* loops), "openstack", "netpartition", "done"
  loop,     \* which loop runs
  visited,  \* what the loops have come by
  listed,   \* the class's lists
  has_exception,
  outcome,  \* "none" yet, "clean", or the exception resource_cleanup raised
  live,     \* what exists on the VSD
  on,       \* what each stands on: the VSD refuses to delete that before
  permits,  \* the VLANs that a tenant may use
  networks, \* whether the class's network exists in nondef_netpart
  netpart,  \* nondef_netpart: "unset", "set", or "lost" (made, and the answer lost)
  faulted,  \* history: objects on which a request of the cleanup failed at random
  troubled  \* history: set-up, a test or a request failed

lists == <<visited, listed>>
vsd == <<live, on, permits>>
openstack == <<networks, netpart>>
control == <<phase, loop, has_exception, outcome>>
history == <<faulted, troubled>>
vars == <<control, lists, vsd, openstack, history>>

InUse(o) == \E c \in live : o \in on[c]

Init ==
  /\ phase = "super" /\ loop = 1
  /\ visited = {} /\ listed = {}
  /\ has_exception = FALSE /\ outcome = "none"
  /\ live = {} /\ on = [o \in Objects |-> {}] /\ permits = {}
  /\ networks = FALSE /\ netpart = "unset"
  /\ faulted = {} /\ troubled = FALSE

-----------------------------------------------------------------------------
(* resource_setup and the tests.                                           *)

\* tearDownClass calls resource_cleanup after a resource_setup that raised.
SetupRaises == phase' = "cleanup" /\ troubled' = TRUE /\ UNCHANGED outcome
\* Without the lists its first loop raises and nothing is cleaned.
NoLists == phase' = "done" /\ troubled' = TRUE /\ outcome' = "AttributeError"

\* super().resource_setup(), then "cls.gateways = []" and so on.
SetupLists ==
  /\ phase = "super"
  /\ \/ phase' = "setup" /\ UNCHANGED <<outcome, troubled>>
     \/ NoLists
  /\ UNCHANGED <<loop, has_exception, lists, vsd, openstack, faulted>>

\* The class for groups makes its own lists when all of this is done.
BaseSetupRaises == SetupRaises \/ NoLists

CreateNetpartition ==
  /\ phase = "setup" /\ netpart = "unset"
  /\ \/ netpart' = "set" /\ UNCHANGED <<phase, outcome, troubled>>
     \/ netpart' \in {"unset", "lost"} /\ BaseSetupRaises
  /\ UNCHANGED <<loop, has_exception, lists, vsd, networks, faulted>>

CreateNondefNetwork ==
  /\ phase = "setup" /\ netpart = "set" /\ ~networks
  /\ \/ networks' = TRUE /\ UNCHANGED <<phase, outcome, troubled>>
     \/ UNCHANGED networks /\ BaseSetupRaises
  /\ UNCHANGED <<loop, has_exception, lists, vsd, netpart, faulted>>

Made(o, bases) ==
  /\ live' = live \union {o}
  /\ on' = [on EXCEPT ![o] = bases]
  /\ UNCHANGED permits

\* A create_ helper: the POST, then the append to a list.  A POST that raises
\* may have taken effect, and ends the set-up.
Create(o, bases) ==
  /\ phase = "setup" /\ networks
  /\ o \notin live \union listed /\ bases \subseteq listed
  /\ \/ Made(o, bases) /\ listed' = listed \union {o} /\ UNCHANGED <<phase, outcome, troubled>>
     \/ Made(o, bases) /\ UNCHANGED listed /\ SetupRaises
     \/ UNCHANGED <<vsd, listed>> /\ SetupRaises
  /\ UNCHANGED <<loop, has_exception, visited, openstack, faulted>>

CreateGateway(g) == Create(g, {})
CreateGatewayPort(p) == \E g \in Gateways : Create(p, {g})
CreateGatewayVlan(v) == \E p \in GwPorts : Create(v, {p})
CreateGatewayVlanRedundantPort(v) == \E r \in Groups : Create(v, {r})
\* A group takes over the ports of its peers that have a common name.
RedundantPorts(g, h) == {p \in GwPorts \intersect live : on[p] \subseteq {g, h}}
CreateGatewayRedundancyGroup(r) ==
  \E g, h \in Gateways : g # h /\ Create(r, {g, h} \union RedundantPorts(g, h))

EndSetup ==
  /\ phase = "setup" /\ networks
  /\ phase' = "body"
  /\ UNCHANGED <<loop, has_exception, outcome, lists, vsd, openstack, history>>

\* What a test makes through Neutron it lists, unless an assertion is first.
InTest(o, bases) ==
  /\ phase = "body" /\ o \notin live \union listed
  /\ Made(o, bases)
  /\ \/ listed' = listed \union {o} /\ UNCHANGED troubled
     \/ UNCHANGED listed /\ troubled' = TRUE
  /\ UNCHANGED <<control, visited, openstack, faulted>>

TestCreatesVlan(v) == \E p \in listed \intersect live \intersect GwPorts : InTest(v, {p})

\* The plugin needs the VLAN, and gives a tenant's the permission to use it.
CreateGatewayVport(w) == \E v \in listed \intersect live \intersect GwVlans : InTest(w, {v})

AssignGatewayVlan(v) ==
  /\ phase = "body" /\ v \in live
  /\ permits' \in {permits \union {v}, permits \ {v}}
  /\ UNCHANGED <<control, lists, live, on, openstack, history>>

\* test_delete_vlan takes it off the list last.
DeleteGatewayVlanInTest(v) ==
  /\ phase = "body" /\ v \in live \intersect listed /\ ~InUse(v)
  /\ live' = live \ {v} /\ permits' = permits \ {v}
  /\ \/ listed' = listed \ {v} /\ UNCHANGED troubled
     \/ UNCHANGED listed /\ troubled' = TRUE
  /\ UNCHANGED <<control, visited, on, openstack, faulted>>

EndBody ==
  /\ phase = "body"
  /\ phase' = "cleanup"
  /\ UNCHANGED <<loop, has_exception, outcome, lists, vsd, openstack, history>>

-----------------------------------------------------------------------------
(* resource_cleanup.                                                       *)

\* A slip: the exception is logged and forgotten.
JustLog == UNCHANGED <<phase, has_exception>>
\* A slip: as the class for the advanced mode does, no more loops.
GiveUp == has_exception' = TRUE /\ phase' = "openstack"
\* LOG.exception(exc); has_exception = True
Caught == has_exception' = TRUE /\ UNCHANGED phase

\* The objects of the loop that are still to come.
Ahead == (listed \ visited) \intersect CleanupOrder[loop]

Gone(o) == live' = live \ {o} /\ permits' = permits \ {o} /\ UNCHANGED on

\* A request that answers what the VSD finds: nothing, something in use, or
\* an object it deletes.
Answered(o) ==
  /\ \/ o \in live /\ ~InUse(o) /\ Gone(o) /\ UNCHANGED <<phase, has_exception>>
     \/ o \in live /\ InUse(o) /\ UNCHANGED vsd /\ Caught
     \/ o \notin live /\ UNCHANGED vsd /\ Caught
  /\ UNCHANGED history

\* A request that raises for a reason of its own, in effect or not.
Raised(o) ==
  /\ Caught
  /\ \/ UNCHANGED vsd
     \/ o \in live /\ ~InUse(o) /\ Gone(o)
  /\ faulted' = faulted \union {o} /\ troubled' = TRUE

Delete(o) == Answered(o) \/ Raised(o)

\* delete_vlan_permission looks the permission up and deletes it, if there is
\* one; the VLAN stays when its own deletion is refused or raises.
PermissionOnly(v) ==
  /\ v \in permits /\ permits' = permits \ {v} /\ UNCHANGED <<live, on>>
  /\ Caught
  /\ \/ InUse(v) /\ UNCHANGED history
     \/ faulted' = faulted \union {v} /\ troubled' = TRUE

DeletePermissionAndVlan(v) ==
  \/ (v \in permits => ~InUse(v)) /\ Answered(v)
  \/ PermissionOnly(v)
  \/ Raised(v)

Visit(o) ==
  /\ phase = "cleanup" /\ loop <= Len(CleanupOrder)
  /\ o \in Ahead
  /\ visited' = visited \union {o}
  /\ UNCHANGED <<loop, outcome, listed, openstack>>

\* delete_host_interface or delete_bridge_interface, then delete_host_vport: the
\* vport takes its interface along.
CleanVport(w) == w \in GwVports /\ Visit(w) /\ Delete(w)
CleanVlan(v) == v \in GwVlans /\ Visit(v) /\ DeletePermissionAndVlan(v)
CleanGroup(r) == r \in Groups /\ Visit(r) /\ Delete(r)
CleanPort(p) == p \in GwPorts /\ Visit(p) /\ Delete(p)
CleanGateway(g) == g \in Gateways /\ Visit(g) /\ Delete(g)

\* A slip: the lists again, from the first.
Rewind == loop' = 1 /\ visited' = {}
\* A slip: a loop is passed over.
SkipList == loop' = loop + 2 /\ UNCHANGED visited
NextList == loop' = loop + 1 /\ UNCHANGED visited

NextLoop ==
  /\ phase = "cleanup" /\ loop <= Len(CleanupOrder) /\ Ahead = {}
  /\ NextList
  /\ UNCHANGED <<phase, has_exception, outcome, listed, vsd, openstack, history>>

EndOfLoops ==
  /\ phase = "cleanup" /\ loop > Len(CleanupOrder)
  /\ phase' = "openstack"
  /\ UNCHANGED <<loop, has_exception, outcome, lists, vsd, openstack, history>>

\* super().resource_cleanup(): what it raises leaves resource_cleanup at once.
CleanupOpenStack ==
  /\ phase = "openstack"
  /\ \/ phase' = "netpartition" /\ networks' = FALSE /\ UNCHANGED <<outcome, troubled>>
     \/ phase' = "done" /\ outcome' = "OpenStack" /\ troubled' = TRUE /\ UNCHANGED networks
  /\ UNCHANGED <<loop, has_exception, lists, vsd, netpart, faulted>>

NetpartitionDeleted == netpart = "set" /\ netpart' = "unset"

\* delete_netpartition, caught as well; then the TearDownException.
DeleteNetpartition ==
  /\ phase = "netpartition"
  /\ phase' = "done"
  /\ \/ /\ NetpartitionDeleted
        /\ outcome' = IF has_exception THEN "TearDownException" ELSE "clean"
        /\ UNCHANGED <<has_exception, troubled>>
     \/ /\ UNCHANGED netpart
        /\ has_exception' = TRUE /\ outcome' = "TearDownException"
        /\ troubled' = TRUE
  /\ UNCHANGED <<loop, lists, vsd, networks, faulted>>

-----------------------------------------------------------------------------
Setup ==
  \/ SetupLists \/ CreateNetpartition \/ CreateNondefNetwork \/ EndSetup
  \/ \E g \in Gateways : CreateGateway(g)
  \/ \E p \in GwPorts : CreateGatewayPort(p)
  \/ \E r \in Groups : CreateGatewayRedundancyGroup(r)
  \/ \E v \in GwVlans : CreateGatewayVlan(v) \/ CreateGatewayVlanRedundantPort(v)

Body ==
  \/ \E v \in GwVlans : TestCreatesVlan(v) \/ AssignGatewayVlan(v) \/ DeleteGatewayVlanInTest(v)
  \/ \E w \in GwVports : CreateGatewayVport(w)
  \/ EndBody

Clean(o) == CleanVport(o) \/ CleanVlan(o) \/ CleanGroup(o) \/ CleanPort(o) \/ CleanGateway(o)
Cleanup ==
  (\E o \in Objects : Clean(o)) \/ NextLoop \/ EndOfLoops \/ CleanupOpenStack \/ DeleteNetpartition

Next == Setup \/ Body \/ Cleanup

Spec == Init /\ [][Next]_vars

\* Every request is answered or times out, and resource_cleanup runs on.
FairSpec == Spec /\ WF_vars(Cleanup)

-----------------------------------------------------------------------------
(* Properties.                                                             *)

\* Variables keep their kind; only what is on the VSD has permissions.
TypeOK ==
  /\ phase \in {"super", "setup", "body", "cleanup", "openstack", "netpartition", "done"}
  /\ loop \in 1 .. Len(CleanupOrder) + 1
  /\ visited \subseteq listed /\ listed \subseteq Objects
  /\ has_exception \in BOOLEAN
  /\ outcome \in {"none", "clean", "TearDownException", "OpenStack", "AttributeError"}
  /\ live \subseteq Objects /\ on \in [Objects -> SUBSET Objects] /\ permits \subseteq live
  /\ networks \in BOOLEAN /\ netpart \in {"unset", "set", "lost"}
  /\ faulted \subseteq listed /\ troubled \in BOOLEAN

\* A cleanup that raises nothing has deleted everything the class lists, and
\* the network and net-partition made at set-up.
NothingLeftSilently ==
  outcome = "clean" => listed \intersect live = {} /\ ~networks /\ netpart = "unset"

\* When the loops are over, what is left of the lists is what a request failed
\* on, and what the VSD had to keep because something else still stands on it:
\* no failure costs another object its deletion.
FailuresAreContained ==
  phase \in {"openstack", "netpartition", "done"} /\ outcome # "AttributeError" =>
    \A o \in listed \intersect live : o \in faulted \/ InUse(o)

\* Nothing fails in set-up, tests and requests: a clean end, and nothing left.
TidyIsClean ==
  phase = "done" /\ ~troubled => outcome = "clean" /\ live = {} /\ netpart = "unset"

\* resource_cleanup comes to its end.
CleanupEnds == phase = "cleanup" ~> phase = "done"
=============================================================================
