---------------------------- MODULE CliTestCase ----------------------------
(***************************************************************************)
(* CLIClientTestCase (lib/cli/client_testcase.py): a class of tests that   *)
(* drive the cloud with the command line clients.  The class makes a       *)
(* project and a user; its tests run commands as that user or as the admin *)
(* and read what they print.  Ports, routers, subnets and networks are     *)
(* listed, and deleted by the admin when the class is over; a test may take*)
(* an object from its list and register its deletion instead.  The other   *)
(* objects are the tests' own business.                                    *)
(*                                                                         *)
(* An object is named by its kind: a class makes one of each, and two      *)
(* subnets, one of each IP version.                                        *)
(***************************************************************************)
EXTENDS OutputParser, FiniteSets

CONSTANTS
  MaxMade,  \* bound: objects made
  MaxTests, \* bound: tests in the class
  Made      \* bound: the objects that tests make

-----------------------------------------------------------------------------
(* The commands that create an object, and whether it is put on a list.    *)

Creates(objects, on_list) == [object : objects, on_list : {on_list}]

create_network_with_args == Creates({"network"}, TRUE)
create_subnet_with_args == Creates({"subnet4", "subnet6"}, TRUE)
create_router_with_args == Creates({"router"}, TRUE)
create_port_with_args == Creates({"port"}, TRUE)
create_floating_ip_with_args == Creates({"floating_ip"}, TRUE)
create_security_group_with_args == Creates({"security_group"}, TRUE)
create_security_group_rule_with_args == Creates({"rule"}, TRUE)
create_vm_with_args == Creates({"vm"}, TRUE)
create_nuage_l2bridge_cli == Creates({"l2bridge"}, FALSE)
create_redirect_target_with_args == Creates({"redirect_target"}, FALSE)
create_redirect_target_in_l2_subnet == Creates({"redirect_target"}, FALSE)
create_redirect_target_in_l3_subnet == Creates({"redirect_target"}, FALSE)
create_redirect_target_rule_with_args == Creates({"rt_rule"}, FALSE)
create_nuage_netpartition_cli == Creates({"netpartition"}, FALSE)
create_nuage_project_netpartition_mapping_cli == Creates({"mapping"}, FALSE)

CreateCommands ==
  create_network_with_args \union create_subnet_with_args
  \union create_router_with_args \union create_port_with_args
  \union create_floating_ip_with_args \union create_security_group_with_args
  \union create_security_group_rule_with_args \union create_vm_with_args
  \union create_nuage_l2bridge_cli \union create_redirect_target_with_args
  \union create_redirect_target_in_l2_subnet
  \union create_redirect_target_in_l3_subnet
  \union create_redirect_target_rule_with_args
  \union create_nuage_netpartition_cli
  \union create_nuage_project_netpartition_mapping_cli

Objects == {c.object : c \in CreateCommands}

\* The commands that delete one, and those that tests register with addCleanup, as
\* the class's ("admin") or the test's own ("me").
delete_network == {"network"}
delete_subnet == {"subnet4", "subnet6"}
delete_security_group == {"security_group"}
delete_redirect_target == {"redirect_target"}
delete_nuage_l2bridge_cli == {"l2bridge"}
delete_nuage_netpartition_cli == {"netpartition"}
delete_nuage_project_netpartition_mapping_cli == {"mapping"}
_delete_floating_ip == {"floating_ip"}

DeleteCommands ==
  delete_network \union delete_subnet \union delete_security_group
  \union delete_redirect_target \union delete_nuage_l2bridge_cli
  \union delete_nuage_netpartition_cli
  \union delete_nuage_project_netpartition_mapping_cli
Registers ==
  [admin |-> delete_network \union delete_subnet \union {"port"} \union _delete_floating_ip,
   me |-> delete_network \union delete_security_group \union delete_nuage_netpartition_cli]

Subnets == {"subnet4", "subnet6"}
\* Slip: the networks are cleaned up first, with the subnets that still stand on them.
NetworksFirst == <<{"network"}, {"port"}, {"router"}, Subnets>>
\* The lists the class cleans up, in that order.
CleanedLists == <<{"port"}, {"router"}, Subnets, {"network"}>>
Cleaned == UNION {CleanedLists[i] : i \in 1 .. 4}

\* An object and what must be there and be seen to create it; and an object and
\* what goes with it.
NeedsOf(o) ==
  {n \in Objects : <<o, n>> \in
     ((Subnets \union {"port"}) \X {"network"})
     \union {<<"rule", "security_group">>, <<"vm", "port">>,
             <<"redirect_target", "subnet4">>, <<"rt_rule", "redirect_target">>,
             <<"mapping", "netpartition">>}}
GoesWith(o) ==
  {u \in Objects : <<o, u>> \in
     ({"network"} \X Subnets)
     \union {<<"security_group", "rule">>, <<"redirect_target", "rt_rule">>}}

-----------------------------------------------------------------------------
(* The commands that ask, or update: what is read from what is printed.    *)

Asks(object, prints, reads) == [object |-> object, prints |-> prints, reads |-> reads]

show_network == Asks("network", "details", "same")
show_subnet == Asks("subnet4", "details", "same")
show_router == Asks("router", "details", "same")
show_port == Asks("port", "details", "same")
show_security_group == Asks("security_group", "details", "same")
show_floating_ip == Asks("floating_ip", "details", "details")
show_nuage_floating_ip == Asks("floating_ip", "details", "details")
show_nuage_floatingip == Asks("floating_ip", "details", "details")
list_nuage_floating_ip_for_subnet == Asks("subnet4", "details", "details")
list_nuage_floating_ip_for_port == Asks("port", "details", "details")
show_nuage_redirect_target == Asks("redirect_target", "details", "details")
show_nuage_policy_group == Asks("port", "details", "details")
show_nuage_netpartition_cli == Asks("netpartition", "details", "details")
show_nuage_project_netpartition_mapping_cli == Asks("mapping", "details", "details")
update_security_group_with_args == Asks("security_group", "details", "details")
list_nuage_floating_ip_all == Asks("floating_ip", "list", "details")
list_nuage_redirect_target_for_l2_subnet == Asks("redirect_target", "list", "listing")
list_nuage_redirect_target_for_port == Asks("redirect_target", "list", "listing")
list_nuage_policy_group_for_subnet == Asks("subnet4", "list", "listing")
list_nuage_floatingip_by_subnet == Asks("floating_ip", "list", "listing")
list_nuage_floatingip_by_port == Asks("floating_ip", "list", "listing")
list_nuage_project_netpartition_mapping_cli == Asks("mapping", "list", "listing")

\* Of an update only the first line is read, and of these lists nothing.
update_subnet_with_args == Asks("subnet4", "line", "first_line")
update_router_with_args == Asks("router", "line", "first_line")
update_port_with_args == Asks("port", "line", "first_line")
update_floating_ip_with_args == Asks("floating_ip", "line", "first_line")
set_router_gateway_with_args == Asks("router", "line", "first_line")
associate_floating_ip == Asks("floating_ip", "line", "nothing")
disassociate_floating_ip == Asks("floating_ip", "line", "nothing")
show_nuage_l2bridge_cli == Asks("l2bridge", "details", "nothing")
update_nuage_l2bridge_cli == Asks("l2bridge", "line", "nothing")
list_networks == Asks("network", "list", "nothing")
list_subnets == Asks("subnet4", "list", "nothing")
list_routers == Asks("router", "list", "nothing")

AskCommands ==
  {update_subnet_with_args, update_router_with_args, update_port_with_args,
   update_floating_ip_with_args, set_router_gateway_with_args, associate_floating_ip,
   disassociate_floating_ip, show_nuage_l2bridge_cli, update_nuage_l2bridge_cli,
   list_networks, list_subnets, list_routers,
   show_network, show_subnet, show_router, show_port, show_security_group,
   show_floating_ip, show_nuage_floating_ip, show_nuage_floatingip,
   list_nuage_floating_ip_for_subnet, list_nuage_floating_ip_for_port,
   show_nuage_redirect_target, show_nuage_policy_group, show_nuage_netpartition_cli,
   show_nuage_project_netpartition_mapping_cli, update_security_group_with_args,
   list_nuage_floating_ip_all, list_nuage_redirect_target_for_l2_subnet,
   list_nuage_redirect_target_for_port, list_nuage_policy_group_for_subnet,
   list_nuage_floatingip_by_subnet, list_nuage_floatingip_by_port,
   list_nuage_project_netpartition_mapping_cli}
-----------------------------------------------------------------------------
VARIABLES
  phase,      \* "setup", "body", "raised", "ending" (a test's cleanups),
              \* "cleanup" (the class's), "over"
  tests,      \* started so far
  me,         \* as whom the test's commands run: "tenant" or "admin"
  project, user, \* "none", "made", "gone"
  listed,     \* the objects on the class's lists,
  cleanups,   \* and those a test registered, with the role that deletes them:
              \* the class's ("admin") or the test's own ("me"); last in first out
  made, live, \* the objects there were and are
  admins,     \* of these, the admin's
  addressed,  \* the subnets the port has addresses of,
  interfaces, \* and those the router has an interface on
  response,   \* of the last command that was read: whether that is what was
              \* printed, or what the reading raised
  reported,   \* a cleanup raised
  watched,    \* history: the objects that were on a cleaned list, or registered
  excused     \* history: a command failed of itself or lost an object, or a test left
              \* what its cleanups cannot delete

cloud == <<made, live, admins, addressed, interfaces>>
lists == <<listed, cleanups>>
history == <<watched, excused>>
vars == <<phase, tests, me, project, user, lists, cloud, response, reported, history>>

Answer(printed, read, raised) ==
  [raised |-> raised, is_printed |-> (raised = "" => read = printed)]
Silence == Answer(<<>>, <<>>, "")

Init ==
  /\ phase = "setup" /\ tests = 0 /\ me = "tenant"
  /\ project = "none" /\ user = "none"
  /\ listed = {} /\ cleanups = <<>>
  /\ made = {} /\ live = {} /\ admins = {} /\ addressed = {} /\ interfaces = {}
  /\ response = Silence /\ reported = FALSE
  /\ watched = {} /\ excused = FALSE

-----------------------------------------------------------------------------
(* The cloud.                                                              *)

Sees(o, by) == o \in live /\ (by = "admin" \/ o \notin admins)
InUse(o) ==
  \/ o = "network" /\ ("port" \in live \/ interfaces # {})
  \/ o \in Subnets /\ (o \in interfaces \/ ("port" \in live /\ o \in addressed))
  \/ o = "router" /\ interfaces # {}

\* Slip: fail_ok.
NothingFailed(ok) == FALSE
\* execute: a command that returns an error raises CommandFailed.
CommandFailed(ok) == ~ok
\* cmd_with_auth: whose credentials a command of neutron or nova gets.
RunsAs(who) == IF who = "me" THEN me ELSE who

\* What a deletion by a role may answer: it must see the object, which must not be
\* in use, and any command may fail.
Answers(o, by) == IF Sees(o, by) /\ ~InUse(o) THEN BOOLEAN ELSE {FALSE}
Deleted(o, ok) == IF ok THEN {o} \union GoesWith(o) ELSE {}
Delete(o, by, ok, also) ==
  /\ ok \in Answers(o, by)
  /\ live' = live \ Deleted(o, ok)
  /\ excused' = (excused \/ (~ok /\ TRUE \in Answers(o, by)) \/ also)
  /\ UNCHANGED <<made, admins, addressed, interfaces>>

-----------------------------------------------------------------------------
(* resource_setup.  A step that raises sends the class to its cleanup.     *)

CreateProject ==
  /\ phase = "setup" /\ project = "none"
  /\ \/ project' = "made" /\ UNCHANGED <<phase, excused>>
     \/ phase' = "cleanup" /\ excused' = TRUE /\ UNCHANGED project
  /\ UNCHANGED <<tests, me, user, lists, cloud, response, reported, watched>>

CreateUser ==
  /\ phase = "setup" /\ project = "made" /\ user = "none"
  /\ \/ user' = "made" /\ UNCHANGED <<phase, excused>>
     \/ phase' = "cleanup" /\ excused' = TRUE /\ UNCHANGED user
  /\ UNCHANGED <<tests, me, project, lists, cloud, response, reported, watched>>

AssignRole ==
  /\ phase = "setup" /\ user = "made"
  /\ \/ phase' = "body" /\ tests' = 1 /\ UNCHANGED excused
     \/ phase' = "cleanup" /\ excused' = TRUE /\ UNCHANGED tests
  /\ UNCHANGED <<me, project, user, lists, cloud, response, reported, watched>>

-----------------------------------------------------------------------------
(* A test.                                                                 *)

Values == {<<"">>, <<"a">>, <<"a", "b">>}
ItemOf(o, value) ==
  <<[key |-> "id", lines |-> <<o>>], [key |-> "fixed_ips", lines |-> value],
    [key |-> "name", lines |-> <<"n">>]>>
AboutOf(o, value) == [id |-> <<o>>, fixed_ips |-> value, name |-> <<"n">>]

\* A command that fails, prints another first line or what cannot be parsed ends the
\* test; its object may exist.  Otherwise the parsed object goes on its list; what
\* create_nuage_l2bridge_cli prints is not read.
Create(c) ==
  /\ phase = "body" /\ c.object \in Made \ made /\ Cardinality(made) < MaxMade
  /\ \A n \in NeedsOf(c.object) : Sees(n, me)
  /\ \/ /\ made' = made \union {c.object} /\ live' = live \union {c.object}
        /\ admins' = IF me = "admin" THEN admins \union {c.object} ELSE admins
        /\ addressed' = IF c.object = "port" THEN live \intersect Subnets ELSE addressed
        /\ \/ \E value \in Values :
                LET lines == <<Text>> \o PrintDetails(ItemOf(c.object, value))
                    parsed == Details(lines)
                IN /\ c \notin create_nuage_l2bridge_cli
                   /\ response' = Answer(AboutOf(c.object, value), parsed.item, parsed.raised)
                   /\ listed' = listed \union
                                  IF c.on_list THEN {parsed.item["id"][1]} ELSE {}
                   /\ watched' = watched \union (listed' \intersect Cleaned)
                   /\ UNCHANGED <<phase, excused>>
           \/ /\ c \in create_nuage_l2bridge_cli /\ response' = Silence
              /\ UNCHANGED <<phase, excused, listed, watched>>
           \/ /\ phase' = "raised" /\ excused' = TRUE /\ response' = Silence
              /\ UNCHANGED <<listed, watched>>
     \/ /\ phase' = "raised" /\ response' = Silence
        /\ UNCHANGED <<cloud, listed, watched, excused>>
  /\ UNCHANGED <<tests, me, project, user, cleanups, interfaces, reported>>

\* addCleanup with a deletion of the class or of the test, and out of the list.
HandOver(o, by) ==
  /\ phase = "body" /\ o \in live /\ o \notin {cleanups[i].object : i \in DOMAIN cleanups}
  /\ o \in Registers[by] /\ o \in listed \union delete_nuage_netpartition_cli
  /\ cleanups' = Append(cleanups, [object |-> o, by |-> by])
  /\ listed' = listed \ {o} /\ watched' = watched \union {o}
  /\ response' = Silence
  /\ UNCHANGED <<phase, tests, me, project, user, cloud, reported, excused>>

\* The helpers that delete leave the lists alone; one that fails ends the test.
DeleteInBody(o) ==
  /\ phase = "body" /\ o \in made \intersect DeleteCommands /\ response' = Silence
  /\ \E ok \in BOOLEAN :
       /\ Delete(o, RunsAs("me"), ok, Deleted(o, ok) \intersect watched # {})
       /\ phase' = IF CommandFailed(ok) THEN "raised" ELSE phase
  /\ UNCHANGED <<tests, me, project, user, lists, reported, watched>>

add_router_interface_with_args(s) ==
  /\ phase = "body" /\ Sees("router", me) /\ Sees(s, me) /\ s \notin interfaces
  /\ \/ interfaces' = interfaces \union {s} /\ UNCHANGED phase
     \/ phase' = "raised" /\ UNCHANGED interfaces
  /\ response' = Silence
  /\ UNCHANGED <<tests, me, project, user, lists, made, live, admins, addressed, reported, history>>

\* What a command that asks prints, and what is read from it.
Asked(c, value) ==
  LET rows == IF Sees(c.object, me)
              THEN [i \in DOMAIN value |-> <<IF i = 1 THEN c.object ELSE "", value[i]>>]
              ELSE <<>>
      printed_rows == [i \in DOMAIN rows |-> [id |-> rows[i][1], fixed_ips |-> rows[i][2]]]
      printed_list == PrintList(<<"id", "fixed_ips">>, rows)
      details == Details(IF c.prints = "details" THEN PrintDetails(ItemOf(c.object, value))
                         ELSE printed_list)
  IN IF c.reads = "listing"
     THEN Answer(printed_rows, Listing(printed_list), "")
     ELSE Answer(AboutOf(c.object, value), details.item, details.raised)

Ask(c) ==
  /\ phase = "body" /\ (c.prints = "list" \/ Sees(c.object, me))
  /\ IF c.reads \in {"first_line", "nothing"}
     THEN response' = Silence /\ phase' \in {"body", "raised"}
     ELSE \/ \E value \in Values :
               /\ response' = Asked(c, value)
               /\ phase' = IF response'.raised # "" \/ (c.reads = "same" /\ ~response'.is_printed)
                           THEN "raised" ELSE "body"
          \/ response' = Silence /\ phase' = "raised"
  /\ UNCHANGED <<tests, me, project, user, lists, cloud, reported, history>>

AsAdmin == me' = "admin"
AsTenant == me' = "tenant"
SwitchRole ==
  /\ phase = "body" /\ (AsAdmin \/ AsTenant) /\ me' # me /\ response' = Silence
  /\ UNCHANGED <<phase, tests, project, user, lists, cloud, reported, history>>

\* What stands on an object, or goes with it.
Users(o) ==
  (GoesWith(o) \intersect live)
  \union (IF InUse(o) THEN {"port"} \intersect live ELSE {})
  \union (IF InUse(o) /\ interfaces # {} THEN {"router"} ELSE {})
RegisteredAfter(i) == {cleanups[j].object : j \in i + 1 .. Len(cleanups)}
OutOfOrder ==
  \E i \in DOMAIN cleanups :
    \/ ~Sees(cleanups[i].object, RunsAs(cleanups[i].by))
    \/ ~(Users(cleanups[i].object) \subseteq RegisteredAfter(i))

EndTest ==
  /\ phase \in {"body", "raised"} /\ phase' = "ending" /\ response' = Silence
  /\ excused' = (excused \/ OutOfOrder)
  /\ UNCHANGED <<tests, me, project, user, lists, cloud, reported, watched>>

-----------------------------------------------------------------------------
(* The test's cleanups: a failure is reported and the next one runs.       *)

RunCleanup ==
  /\ phase = "ending" /\ cleanups # <<>>
  /\ LET c == Last(cleanups) IN
     \E ok \in BOOLEAN :
       /\ Delete(c.object, RunsAs(c.by), ok, FALSE)
       /\ reported' = (reported \/ CommandFailed(ok))
  /\ cleanups' = Front(cleanups)
  /\ UNCHANGED <<phase, tests, me, project, user, listed, response, watched>>

\* Each test is a new instance, and starts in the role of the class.
NextTest ==
  /\ phase = "ending" /\ cleanups = <<>> /\ tests < MaxTests
  /\ phase' = "body" /\ tests' = tests + 1 /\ me' = "tenant" /\ response' = Silence
  /\ UNCHANGED <<project, user, lists, cloud, reported, history>>

EndClass ==
  /\ phase = "ending" /\ cleanups = <<>> /\ phase' = "cleanup" /\ response' = Silence
  /\ UNCHANGED <<tests, me, project, user, lists, cloud, reported, history>>

-----------------------------------------------------------------------------
(* resource_cleanup, as the admin: the first command that fails ends it.   *)

_delete_port(ok) == Delete("port", RunsAs("admin"), ok, FALSE)
_delete_subnet(s, ok) == Delete(s, RunsAs("admin"), ok, FALSE)
_delete_network(ok) == Delete("network", RunsAs("admin"), ok, FALSE)

\* The router's ports are listed, and each one's subnet read from its row.
_list_router_ports ==
  LET rows == SetToSeq({<<"id", s>> : s \in interfaces})
      ports == Listing(PrintList(<<"id", "fixed_ips">>, rows))
  IN {ports[i]["fixed_ips"] : i \in DOMAIN ports}

\* The gateway is cleared, each interface removed, and the router deleted; a command
\* that fails leaves the rest.
delete_router(ok) ==
  /\ \E removed \in SUBSET _list_router_ports :
       /\ (ok => "router" \in live /\ removed = interfaces)
       /\ interfaces' = interfaces \ removed
  /\ live' = IF ok THEN live \ {"router"} ELSE live
  /\ excused' = (excused \/ (~ok /\ "router" \in live))
  /\ UNCHANGED <<made, admins, addressed>>

NothingListed == listed \intersect Cleaned = {}
\* The first list with something left on it.
NextList ==
  LET i == CHOOSE n \in 1 .. 4 :
             /\ CleanedLists[n] \intersect listed # {}
             /\ \A m \in 1 .. n - 1 : CleanedLists[m] \intersect listed = {}
  IN CleanedLists[i] \intersect listed

CleanListed(o) ==
  /\ phase = "cleanup" /\ ~NothingListed /\ o \in NextList
  /\ \E ok \in BOOLEAN :
       /\ \/ o = "port" /\ _delete_port(ok)
          \/ o = "router" /\ delete_router(ok)
          \/ o \in Subnets /\ _delete_subnet(o, ok)
          \/ o = "network" /\ _delete_network(ok)
       /\ listed' = IF CommandFailed(ok) THEN listed ELSE listed \ {o}
       /\ phase' = IF CommandFailed(ok) THEN "over" ELSE phase
       /\ reported' = (reported \/ CommandFailed(ok))
  /\ UNCHANGED <<tests, me, project, user, cleanups, response, watched>>

\* cls.user does not exist where it was not created, and reading it raises.
DeleteUser ==
  /\ phase = "cleanup" /\ NothingListed /\ user # "gone"
  /\ \/ user = "made" /\ user' = "gone" /\ UNCHANGED <<phase, reported, excused>>
     \/ phase' = "over" /\ reported' = TRUE /\ excused' = TRUE /\ UNCHANGED user
  /\ UNCHANGED <<tests, me, project, lists, cloud, response, watched>>

DeleteProject ==
  /\ phase = "cleanup" /\ user = "gone" /\ phase' = "over"
  /\ \/ project' = "gone" /\ UNCHANGED <<reported, excused>>
     \/ reported' = TRUE /\ excused' = TRUE /\ UNCHANGED project
  /\ UNCHANGED <<tests, me, user, lists, cloud, response, watched>>

Next ==
  \/ CreateProject \/ CreateUser \/ AssignRole
  \/ \E c \in CreateCommands : Create(c)
  \/ \E o \in Made : DeleteInBody(o) \/ \E by \in {"me", "admin"} : HandOver(o, by)
  \/ \E s \in Subnets : add_router_interface_with_args(s)
  \/ \E c \in AskCommands : Ask(c)
  \/ SwitchRole \/ EndTest
  \/ RunCleanup \/ NextTest \/ EndClass
  \/ (\E o \in Cleaned : CleanListed(o)) \/ DeleteUser \/ DeleteProject

Spec == Init /\ [][Next]_vars

-----------------------------------------------------------------------------
(* Properties.                                                             *)

\* Unless a cleanup raised, the user and the project go last, when no object that the
\* class listed for cleanup or that a test registered is left, and no interface of a
\* router it listed; and a class that is over has left neither of them.
CleanMeansGone ==
  /\ user = "gone" /\ ~reported =>
       watched \intersect live = {} /\ ("router" \in watched => interfaces = {})
  /\ phase = "over" /\ ~reported => user = "gone" /\ project = "gone"

\* If no command fails of itself, no test deletes what it leaves on a list, and tests
\* register deletions in an order and a role that can work, no cleanup raises.
TidyIsClean == reported => excused

\* What a test reads from the output of a command is what was printed: an object's
\* values with all their lines, or each row of a list.  What cannot be read that way,
\* a list read as an object, raises.
PrintedIsRead == response.is_printed
=============================================================================
