------------------------------- MODULE Trunks -------------------------------
(***************************************************************************)
(* A trunk on the port of a server: create_trunk and delete_trunk of       *)
(* lib/test/nuage_test.py, composed with the servers of Servers.           *)
(*                                                                         *)
(* delete_trunk runs among the cleanups of the servers, at the place where *)
(* create_trunk registered it.  A trunk cannot go while its parent port is *)
(* plugged into a server; delete_trunk then has Nova detach the port, with *)
(* delete_interface, and polls until the port is free.  Nova refuses for a *)
(* server that is not ACTIVE, and unplugs the port of one that is deleted, *)
(* perhaps between two requests of delete_trunk.                           *)
(***************************************************************************)
EXTENDS Servers

VARIABLES
  trunk,     \* "none", "live", "gone"
  place,     \* its delete_trunk is registered, above that many cleanup_servers
  step,      \* what delete_trunk does next: "port", "detach", "wait", "delete";
             \* "idle" before it has begun and "over" after
  device,    \* the server that the parent port is plugged into, if any
  looks,     \* polls of wait_until_true
  asked,     \* Nova has been asked to detach the port
  raised,    \* delete_trunk has raised
  troubled   \* history: a request failed, Nova was late, or the port was still
             \* with a server that nobody had cleaned up by then

trunks == <<trunk, place, step, device, looks, asked, raised, troubled>>
allVars == <<vars, trunks>>

NotRegistered == {}
Registered == place # NotRegistered
\* A slip: ahead of the cleanups that were registered later.
TurnAtOnce == phase = "teardown" /\ step = "idle" /\ Registered
\* Its turn among the cleanups comes after those that were registered later.
Turn == phase = "teardown" /\ step = "idle" /\ place = {Len(stack)}
Running == step \notin {"idle", "over"}

TrunksInit ==
  /\ Init
  /\ trunk = "none" /\ place = NotRegistered /\ step = "idle"
  /\ device = NoServer /\ looks = 0 /\ asked = FALSE
  /\ raised = FALSE /\ troubled = FALSE

-----------------------------------------------------------------------------
\* create_trunk.
CreateTrunk(cleanup) ==
  /\ phase = "body" /\ trunk = "none"
  /\ trunk' = "live"
  /\ place' = IF cleanup THEN {Len(stack)} ELSE NotRegistered
  /\ UNCHANGED <<vars, step, device, looks, asked, raised, troubled>>

\* The server gets the parent port, which is free, or another one.
CreateServerOnPort(s, a) ==
  /\ CreateServer(s, a)
  /\ device' \in IF device = NoServer THEN {NoServer, s} ELSE {device}
  /\ UNCHANGED <<trunk, place, step, looks, asked, raised, troubled>>

-----------------------------------------------------------------------------
(* delete_trunk.                                                           *)

\* A slip: the whole body in a _try_delete.
IgnoreFailure == step' = "over" /\ UNCHANGED raised
Raise == step' = "over" /\ raised' = TRUE

RequestFails == Raise /\ troubled' = TRUE /\ UNCHANGED <<trunk, looks, asked>>

\* show_trunk, update_trunk with admin_state_up, and remove_subports, for which
\* NotFound is no failure.
ShowTrunk ==
  \/ /\ Turn
     /\ step' = "port"
     /\ UNCHANGED <<trunk, looks, asked, raised, troubled>>
  \/ Turn /\ RequestFails

\* The first is_parent_port_detached.
ShowPort ==
  /\ step = "port"
  /\ \/ /\ step' = IF device = NoServer THEN "delete" ELSE "detach"
        /\ UNCHANGED <<trunk, looks, asked, raised, troubled>>
     \/ RequestFails

\* A server that is still there by right: its cleanup_server has raised, comes
\* after delete_trunk, or was never registered.
LeftRunning(s) ==
  \/ s \in undeleted \/ ~args[s].cleanup
  \/ \E i \in DOMAIN stack : stack[i] = s /\ \A k \in place : i <= k

\* delete_interface: accepted, or refused for a server that is not ACTIVE, or
\* that is gone by now; then device is NoServer here.
Detachable == device # NoServer /\ status[device] = "ACTIVE"
DeleteInterface ==
  /\ step = "detach"
  /\ \/ /\ Detachable
        /\ asked' = TRUE /\ step' = "wait" /\ looks' = 0
        /\ UNCHANGED <<trunk, raised, troubled>>
     \/ /\ ~Detachable
        /\ Raise
        /\ troubled' = (troubled \/ device = NoServer \/ LeftRunning(device))
        /\ UNCHANGED <<trunk, looks, asked>>
     \/ RequestFails

LookAgain == looks' = looks + 1 /\ UNCHANGED step

\* wait_until_true calls the predicate once more.
Look ==
  /\ step = "wait" /\ looks <= Timeout
  /\ \/ device = NoServer /\ step' = "delete" /\ UNCHANGED <<trunk, looks, asked, raised, troubled>>
     \/ device # NoServer /\ LookAgain /\ UNCHANGED <<trunk, asked, raised, troubled>>
     \/ RequestFails

\* WaitTimeout, also when the port became free during the last sleep.
WaitTimeout ==
  /\ step = "wait" /\ looks > Timeout
  /\ Raise
  /\ troubled' = TRUE
  /\ UNCHANGED <<trunk, looks, asked>>

\* The port is free by now, and Neutron has no reason to refuse.
DeleteTrunk ==
  /\ step = "delete" /\ device = NoServer
  /\ \/ /\ trunk' = "gone" /\ step' = "over"
        /\ UNCHANGED <<looks, asked, raised, troubled>>
     \/ RequestFails

TrunkStep ==
  /\ ShowTrunk \/ ShowPort \/ DeleteInterface \/ Look \/ WaitTimeout \/ DeleteTrunk
  /\ UNCHANGED <<vars, place, device>>

-----------------------------------------------------------------------------
(* Nova.                                                                   *)

\* A server that goes, or has gone from its host, leaves the port.
NovaServerStep(s) ==
  /\ NovaStep(s)
  /\ device' = IF device = s /\ status'[s] = "gone" THEN NoServer ELSE device
  /\ UNCHANGED <<trunk, place, step, looks, asked, raised, troubled>>

NovaUnplug ==
  /\ phase # "done" /\ device # NoServer
  /\ asked \/ status[device] = "DELETING"
  /\ device' = NoServer /\ asked' = FALSE
  /\ UNCHANGED <<vars, trunk, place, step, looks, raised, troubled>>

-----------------------------------------------------------------------------
\* The test process does nothing else while delete_trunk runs, and no other
\* cleanup when it is its turn.
ServerStep ==
  /\ ~Turn /\ ~Running
  /\ \/ /\ \/ \E s \in ServerIds, return_none \in BOOLEAN : CreateRefused(s, return_none)
           \/ Wait \/ EndBody \/ Teardown
        /\ UNCHANGED trunks
     \/ \E s \in ServerIds, a \in Arguments : CreateServerOnPort(s, a)

TrunksNext ==
  \/ ServerStep \/ TrunkStep
  \/ \E cleanup \in BOOLEAN : CreateTrunk(cleanup)
  \/ \E s \in ServerIds : NovaServerStep(s)
  \/ NovaUnplug

TrunksSpec == TrunksInit /\ [][TrunksNext]_allVars

TestStep == TrunkStep \/ (ServerStep /\ (Wait \/ Teardown))
TrunksFairSpec == TrunksSpec /\ WF_allVars(TestStep)

-----------------------------------------------------------------------------
(* Properties.                                                             *)

\* A trunk that a test leaves behind is one whose delete_trunk raised, or that
\* was to be kept: whatever Nova did between the requests of delete_trunk.
TrunkLeftIsReported ==
  phase = "done" /\ trunk = "live" /\ Registered => raised

\* If requests succeed and Nova detaches in time, the trunk goes without an
\* error, unless its port is still with a server whose own cleanup raised, or
\* comes later, or never comes: servers that are cleaned up before the trunk
\* are not met any more.
TrunkGoes ==
  phase = "done" /\ Registered /\ ~troubled => trunk = "gone" /\ ~raised
=============================================================================
