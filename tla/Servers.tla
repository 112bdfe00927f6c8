------------------------------ MODULE Servers -------------------------------
(***************************************************************************)
(* Deploying servers: osc_create_test_server of lib/test/nuage_test.py,    *)
(* which TenantServer.boot calls, and the cleanup_server it registers.     *)
(*                                                                         *)
(* The server is created and waited for; one that does not deploy is       *)
(* destroyed on the spot, unless preserve_server_on_error.  cleanup_server *)
(* asks Nova to delete the server and waits until it is gone; both the     *)
(* failed deployment and the teardown of the test run it, and each of its  *)
(* steps can raise.  Nova is another process: it builds, fails and deletes *)
(* servers while the test polls, or never gets to it.                      *)
(***************************************************************************)
EXTENDS Naturals, Sequences, FiniteSets

CONSTANTS
  ServerIds,   \* the servers a test may create
  NoServer,    \* for none of them
  Timeout      \* polls of a waiter before it raises

ASSUME NoServerAssumption == NoServer \notin ServerIds
ASSUME TimeoutAssumption == Timeout \in Nat

VARIABLES
  phase,     \* "body", "status" (waiting for wait_until), "delete" and "gone"
             \* (the two steps of cleanup_server), "teardown", "done"
  tearing,   \* whether the body has ended: who called cleanup_server
  vm,        \* the server that is being deployed or cleaned up, if any
  args,      \* the arguments each server was created with
  polls,     \* polls of the current wait
  stack,     \* the servers whose cleanup_server is registered
  held,      \* the servers handed to the body
  failedBy,  \* the servers whose osc_create_test_server made the test fail
  status,    \* Nova: the status of each server
  reached,   \* history: the servers seen ACTIVE by the wait
  undeleted  \* history: the servers whose cleanup_server raised

vars == <<phase, tearing, vm, args, polls, stack, held, failedBy, status, reached, undeleted>>

\* The arguments that steer the deployment; wait is false for wait_until=None.
\* One that the others keep from being read is given as FALSE.
ArgumentRecords == [cleanup : BOOLEAN, return_none_on_failure : BOOLEAN,
                    preserve_server_on_error : BOOLEAN, wait : BOOLEAN]
Arguments ==
  {a \in ArgumentRecords : /\ a.preserve_server_on_error => a.wait
                           /\ a.return_none_on_failure => a.wait /\ ~a.preserve_server_on_error}
Defaults == [cleanup |-> TRUE, return_none_on_failure |-> FALSE,
             preserve_server_on_error |-> FALSE, wait |-> TRUE]

Exists(s) == status[s] \notin {"none", "gone"}

Init ==
  /\ phase = "body" /\ tearing = FALSE /\ vm = NoServer /\ polls = 0
  /\ args = [s \in ServerIds |-> Defaults]
  /\ stack = <<>> /\ held = {} /\ failedBy = {}
  /\ status = [s \in ServerIds |-> "none"]
  /\ reached = {} /\ undeleted = {}

-----------------------------------------------------------------------------
(* osc_create_test_server.                                                 *)

\* The helper or the cleanup is over, and its variables with it.
Over == vm' = NoServer /\ polls' = 0

ReturnServer(s, cleanup) ==
  /\ phase' = "body" /\ Over
  /\ stack' = IF cleanup THEN Append(stack, s) ELSE stack
  /\ held' = held \union {s}

CreateServer(s, a) ==
  /\ phase = "body" /\ status[s] = "none"
  /\ status' = [status EXCEPT ![s] = "BUILD"]
  /\ args' = [args EXCEPT ![s] = a]
  /\ \/ /\ a.wait
        /\ phase' = "status" /\ vm' = s /\ polls' = 0
        /\ UNCHANGED <<stack, held>>
     \/ /\ ~a.wait
        /\ ReturnServer(s, a.cleanup)
  /\ UNCHANGED <<tearing, failedBy, reached, undeleted>>

\* self.fail, or an exception of Nova that nothing catches.
FailTest(s) ==
  phase' = "teardown" /\ tearing' = TRUE /\ failedBy' = failedBy \union {s} /\ Over

\* create_server is outside of the try: no server, and no None either.
CreateRefused(s, return_none) ==
  /\ phase = "body" /\ status[s] = "none"
  /\ args' = [args EXCEPT ![s] = [Defaults EXCEPT !.return_none_on_failure = return_none]]
  /\ FailTest(s)
  /\ UNCHANGED <<stack, held, status, reached, undeleted>>

ReturnNone == phase' = "body" /\ Over /\ UNCHANGED <<tearing, failedBy>>

\* The server is destroyed, or destroying it has failed.
GiveUp ==
  /\ \/ args[vm].return_none_on_failure /\ ReturnNone
     \/ ~args[vm].return_none_on_failure /\ FailTest(vm)
  /\ UNCHANGED <<stack, held>>

PreserveUnlessNone == ~args[vm].return_none_on_failure

Preserve == args[vm].preserve_server_on_error

\* The wait raised.  A preserved server is returned as if it had deployed.
DeploymentFailed ==
  \/ /\ Preserve
     /\ ReturnServer(vm, args[vm].cleanup)
  \/ /\ ~Preserve
     /\ phase' = "delete"
     /\ polls' = 0
     /\ UNCHANGED <<vm, stack, held>>

AnyTime == TRUE
InTime == polls <= Timeout

\* wait_for_server_status polls once more.
PollStatus ==
  /\ phase = "status" /\ InTime
  /\ \/ /\ status[vm] = "ACTIVE"
        /\ ReturnServer(vm, args[vm].cleanup)
        /\ reached' = reached \union {vm}
     \/ /\ status[vm] = "ERROR"
        /\ DeploymentFailed
        /\ UNCHANGED reached
     \/ /\ status[vm] \notin {"ACTIVE", "ERROR"}
        /\ polls' = polls + 1
        /\ UNCHANGED <<phase, vm, stack, held, reached>>
  /\ UNCHANGED <<tearing, args, failedBy, status, undeleted>>

StatusTimeout ==
  /\ phase = "status" /\ polls > Timeout
  /\ DeploymentFailed
  /\ UNCHANGED <<tearing, args, failedBy, status, reached, undeleted>>

-----------------------------------------------------------------------------
(* cleanup_server, of a failed deployment and of the teardown.             *)

Raised ==
  /\ undeleted' = undeleted \union {vm}
  /\ \/ ~tearing /\ GiveUp
     \/ tearing /\ phase' = "teardown" /\ Over /\ UNCHANGED <<tearing, stack, held, failedBy>>

Cleaned ==
  /\ UNCHANGED undeleted
  /\ \/ ~tearing /\ GiveUp
     \/ tearing /\ phase' = "teardown" /\ Over /\ UNCHANGED <<tearing, stack, held, failedBy>>

FireAndForget == Cleaned

\* delete_server returns at once; the waiter sees the server go.
AwaitTermination ==
  phase' = "gone" /\ UNCHANGED <<tearing, vm, polls, stack, held, failedBy, undeleted>>

\* delete_server is accepted, meets a server that is gone, or fails.
DeleteServer ==
  /\ phase = "delete"
  /\ \/ /\ Exists(vm)
        /\ status' = [status EXCEPT ![vm] = "DELETING"]
        /\ AwaitTermination
     \/ /\ Raised
        /\ UNCHANGED status
  /\ UNCHANGED <<args, reached>>

SamePoll == UNCHANGED polls
NextPoll == polls' = polls + 1

\* wait_for_server_termination polls once more.
PollTermination ==
  /\ phase = "gone" /\ InTime
  /\ \/ status[vm] = "gone" /\ Cleaned
     \/ status[vm] = "ERROR" /\ Raised
     \/ /\ status[vm] = "DELETING"
        /\ NextPoll
        /\ UNCHANGED <<phase, tearing, vm, stack, held, failedBy, undeleted>>
  /\ UNCHANGED <<args, status, reached>>

TerminationTimeout ==
  /\ phase = "gone" /\ polls > Timeout
  /\ Raised
  /\ UNCHANGED <<args, status, reached>>

-----------------------------------------------------------------------------
(* The test.                                                               *)

EndBody ==
  /\ phase = "body"
  /\ phase' = "teardown" /\ tearing' = TRUE
  /\ UNCHANGED <<vm, args, polls, stack, held, failedBy, status, reached, undeleted>>

Peeked == stack
Popped == SubSeq(stack, 1, Len(stack) - 1)

RunCleanup ==
  /\ phase = "teardown" /\ stack # <<>>
  /\ vm' = stack[Len(stack)]
  /\ stack' = Popped
  /\ phase' = "delete" /\ polls' = 0
  /\ UNCHANGED <<tearing, args, held, failedBy, status, reached, undeleted>>

Done ==
  /\ phase = "teardown" /\ stack = <<>>
  /\ phase' = "done"
  /\ UNCHANGED <<tearing, vm, args, polls, stack, held, failedBy, status, reached, undeleted>>

-----------------------------------------------------------------------------
(* Nova.  A server may go into error at any time, while it is deleted too. *)

NovaStep(s) ==
  /\ phase # "done"
  /\ \/ status[s] = "BUILD" /\ status' = [status EXCEPT ![s] = "ACTIVE"]
     \/ status[s] = "DELETING" /\ status' = [status EXCEPT ![s] = "gone"]
     \/ status[s] \in {"BUILD", "ACTIVE", "DELETING"} /\ status' = [status EXCEPT ![s] = "ERROR"]
  /\ UNCHANGED <<phase, tearing, vm, args, polls, stack, held, failedBy, reached, undeleted>>

-----------------------------------------------------------------------------
Wait == PollStatus \/ StatusTimeout \/ DeleteServer \/ PollTermination \/ TerminationTimeout
Teardown == RunCleanup \/ Done

Next ==
  \/ \E s \in ServerIds, a \in Arguments : CreateServer(s, a)
  \/ \E s \in ServerIds, return_none \in BOOLEAN : CreateRefused(s, return_none)
  \/ Wait \/ EndBody \/ Teardown
  \/ \E s \in ServerIds : NovaStep(s)

Spec == Init /\ [][Next]_vars

\* The waiters poll and the cleanups run while the process does; Nova owes
\* nothing, the timeouts see to that.
FairSpec == Spec /\ WF_vars(Wait) /\ WF_vars(Teardown)

-----------------------------------------------------------------------------
(* Properties.                                                             *)

\* Variables keep their kind, and a waiter polls at most once after its time.
TypeOK ==
  /\ phase \in {"body", "status", "delete", "gone", "teardown", "done"}
  /\ tearing \in BOOLEAN /\ vm \in ServerIds \union {NoServer}
  /\ args \in [ServerIds -> Arguments]
  /\ polls \in 0 .. Timeout + 1
  /\ stack \in Seq(ServerIds) /\ held \subseteq ServerIds /\ failedBy \subseteq ServerIds
  /\ status \in [ServerIds -> {"none", "BUILD", "ACTIVE", "ERROR", "DELETING", "gone"}]
  /\ reached \subseteq ServerIds /\ undeleted \subseteq ServerIds

\* The body gets a server that was seen in the status it asked for, unless it
\* asked for none, or for the wreck of a failed deployment to be preserved.
HeldWasDeployed ==
  \A s \in held : s \in reached \/ ~args[s].wait \/ args[s].preserve_server_on_error

\* When osc_create_test_server has come back, a server that it did not hand
\* over does not exist any more, or destroying it has failed.
NoOrphan ==
  phase = "body" => \A s \in ServerIds : Exists(s) => s \in held \union undeleted

\* At the end of the test only servers kept with cleanup=False are left, and
\* those whose deletion raised.
NothingForgotten ==
  phase = "done" => \A s \in ServerIds : Exists(s) => ~args[s].cleanup \/ s \in undeleted

\* A waiter gives up in the end, however long Nova takes.
WaitEnds == phase \in {"status", "delete", "gone"} ~> phase \in {"body", "teardown"}

\* The teardown gets to its end.
TeardownEnds == phase = "teardown" ~> phase = "done"

\* "cleanup: Flag for cleanup (leave True for auto-cleanup)": in the body, a
\* server created with cleanup that exists is registered for its cleanup.
AutoCleanup ==
  phase = "body" =>
    \A s \in ServerIds : Exists(s) /\ args[s].cleanup =>
      \E i \in DOMAIN stack : stack[i] = s

\* "return_none_on_failure: if True, return None on failure instead of failing
\* the test case".
NoneInsteadOfFailure ==
  \A s \in failedBy : ~args[s].return_none_on_failure
=============================================================================
