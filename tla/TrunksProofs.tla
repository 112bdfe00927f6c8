---------------------------- MODULE TrunksProofs ----------------------------
(***************************************************************************)
(* Theorems about Servers and about Trunks, which extends it, for any      *)
(* number of servers and any timeout.                                      *)
(*                                                                         *)
(* A server that exists has an owner at every moment: the body, a report   *)
(* that it could not be deleted, or the call that deploys or cleans it up  *)
(* (Owned); and one that is to be cleaned up is still in the stack, in the *)
(* hands of that call, or reported (ToClean).  Nova's steps never make a   *)
(* server exist, so that only the test's own steps need care.              *)
(*                                                                         *)
(* With a trunk the servers behave as without one, so that all this stays  *)
(* true, and the trunk goes or its stay is reported.  A server that was    *)
(* cleaned up before the trunk is never met by delete_trunk: by ToClean it *)
(* does not exist any more, and only what exists is plugged (Plugged).     *)
(***************************************************************************)
EXTENDS Trunks, SequenceTheorems, TLAPS

-----------------------------------------------------------------------------
(* The servers: what holds at every moment.                                *)

Busy == phase \in {"status", "delete", "gone"}
InStack(s) == \E i \in DOMAIN stack : stack[i] = s

\* Who runs, and on what.
Control ==
  /\ Busy => vm \in ServerIds /\ status[vm] # "none"
  /\ phase \in {"body", "status"} => ~tearing
  /\ phase \in {"teardown", "done"} => tearing
  /\ phase = "done" => stack = <<>>

\* What was handed over has been created, and only that is registered.
Handed ==
  /\ \A s \in held : status[s] # "none"
  /\ \A i \in DOMAIN stack : stack[i] \in held

Owned ==
  \A s \in ServerIds : Exists(s) => s \in held \union undeleted \/ (Busy /\ s = vm)

ToClean ==
  \A s \in ServerIds :
    Exists(s) => ~args[s].cleanup \/ s \in undeleted \/ InStack(s) \/ (Busy /\ s = vm)

Inv == TypeOK /\ Control /\ Handed /\ HeldWasDeployed /\ Owned /\ ToClean

USE NoServerAssumption, TimeoutAssumption

-----------------------------------------------------------------------------
(* The stack.                                                              *)

\* What is appended, and what was there, is in the longer sequence.
LEMMA Pushed ==
  ASSUME NEW S, NEW seq \in Seq(S), NEW s \in S
  PROVE  /\ Append(seq, s) \in Seq(S)
         /\ \E i \in DOMAIN Append(seq, s) : Append(seq, s)[i] = s
         /\ \A i \in DOMAIN seq : i \in DOMAIN Append(seq, s) /\ Append(seq, s)[i] = seq[i]
         /\ \A i \in DOMAIN Append(seq, s) :
              Append(seq, s)[i] = s \/ (i \in DOMAIN seq /\ Append(seq, s)[i] = seq[i])
<1>1. /\ DOMAIN seq = 1 .. Len(seq) /\ Len(seq) \in Nat
      /\ Append(seq, s) \in Seq(S)
      /\ DOMAIN Append(seq, s) = 1 .. Len(seq) + 1
      /\ \A i \in 1 .. Len(seq) : Append(seq, s)[i] = seq[i]
      /\ Append(seq, s)[Len(seq) + 1] = s
  BY AppendProperties, LenProperties
<1> QED
  BY <1>1

\* All but the last stay.
LEMMA Popping ==
  ASSUME NEW S, NEW seq \in Seq(S), seq # <<>>
  PROVE  /\ SubSeq(seq, 1, Len(seq) - 1) \in Seq(S)
         /\ Len(SubSeq(seq, 1, Len(seq) - 1)) = Len(seq) - 1
         /\ seq[Len(seq)] \in S
         /\ Len(seq) \in DOMAIN seq
         /\ \A i \in DOMAIN seq :
              \/ i = Len(seq)
              \/ /\ i \in DOMAIN SubSeq(seq, 1, Len(seq) - 1)
                 /\ SubSeq(seq, 1, Len(seq) - 1)[i] = seq[i]
         /\ \A i \in DOMAIN SubSeq(seq, 1, Len(seq) - 1) :
              i \in DOMAIN seq /\ SubSeq(seq, 1, Len(seq) - 1)[i] = seq[i]
<1>1. Len(seq) \in Nat \ {0} /\ DOMAIN seq = 1 .. Len(seq)
  BY EmptySeq, LenProperties
<1>2. \A i \in 1 .. Len(seq) : seq[i] \in S
  BY ElementOfSeq
<1> DEFINE m == Len(seq) - 1
<1>3. m \in Int /\ \A i \in 1 .. m : seq[i] \in S
  BY <1>1, <1>2
<1>4. /\ SubSeq(seq, 1, m) \in Seq(S)
      /\ Len(SubSeq(seq, 1, m)) = IF 1 <= m THEN m - 1 + 1 ELSE 0
      /\ \A i \in 1 .. m - 1 + 1 : SubSeq(seq, 1, m)[i] = seq[1 + i - 1]
  <2> HIDE DEF m
  <2> QED
    BY <1>3, SubSeqProperties
<1>5. m - 1 + 1 = m /\ m >= 0
  BY <1>1
<1>6. DOMAIN SubSeq(seq, 1, m) = 1 .. m
  BY <1>4, <1>5, LenProperties
<1>7. \A i \in 1 .. m : SubSeq(seq, 1, m)[i] = seq[i]
  BY <1>4, <1>5
<1>8. Len(SubSeq(seq, 1, m)) = m
  BY <1>3, <1>4, <1>5
<1> QED
  BY <1>1, <1>2, <1>4, <1>6, <1>7, <1>8

-----------------------------------------------------------------------------
(* Initial states.                                                         *)

LEMMA InvInit == Init => Inv
<1> SUFFICES ASSUME Init PROVE Inv
  OBVIOUS
<1>1. TypeOK
  <2>1. Defaults \in Arguments
    BY DEF Defaults, Arguments, ArgumentRecords
  <2>2. args \in [ServerIds -> Arguments] /\ stack \in Seq(ServerIds)
    BY <2>1, EmptySeq DEF Init
  <2>3. status \in [ServerIds -> {"none", "BUILD", "ACTIVE", "ERROR", "DELETING", "gone"}]
    BY DEF Init
  <2>4. polls \in 0 .. Timeout + 1
    BY DEF Init
  <2> QED
    BY <2>2, <2>3, <2>4 DEF Init, TypeOK
<1>2. Control /\ Owned /\ ToClean /\ HeldWasDeployed
  BY DEF Init, Control, Busy, Owned, ToClean, Exists, HeldWasDeployed
<1>3. Handed
  <2>1. DOMAIN stack = {}
    BY EmptySeq, LenProperties DEF Init
  <2> QED
    BY <2>1 DEF Init, Handed
<1> QED
  BY <1>1, <1>2, <1>3 DEF Inv

-----------------------------------------------------------------------------
(* Steps that hand a server over.                                          *)

\* ReturnServer hands over a server that exists and deployed, or was not to.
LEMMA ReturnInv ==
  ASSUME Inv, NEW s \in ServerIds, ReturnServer(s, args'[s].cleanup),
         args' \in [ServerIds -> Arguments],
         \A q \in ServerIds : q # s => args'[q] = args[q],
         status[s] = "none" \/ args'[s] = args[s],
         status' \in [ServerIds -> {"none", "BUILD", "ACTIVE", "ERROR", "DELETING", "gone"}],
         \A q \in ServerIds : q # s => status'[q] = status[q],
         status'[s] # "none",
         phase = "body" \/ (Busy /\ s = vm),
         s \in reached' \/ ~args'[s].wait \/ args'[s].preserve_server_on_error,
         reached \subseteq reached', reached' \subseteq ServerIds,
         tearing' = tearing, ~tearing, failedBy' = failedBy, undeleted' = undeleted
  PROVE  Inv'
<1> USE DEF ReturnServer, Over
<1>1. stack' \in Seq(ServerIds) /\ args'[s].cleanup \in BOOLEAN
  <2>1. args'[s] \in ArgumentRecords
    BY DEF Arguments
  <2>2. args'[s].cleanup \in BOOLEAN
    BY <2>1 DEF ArgumentRecords
  <2> QED
    BY <2>2, Pushed DEF Inv, TypeOK
<1>2. TypeOK'
  BY <1>1 DEF Inv, TypeOK
<1>3. Control'
  BY DEF Control, Busy
<1>4. Handed'
  <2>1. \A q \in held' : status'[q] # "none"
    BY DEF Inv, TypeOK, Handed
  <2>2. \A i \in DOMAIN stack' : stack'[i] = s \/ (i \in DOMAIN stack /\ stack'[i] = stack[i])
    BY <1>1, Pushed DEF Inv, TypeOK
  <2> QED
    BY <2>1, <2>2 DEF Inv, Handed
<1>5. HeldWasDeployed'
  <2> SUFFICES ASSUME NEW q \in held'
               PROVE  q \in reached' \/ ~args'[q].wait \/ args'[q].preserve_server_on_error
    BY DEF HeldWasDeployed
  <2>1. CASE q # s
    BY <2>1 DEF Inv, TypeOK, HeldWasDeployed
  <2> QED
    BY <2>1
<1>6. Owned'
  BY DEF Inv, Owned, Exists, Busy
<1>7. ToClean'
  <2> SUFFICES ASSUME NEW q \in ServerIds, Exists(q)'
               PROVE  ~args'[q].cleanup \/ q \in undeleted' \/ InStack(q)'
    BY DEF ToClean
  <2>1. InStack(q) => InStack(q)'
    BY <1>1, Pushed DEF Inv, TypeOK, InStack
  <2>2. CASE q = s
    BY <1>1, <2>2, Pushed DEF Inv, TypeOK, InStack
  <2>3. CASE q # s
    BY <2>1, <2>3 DEF Inv, ToClean, Exists, Busy
  <2> QED
    BY <2>2, <2>3
<1> QED
  BY <1>2, <1>3, <1>4, <1>5, <1>6, <1>7 DEF Inv

-----------------------------------------------------------------------------
(* Steps of osc_create_test_server.                                        *)

LEMMA CreateInv ==
  ASSUME Inv, NEW s \in ServerIds, NEW a \in Arguments, CreateServer(s, a)
  PROVE  Inv'
<1> USE DEF CreateServer
<1>1. /\ args' \in [ServerIds -> Arguments] /\ args'[s] = a
      /\ \A q \in ServerIds : q # s => args'[q] = args[q]
      /\ status' \in [ServerIds -> {"none", "BUILD", "ACTIVE", "ERROR", "DELETING", "gone"}]
      /\ status'[s] = "BUILD"
      /\ \A q \in ServerIds : q # s => status'[q] = status[q]
  BY DEF Inv, TypeOK
<1>2. ~tearing /\ ~Busy
  BY DEF Inv, Control, Busy
<1>3. CASE ~a.wait /\ ReturnServer(s, a.cleanup)
  BY <1>1, <1>2, <1>3, ReturnInv DEF Inv, TypeOK
<1>4. CASE a.wait /\ phase' = "status" /\ vm' = s /\ polls' = 0 /\ UNCHANGED <<stack, held>>
  <2>1. TypeOK'
    BY <1>1, <1>4 DEF Inv, TypeOK
  <2>2. Control' /\ Handed'
    BY <1>1, <1>2, <1>4 DEF Inv, TypeOK, Control, Handed, Busy
  <2>3. HeldWasDeployed'
    BY <1>1, <1>4 DEF Inv, TypeOK, Handed, HeldWasDeployed
  <2>4. Owned' /\ ToClean'
    BY <1>1, <1>2, <1>4 DEF Inv, Owned, ToClean, Exists, InStack, Busy
  <2> QED
    BY <2>1, <2>2, <2>3, <2>4 DEF Inv
<1> QED
  BY <1>3, <1>4

LEMMA RefusedInv ==
  ASSUME Inv, NEW s \in ServerIds, NEW return_none \in BOOLEAN, CreateRefused(s, return_none)
  PROVE  Inv'
<1> USE DEF CreateRefused, FailTest, Over
<1>1. [Defaults EXCEPT !.return_none_on_failure = return_none] \in Arguments
  BY DEF Defaults, Arguments, ArgumentRecords
<1>2. /\ args' \in [ServerIds -> Arguments]
      /\ \A q \in ServerIds : q # s => args'[q] = args[q]
  BY <1>1 DEF Inv, TypeOK
<1>3. TypeOK'
  BY <1>2 DEF Inv, TypeOK
<1>4. Control' /\ Handed'
  BY DEF Inv, Control, Handed, Busy
<1>5. HeldWasDeployed'
  BY <1>2 DEF Inv, TypeOK, Handed, HeldWasDeployed
<1>6. Owned' /\ ToClean'
  BY <1>2 DEF Inv, Owned, ToClean, Exists, InStack, Control, Busy
<1> QED
  BY <1>3, <1>4, <1>5, <1>6 DEF Inv

LEMMA FailedInv ==
  ASSUME Inv, phase = "status", DeploymentFailed,
         UNCHANGED <<tearing, args, failedBy, status, reached, undeleted>>
  PROVE  Inv'
<1>1. vm \in ServerIds /\ ~tearing /\ Busy /\ status[vm] # "none"
  BY DEF Inv, Control, Busy
<1>2. CASE Preserve /\ ReturnServer(vm, args[vm].cleanup)
  BY <1>1, <1>2, ReturnInv DEF Inv, TypeOK, Preserve
<1>3. CASE ~Preserve /\ phase' = "delete" /\ polls' = 0 /\ UNCHANGED <<vm, stack, held>>
  <2>1. TypeOK' /\ Control' /\ Handed' /\ HeldWasDeployed'
    BY <1>1, <1>3 DEF Inv, TypeOK, Control, Handed, HeldWasDeployed, Busy
  <2>2. Owned' /\ ToClean'
    BY <1>1, <1>3 DEF Inv, Owned, ToClean, Exists, InStack, Busy
  <2> QED
    BY <2>1, <2>2 DEF Inv
<1> QED
  BY <1>2, <1>3 DEF DeploymentFailed

LEMMA PollStatusInv == Inv /\ PollStatus => Inv'
<1> SUFFICES ASSUME Inv, PollStatus PROVE Inv'
  OBVIOUS
<1>1. vm \in ServerIds /\ ~tearing /\ Busy /\ status[vm] # "none" /\ phase = "status"
  BY DEF Inv, Control, Busy, PollStatus
<1>2. UNCHANGED <<tearing, args, failedBy, status, undeleted>>
  BY DEF PollStatus
<1>3. CASE ReturnServer(vm, args[vm].cleanup) /\ reached' = reached \union {vm}
  BY <1>1, <1>2, <1>3, ReturnInv DEF Inv, TypeOK
<1>4. CASE DeploymentFailed /\ UNCHANGED reached
  BY <1>1, <1>2, <1>4, FailedInv
<1>5. CASE polls' = polls + 1 /\ UNCHANGED <<phase, vm, stack, held, reached>>
  <2>1. polls' \in 0 .. Timeout + 1
    BY <1>5 DEF Inv, TypeOK, PollStatus, InTime
  <2>2. TypeOK' /\ Control' /\ Handed' /\ HeldWasDeployed'
    BY <1>1, <1>2, <1>5, <2>1 DEF Inv, TypeOK, Control, Handed, HeldWasDeployed, Busy
  <2>3. Owned' /\ ToClean'
    BY <1>1, <1>2, <1>5 DEF Inv, Owned, ToClean, Exists, InStack, Busy
  <2> QED
    BY <2>2, <2>3 DEF Inv
<1> QED
  BY <1>3, <1>4, <1>5 DEF PollStatus

-----------------------------------------------------------------------------
(* Steps of cleanup_server.                                                *)

\* cleanup_server leaves nothing that is neither gone nor reported.
LEMMA LeaveInv ==
  ASSUME Inv, Busy, phase # "status",
         \/ ~tearing /\ GiveUp
         \/ tearing /\ phase' = "teardown" /\ Over /\ UNCHANGED <<tearing, stack, held, failedBy>>,
         undeleted \subseteq undeleted', undeleted' \subseteq ServerIds,
         ~Exists(vm) \/ vm \in undeleted',
         UNCHANGED <<args, status, reached>>
  PROVE  Inv'
<1> USE DEF GiveUp, ReturnNone, FailTest, Over
<1>1. /\ UNCHANGED <<stack, held>> /\ vm' = NoServer /\ polls' = 0
      /\ \/ phase' = "body" /\ ~tearing /\ UNCHANGED <<tearing, failedBy>>
         \/ /\ phase' = "teardown" /\ tearing' = TRUE
            /\ failedBy' \in {failedBy, failedBy \union {vm}}
  BY DEF Inv, TypeOK
<1>2. TypeOK'
  <2>1. vm \in ServerIds
    BY DEF Inv, Control
  <2>2. failedBy' \subseteq ServerIds
    BY <1>1, <2>1 DEF Inv, TypeOK
  <2>3. tearing' \in BOOLEAN /\ phase' \in {"body", "teardown"}
    BY <1>1 DEF Inv, TypeOK
  <2>4. UNCHANGED <<args, stack, held, status, reached>> /\ polls' = 0 /\ vm' = NoServer
    BY <1>1
  <2> HIDE DEF GiveUp, ReturnNone, FailTest, Over
  <2> QED
    BY <2>2, <2>3, <2>4 DEF Inv, TypeOK
<1>3. Control' /\ Handed' /\ HeldWasDeployed'
  BY <1>1 DEF Inv, TypeOK, Control, Handed, HeldWasDeployed, Busy
<1>4. Owned' /\ ToClean'
  BY <1>1 DEF Inv, Owned, ToClean, Exists, InStack, Busy
<1> QED
  BY <1>2, <1>3, <1>4 DEF Inv

LEMMA RaisedInv ==
  ASSUME Inv, Busy, phase # "status", Raised, UNCHANGED <<args, status, reached>> PROVE Inv'
<1>1. vm \in ServerIds /\ undeleted' = undeleted \union {vm}
  BY DEF Inv, Control, Raised
<1>2. undeleted \subseteq undeleted' /\ undeleted' \subseteq ServerIds /\ vm \in undeleted'
  BY <1>1 DEF Inv, TypeOK
<1>3. \/ ~tearing /\ GiveUp
      \/ tearing /\ phase' = "teardown" /\ Over /\ UNCHANGED <<tearing, stack, held, failedBy>>
  BY DEF Raised
<1> QED
  BY <1>2, <1>3, LeaveInv

LEMMA DeleteServerInv == Inv /\ DeleteServer => Inv'
<1> SUFFICES ASSUME Inv, DeleteServer PROVE Inv'
  OBVIOUS
<1>1. phase = "delete" /\ Busy /\ vm \in ServerIds /\ UNCHANGED <<args, reached>>
  BY DEF DeleteServer, Busy, Inv, Control
<1>2. CASE Exists(vm) /\ status' = [status EXCEPT ![vm] = "DELETING"] /\ AwaitTermination
  <2> USE DEF AwaitTermination
  <2>1. /\ status' \in [ServerIds -> {"none", "BUILD", "ACTIVE", "ERROR", "DELETING", "gone"}]
        /\ status'[vm] = "DELETING" /\ \A q \in ServerIds : q # vm => status'[q] = status[q]
    BY <1>1, <1>2 DEF Inv, TypeOK
  <2>2. TypeOK'
    BY <1>1, <1>2, <2>1 DEF Inv, TypeOK
  <2>3. Control' /\ Handed' /\ HeldWasDeployed'
    BY <1>1, <1>2, <2>1 DEF Inv, TypeOK, Control, Handed, HeldWasDeployed, Busy
  <2>4. Owned' /\ ToClean'
    BY <1>1, <1>2, <2>1 DEF Inv, Owned, ToClean, Exists, InStack, Busy
  <2> QED
    BY <2>2, <2>3, <2>4 DEF Inv
<1>3. CASE Raised /\ UNCHANGED status
  BY <1>1, <1>3, RaisedInv
<1> QED
  BY <1>2, <1>3 DEF DeleteServer

LEMMA TerminationInv == Inv /\ (PollTermination \/ TerminationTimeout) => Inv'
<1> SUFFICES ASSUME Inv, PollTermination \/ TerminationTimeout PROVE Inv'
  OBVIOUS
<1>1. phase = "gone" /\ Busy /\ vm \in ServerIds /\ UNCHANGED <<args, status, reached>>
  BY DEF PollTermination, TerminationTimeout, Busy, Inv, Control
<1>2. CASE status[vm] = "gone" /\ Cleaned
  BY <1>1, <1>2, LeaveInv DEF Cleaned, Exists, Inv, TypeOK
<1>3. CASE Raised
  BY <1>1, <1>3, RaisedInv
<1>4. CASE InTime /\ NextPoll /\ UNCHANGED <<phase, tearing, vm, stack, held, failedBy, undeleted>>
  <2>1. polls' \in 0 .. Timeout + 1
    BY <1>4 DEF Inv, TypeOK, InTime, NextPoll
  <2>2. TypeOK' /\ Control' /\ Handed' /\ HeldWasDeployed'
    BY <1>1, <1>4, <2>1 DEF Inv, TypeOK, Control, Handed, HeldWasDeployed, Busy
  <2>3. Owned' /\ ToClean'
    BY <1>1, <1>4 DEF Inv, Owned, ToClean, Exists, InStack, Busy
  <2> QED
    BY <2>2, <2>3 DEF Inv
<1> QED
  BY <1>2, <1>3, <1>4 DEF PollTermination, TerminationTimeout

-----------------------------------------------------------------------------
(* Steps of the test and of Nova.                                          *)

LEMMA TestInv == Inv /\ (EndBody \/ Teardown) => Inv'
<1>1. Inv /\ EndBody => Inv'
  <2> SUFFICES ASSUME Inv, EndBody PROVE Inv'
    OBVIOUS
  <2> USE DEF EndBody
  <2>1. TypeOK' /\ Control' /\ Handed' /\ HeldWasDeployed'
    BY DEF Inv, TypeOK, Control, Handed, HeldWasDeployed, Busy
  <2>2. Owned' /\ ToClean'
    BY DEF Inv, Owned, ToClean, Exists, InStack, Busy
  <2> QED
    BY <2>1, <2>2 DEF Inv
<1>2. Inv /\ Done => Inv'
  <2> SUFFICES ASSUME Inv, Done PROVE Inv'
    OBVIOUS
  <2> USE DEF Done
  <2>1. TypeOK' /\ Control' /\ Handed' /\ HeldWasDeployed'
    BY DEF Inv, TypeOK, Control, Handed, HeldWasDeployed, Busy
  <2>2. Owned' /\ ToClean'
    BY DEF Inv, Owned, ToClean, Exists, InStack, Busy
  <2> QED
    BY <2>1, <2>2 DEF Inv
<1>3. Inv /\ RunCleanup => Inv'
  <2> SUFFICES ASSUME Inv, RunCleanup PROVE Inv'
    OBVIOUS
  <2> USE DEF RunCleanup
  <2>1. /\ stack' \in Seq(ServerIds) /\ vm' \in ServerIds /\ vm' \in held
        /\ \A s \in ServerIds : InStack(s) => InStack(s)' \/ s = vm'
        /\ \A i \in DOMAIN stack' : i \in DOMAIN stack /\ stack'[i] = stack[i]
    BY Popping DEF Inv, TypeOK, Handed, Popped, InStack
  <2>2. TypeOK'
    BY <2>1 DEF Inv, TypeOK
  <2>3. Control' /\ Handed' /\ HeldWasDeployed'
    BY <2>1 DEF Inv, TypeOK, Control, Handed, HeldWasDeployed, Busy
  <2>4. Owned'
    BY DEF Inv, Owned, Exists, Busy
  <2>5. ToClean'
    BY <2>1 DEF Inv, ToClean, Exists, Busy
  <2> QED
    BY <2>2, <2>3, <2>4, <2>5 DEF Inv
<1> QED
  BY <1>1, <1>2, <1>3 DEF Teardown

\* Nova never makes a server.
LEMMA NovaInv == ASSUME Inv, NEW s \in ServerIds, NovaStep(s) PROVE Inv'
<1> USE DEF NovaStep
<1>1. /\ status' \in [ServerIds -> {"none", "BUILD", "ACTIVE", "ERROR", "DELETING", "gone"}]
      /\ \A q \in ServerIds : Exists(q)' => Exists(q)
      /\ \A q \in ServerIds : status'[q] = "none" <=> status[q] = "none"
  BY DEF Inv, TypeOK, Exists
<1>2. UNCHANGED <<phase, tearing, vm, args, polls, stack, held, failedBy, reached, undeleted>>
  OBVIOUS
<1>3. TypeOK'
  BY ONLY Inv, <1>1, <1>2 DEF Inv, TypeOK
<1>4. Control' /\ Handed' /\ HeldWasDeployed'
  BY ONLY Inv, <1>1, <1>2 DEF Inv, TypeOK, Control, Handed, HeldWasDeployed, Busy
<1>5. Owned' /\ ToClean'
  BY ONLY Inv, <1>1, <1>2 DEF Inv, Owned, ToClean, InStack, Busy
<1> QED
  BY <1>3, <1>4, <1>5 DEF Inv

LEMMA InvNext == Inv /\ [Next]_vars => Inv'
<1> SUFFICES ASSUME Inv, [Next]_vars PROVE Inv'
  OBVIOUS
<1>1. ASSUME NEW s \in ServerIds, NEW a \in Arguments, CreateServer(s, a) PROVE Inv'
  BY <1>1, CreateInv
<1>2. ASSUME NEW s \in ServerIds, NEW r \in BOOLEAN, CreateRefused(s, r) PROVE Inv'
  BY <1>2, RefusedInv
<1>3. CASE PollStatus
  BY <1>3, PollStatusInv
<1>4. CASE StatusTimeout
  BY <1>4, FailedInv DEF StatusTimeout
<1>5. CASE DeleteServer
  BY <1>5, DeleteServerInv
<1>6. CASE PollTermination \/ TerminationTimeout
  BY <1>6, TerminationInv
<1>7. CASE EndBody \/ Teardown
  BY <1>7, TestInv
<1>8. ASSUME NEW s \in ServerIds, NovaStep(s) PROVE Inv'
  BY <1>8, NovaInv
<1>9. CASE UNCHANGED vars
  BY <1>9 DEF vars, Inv, TypeOK, Control, Handed, HeldWasDeployed, Owned, ToClean, Exists,
             InStack, Busy
<1> QED
  BY <1>1, <1>2, <1>3, <1>4, <1>5, <1>6, <1>7, <1>8, <1>9 DEF Next, Wait

-----------------------------------------------------------------------------
(* The theorems.                                                           *)

\* The inductive invariant holds of every behaviour.
LEMMA Invariance == Spec => []Inv
<1>1. Inv /\ [Next]_vars => Inv'
  BY InvNext
<1> QED
  BY <1>1, InvInit, PTL DEF Spec

\* The state of a test and of Nova is what the declarations say, and no waiter
\* polls more than once after its time.
THEOREM ServersTypeCorrect == Spec => []TypeOK
<1>1. Inv => TypeOK
  BY DEF Inv
<1> QED
  BY <1>1, Invariance, PTL

\* The body gets a server only in the status it asked for, or as it asked for.
THEOREM HeldServersDeployed == Spec => []HeldWasDeployed
<1>1. Inv => HeldWasDeployed
  BY DEF Inv
<1> QED
  BY <1>1, Invariance, PTL

\* osc_create_test_server hands over what it created, or destroys it, or has
\* failed to.
THEOREM NoServerOrphaned == Spec => []NoOrphan
<1>1. Inv => NoOrphan
  BY DEF Inv, Owned, NoOrphan, Busy
<1> QED
  BY <1>1, Invariance, PTL

\* At the end of the test only kept servers are left and those whose deletion
\* raised, whatever Nova did.
THEOREM ServersAccounted == Spec => []NothingForgotten
<1>1. Inv => NothingForgotten
  <2> SUFFICES ASSUME Inv, phase = "done" PROVE NothingForgotten
    BY DEF NothingForgotten
  <2>1. DOMAIN stack = {}
    BY EmptySeq, LenProperties DEF Inv, Control
  <2> QED
    BY <2>1 DEF Inv, ToClean, InStack, Busy, NothingForgotten
<1> QED
  BY <1>1, Invariance, PTL

-----------------------------------------------------------------------------
(* The trunk: what holds at every moment.                                  *)

Steps == {"idle", "port", "detach", "wait", "delete", "over"}

Plugged == device # NoServer => device \in ServerIds /\ Exists(device)

\* delete_trunk has its place among the cleanups until its turn has come.
Placed ==
  /\ step = "idle" /\ Registered => \E k \in Nat : place = {k} /\ k <= Len(stack)
  /\ ~Registered => step = "idle"
  /\ trunk = "none" => ~Registered
  /\ Running => phase = "teardown" /\ place = {Len(stack)}
  /\ phase = "done" /\ Registered => step = "over"

Outcome ==
  /\ step # "over" => ~raised
  /\ step = "over" => raised \/ trunk = "gone"
  /\ step = "over" /\ ~troubled => trunk = "gone" /\ ~raised

TrunkInv == step \in Steps /\ Plugged /\ Placed /\ Outcome

-----------------------------------------------------------------------------
(* The servers.                                                            *)

\* Every step is a step of the servers, or leaves them alone.
LEMMA ServersStep == TrunksNext => [Next]_vars
<1>1. ServerStep => Next
  BY DEF ServerStep, CreateServerOnPort, Next
<1>2. TrunkStep => UNCHANGED vars
  BY DEF TrunkStep
<1>3. ASSUME NEW cleanup \in BOOLEAN, CreateTrunk(cleanup) PROVE UNCHANGED vars
  BY <1>3 DEF CreateTrunk
<1>4. ASSUME NEW s \in ServerIds, NovaServerStep(s) PROVE Next
  BY <1>4 DEF NovaServerStep, Next
<1>5. NovaUnplug => UNCHANGED vars
  BY DEF NovaUnplug
<1> QED
  BY <1>1, <1>2, <1>3, <1>4, <1>5 DEF TrunksNext

\* Trunks leave the servers as they are: whatever Servers promises holds.
THEOREM ServersUndisturbed == TrunksSpec => Spec
<1>1. TrunksInit => Init
  BY DEF TrunksInit
<1>2. [TrunksNext]_allVars => [Next]_vars
  BY ServersStep DEF allVars
<1> QED
  BY <1>1, <1>2, PTL DEF TrunksSpec, Spec

-----------------------------------------------------------------------------
(* The trunk.                                                              *)

\* The test's steps on servers neither end one that exists nor take away more
\* than the youngest cleanup.
LEMMA ServerStepEffect ==
  ASSUME Inv, ServerStep
  PROVE  /\ \A s \in ServerIds : Exists(s) => Exists(s)'
         /\ Len(stack) \in Nat
         /\ \/ Len(stack') >= Len(stack)
            \/ phase = "teardown" /\ stack # <<>> /\ Len(stack') = Len(stack) - 1
         /\ phase' = "done" => phase = "teardown" /\ stack = <<>> /\ stack' = stack
         /\ phase # "done"
<1>1. Len(stack) \in Nat /\ stack \in Seq(ServerIds)
  BY LenProperties DEF Inv, TypeOK
<1>2. ASSUME NEW s \in ServerIds, ReturnServer(s, args'[s].cleanup)
      PROVE  Len(stack') >= Len(stack) /\ phase' = "body"
  BY <1>1, <1>2, AppendProperties DEF ReturnServer
<1>3. ASSUME NEW s \in ServerIds, NEW a \in Arguments, CreateServerOnPort(s, a)
      PROVE  /\ \A q \in ServerIds : Exists(q) => Exists(q)'
             /\ Len(stack') >= Len(stack) /\ phase' # "done" /\ phase = "body"
  <2>1. CreateServer(s, a)
    BY <1>3 DEF CreateServerOnPort
  <2>2. args'[s] = a /\ status'[s] = "BUILD" /\ \A q \in ServerIds : q # s => status'[q] = status[q]
    BY <2>1 DEF CreateServer, Inv, TypeOK
  <2>3. Len(stack') >= Len(stack) /\ phase' # "done"
    BY <1>1, <1>2, <2>1, <2>2 DEF CreateServer
  <2> QED
    BY <2>1, <2>2, <2>3 DEF CreateServer, Exists
<1>4. ASSUME NEW s \in ServerIds, NEW r \in BOOLEAN, CreateRefused(s, r)
      PROVE  UNCHANGED <<status, stack>> /\ phase' # "done" /\ phase = "body"
  BY <1>4 DEF CreateRefused, FailTest
<1>5. ASSUME DeploymentFailed, vm \in ServerIds, UNCHANGED args
      PROVE  Len(stack') >= Len(stack) /\ phase' # "done"
  BY <1>1, <1>2, <1>5 DEF DeploymentFailed
<1>6. CASE PollStatus \/ StatusTimeout
  <2>1. vm \in ServerIds /\ phase = "status"
    BY <1>6 DEF PollStatus, StatusTimeout, Inv, Control, Busy
  <2>2. UNCHANGED <<status, args>>
    BY <1>6 DEF PollStatus, StatusTimeout
  <2>3. Len(stack') >= Len(stack) /\ phase' # "done"
    <3>1. CASE ReturnServer(vm, args[vm].cleanup)
      BY <1>2, <2>1, <2>2, <3>1
    <3>2. CASE DeploymentFailed
      BY <1>5, <2>1, <2>2, <3>2
    <3>3. CASE UNCHANGED <<phase, stack>>
      BY <1>1, <2>1, <3>3
    <3> QED
      BY <1>6, <3>1, <3>2, <3>3 DEF PollStatus, StatusTimeout
  <2> QED
    BY <1>1, <2>1, <2>2, <2>3 DEF Exists
<1>7. ASSUME Raised \/ Cleaned PROVE UNCHANGED stack /\ phase' # "done"
  BY <1>7 DEF Raised, Cleaned, GiveUp, ReturnNone, FailTest
<1>8. CASE DeleteServer
  <2>1. phase = "delete" /\ vm \in ServerIds
    BY <1>8 DEF DeleteServer, Inv, Control, Busy
  <2>2. \A s \in ServerIds : Exists(s) => Exists(s)'
    BY <1>8, <2>1 DEF DeleteServer, Exists, Inv, TypeOK
  <2>3. UNCHANGED stack /\ phase' # "done"
    BY <1>7, <1>8 DEF DeleteServer, AwaitTermination
  <2> QED
    BY <1>1, <2>1, <2>2, <2>3
<1>9. CASE PollTermination \/ TerminationTimeout
  <2>1. phase = "gone" /\ UNCHANGED status
    BY <1>9 DEF PollTermination, TerminationTimeout
  <2>2. UNCHANGED stack /\ phase' # "done"
    BY <1>7, <1>9, <2>1 DEF PollTermination, TerminationTimeout
  <2> QED
    BY <1>1, <2>1, <2>2 DEF Exists
<1>10. CASE EndBody
  BY <1>1, <1>10 DEF EndBody, Exists
<1>11. CASE RunCleanup
  <2>1. Len(stack') = Len(stack) - 1
    BY <1>1, <1>11, Popping DEF RunCleanup, Popped
  <2> QED
    BY <1>1, <1>11, <2>1 DEF RunCleanup, Exists
<1>12. CASE Done
  BY <1>1, <1>12 DEF Done, Exists
<1>13. ASSUME NEW s \in ServerIds, NEW r \in BOOLEAN, CreateRefused(s, r)
       PROVE  /\ \A q \in ServerIds : Exists(q) => Exists(q)'
              /\ Len(stack') >= Len(stack) /\ phase' # "done" /\ phase = "body"
  BY <1>1, <1>4, <1>13 DEF Exists
<1> QED
  BY <1>1, <1>3, <1>6, <1>8, <1>9, <1>10, <1>11, <1>12, <1>13 DEF ServerStep, Wait, Teardown

LEMMA TrunkInvInit == TrunksInit => TrunkInv
BY DEF TrunksInit, Init, TrunkInv, Steps, Plugged, Placed, Outcome, Registered, NotRegistered, Running

\* A server goes to the parent port, or the test does something else, as long
\* as it is not delete_trunk's turn.
LEMMA ServerStepInv == Inv /\ TrunkInv /\ ServerStep => TrunkInv'
<1> SUFFICES ASSUME Inv, TrunkInv, ServerStep PROVE TrunkInv'
  OBVIOUS
<1>1. /\ UNCHANGED <<trunk, place, step, looks, asked, raised, troubled>>
      /\ \/ UNCHANGED device
         \/ \E s \in ServerIds : device' \in {device, NoServer, s} /\ status'[s] = "BUILD"
  <2>1. CASE UNCHANGED trunks
    BY <2>1 DEF trunks
  <2>2. ASSUME NEW s \in ServerIds, NEW a \in Arguments, CreateServerOnPort(s, a)
        PROVE  /\ UNCHANGED <<trunk, place, step, looks, asked, raised, troubled>>
               /\ device' \in {device, NoServer, s} /\ status'[s] = "BUILD"
    <3>1. status'[s] = "BUILD"
      BY <2>2 DEF CreateServerOnPort, CreateServer, Inv, TypeOK
    <3> QED
      BY <2>2, <3>1 DEF CreateServerOnPort
  <2> QED
    BY <2>1, <2>2 DEF ServerStep
<1>2. ~Turn /\ ~Running
  BY DEF ServerStep
<1>3. Plugged'
  BY <1>1, ServerStepEffect DEF TrunkInv, Plugged, Exists
<1>4. Placed'
  <2>1. ASSUME step = "idle", Registered PROVE \E k \in Nat : place' = {k} /\ k <= Len(stack')
    <3>1. PICK k \in Nat : place = {k} /\ k <= Len(stack)
      BY <2>1 DEF TrunkInv, Placed
    <3>2. phase = "teardown" => k # Len(stack)
      BY <1>2, <2>1, <3>1 DEF Turn
    <3>3. Len(stack) \in Nat
      BY ServerStepEffect
    <3>4. k <= Len(stack')
      <4>1. CASE Len(stack') >= Len(stack)
        <5>1. Len(stack') \in Nat
          BY InvNext, ServersStep, LenProperties DEF Inv, TypeOK, TrunksNext
        <5> QED
          BY <3>1, <3>3, <4>1, <5>1
      <4>2. CASE phase = "teardown" /\ Len(stack') = Len(stack) - 1
        BY <3>1, <3>2, <3>3, <4>2
      <4> QED
        BY <4>1, <4>2, ServerStepEffect
    <3> QED
      BY <1>1, <3>1, <3>4
  <2>2. ASSUME phase' = "done", Registered PROVE step = "over"
    <3>1. phase = "teardown" /\ Len(stack) = 0
      BY <2>2, ServerStepEffect, EmptySeq
    <3>2. step # "idle"
      <4> SUFFICES ASSUME step = "idle" PROVE FALSE
        OBVIOUS
      <4>1. PICK k \in Nat : place = {k} /\ k <= Len(stack)
        BY <2>2 DEF TrunkInv, Placed
      <4>2. k = Len(stack)
        BY <3>1, <4>1
      <4> QED
        BY <1>2, <3>1, <4>1, <4>2 DEF Turn
    <3> QED
      BY <1>2, <3>2 DEF Running
  <2> QED
    BY <1>1, <1>2, <2>1, <2>2 DEF TrunkInv, Placed, Registered, Running
<1> QED
  BY <1>1, <1>3, <1>4 DEF TrunkInv, Outcome

\* What is still plugged when delete_trunk runs has not been cleaned up.
LEMMA StillThere ==
  ASSUME Inv, TrunkInv, step = "detach", device # NoServer
  PROVE  LeftRunning(device)
<1>1. device \in ServerIds /\ Exists(device) /\ phase = "teardown" /\ place = {Len(stack)}
  BY DEF TrunkInv, Plugged, Placed, Running
<1>2. CASE InStack(device)
  <2>1. PICK i \in DOMAIN stack : stack[i] = device
    BY <1>2 DEF InStack
  <2>2. i <= Len(stack)
    BY <2>1, LenProperties DEF Inv, TypeOK
  <2> QED
    BY <1>1, <2>1, <2>2 DEF LeftRunning
<1> QED
  BY <1>1, <1>2 DEF Inv, ToClean, Busy, LeftRunning

LEMMA TrunkStepInv == Inv /\ TrunkInv /\ TrunkStep => TrunkInv'
<1> SUFFICES ASSUME Inv, TrunkInv, TrunkStep PROVE TrunkInv'
  OBVIOUS
<1>1. UNCHANGED vars /\ UNCHANGED place /\ UNCHANGED device
  BY DEF TrunkStep
<1>2. UNCHANGED <<phase, stack, status>>
  BY <1>1 DEF vars
<1>3. phase = "teardown" /\ place = {Len(stack)} /\ step \in Steps \ {"over"} /\ Registered
      /\ trunk # "none"
  BY DEF TrunkStep, ShowTrunk, ShowPort, DeleteInterface, Look, WaitTimeout, DeleteTrunk,
         TrunkInv, Turn, Placed, Running, Registered, NotRegistered, Steps
<1>4. step' \in Steps \ {"idle"} /\ trunk' # "none"
  BY <1>3 DEF TrunkStep, ShowTrunk, ShowPort, DeleteInterface, Look, LookAgain, WaitTimeout,
         DeleteTrunk, RequestFails, Raise, Steps
<1>5. Plugged'
  BY <1>1, <1>2 DEF TrunkInv, Plugged, Exists
<1>6. Placed'
  BY <1>1, <1>2, <1>3, <1>4 DEF Placed, Registered, Running
<1>7. Outcome'
  <2>1. ~raised
    BY <1>3 DEF TrunkInv, Outcome
  <2>2. ASSUME DeleteInterface PROVE Outcome'
    <3>1. CASE step' = "wait" /\ UNCHANGED raised
      BY <2>1, <3>1 DEF Outcome
    <3>2. CASE Raise /\ troubled'
      BY <3>2 DEF Raise, Outcome
    <3>3. device = NoServer \/ LeftRunning(device)
      BY <2>2, StillThere DEF DeleteInterface
    <3>4. troubled' = (troubled \/ device = NoServer \/ LeftRunning(device)) => troubled'
      BY <3>3
    <3> QED
      BY <2>2, <3>1, <3>2, <3>4 DEF DeleteInterface, RequestFails
  <2> QED
    BY <2>1, <2>2 DEF TrunkStep, ShowTrunk, ShowPort, Look, LookAgain, WaitTimeout,
         DeleteTrunk, RequestFails, Raise, Outcome
<1> QED
  BY <1>4, <1>5, <1>6, <1>7 DEF TrunkInv

LEMMA CreateTrunkInv ==
  ASSUME Inv, TrunkInv, NEW cleanup \in BOOLEAN, CreateTrunk(cleanup)
  PROVE  TrunkInv'
<1>1. UNCHANGED vars /\ UNCHANGED <<step, device, raised, troubled>>
  BY DEF CreateTrunk
<1>2. UNCHANGED <<phase, stack, status>> /\ phase = "body" /\ trunk' = "live"
  BY <1>1 DEF CreateTrunk, vars
<1>3. step = "idle"
  BY DEF CreateTrunk, TrunkInv, Placed
<1>4. Len(stack) \in Nat
  BY LenProperties DEF Inv, TypeOK
<1>5. place' = {Len(stack)} \/ place' = {}
  BY DEF CreateTrunk, NotRegistered
<1>6. Placed'
  BY <1>1, <1>2, <1>3, <1>4, <1>5 DEF Placed, Registered, NotRegistered, Running
<1> QED
  BY <1>1, <1>2, <1>3, <1>6 DEF TrunkInv, Plugged, Exists, Outcome

LEMMA NovaInvTrunk ==
  ASSUME Inv, TrunkInv, (\E s \in ServerIds : NovaServerStep(s)) \/ NovaUnplug
  PROVE  TrunkInv'
<1>1. UNCHANGED <<trunk, place, step, raised, troubled, phase, stack>>
  BY DEF NovaServerStep, NovaStep, NovaUnplug, vars
<1>2. Plugged'
  <2>1. ASSUME NEW s \in ServerIds, NovaServerStep(s) PROVE Plugged'
    <3>1. /\ status'[s] \in {"ACTIVE", "gone", "ERROR"}
          /\ \A q \in ServerIds : q # s => status'[q] = status[q]
      BY <2>1 DEF NovaServerStep, NovaStep, Inv, TypeOK
    <3> QED
      BY <2>1, <3>1 DEF NovaServerStep, TrunkInv, Plugged, Exists
  <2>2. CASE NovaUnplug
    BY <2>2 DEF NovaUnplug, Plugged
  <2> QED
    BY <2>1, <2>2
<1> QED
  BY <1>1, <1>2 DEF TrunkInv, Placed, Registered, Running, Outcome

\* The invariant of both: TrunkInv is kept with that of the servers.
LEMMA TrunkInductive == Inv /\ TrunkInv /\ [TrunksNext]_allVars => TrunkInv'
<1> SUFFICES ASSUME Inv, TrunkInv, [TrunksNext]_allVars PROVE TrunkInv'
  OBVIOUS
<1>1. CASE UNCHANGED allVars
  BY <1>1 DEF allVars, vars, trunks, TrunkInv, Plugged, Exists, Placed, Registered, Running, Outcome
<1> QED
  BY <1>1, ServerStepInv, TrunkStepInv, CreateTrunkInv, NovaInvTrunk DEF TrunksNext

LEMMA TrunkAlways == TrunksSpec => [](Inv /\ TrunkInv)
<1>1. TrunksSpec => []Inv
  BY ServersUndisturbed, Invariance, PTL
<1>2. TrunksInit => TrunkInv
  BY TrunkInvInit
<1> QED
  BY <1>1, <1>2, TrunkInductive, PTL DEF TrunksSpec

\* A trunk that is left behind was to be kept, or delete_trunk has raised:
\* whatever Nova does between the requests of delete_trunk
\* (nuage_test.py:903-938).
THEOREM TrunkLeftReported == TrunksSpec => []TrunkLeftIsReported
<1>1. TrunkInv => TrunkLeftIsReported
  BY DEF TrunkInv, Placed, Outcome, TrunkLeftIsReported
<1> QED
  BY <1>1, TrunkAlways, PTL

\* With requests that succeed and a Nova that detaches in time the trunk goes
\* without an error, however many servers have been cleaned up before it.
THEOREM TrunkGoesWithoutError == TrunksSpec => []TrunkGoes
<1>1. TrunkInv => TrunkGoes
  BY DEF TrunkInv, Placed, Outcome, TrunkGoes
<1> QED
  BY <1>1, TrunkAlways, PTL
=============================================================================
