--------------------------- MODULE GatewaysProofs ---------------------------
(***************************************************************************)
(* Theorems about Gateways, for any gateways, ports, groups, VLANs and     *)
(* vports.                                                                 *)
(*                                                                         *)
(* What stands on an object is of a kind whose loop is an earlier one      *)
(* (Standing), so that a deletion that is refused is refused for good: the *)
(* loops never come back to what is in the way.  Hence what the loops have *)
(* come by and is still there has failed, or carries something (Contained).*)
(***************************************************************************)
EXTENDS Gateways, TLAPS

InCleanup == phase \in {"cleanup", "openstack", "netpartition", "done"}

\* What may stand on what.
Fits(c, bases) ==
  \/ c \in GwVports /\ bases \subseteq GwVlans
  \/ c \in GwVlans /\ bases \subseteq GwPorts \union Groups
  \/ c \in Groups /\ bases \subseteq GwPorts \union Gateways
  \/ c \in GwPorts /\ bases \subseteq Gateways
  \/ c \in Gateways /\ bases = {}
Standing == \A c \in live : Fits(c, on[c])

\* How far the loops are.
Progress ==
  /\ ~InCleanup => loop = 1 /\ visited = {} /\ faulted = {} /\ ~has_exception
  /\ \A i \in 1 .. 5 : i < loop => listed \intersect CleanupOrder[i] \subseteq visited
  /\ \A o \in visited : \E i \in 1 .. 5 : i <= loop /\ o \in CleanupOrder[i]
  /\ phase \in {"openstack", "netpartition"} => loop = 6
  /\ phase = "done" <=> outcome # "none"
  /\ outcome \notin {"none", "AttributeError"} => loop = 6
  /\ outcome = "clean" => ~has_exception

Contained == \A o \in visited \intersect live : o \in faulted \/ InUse(o)

\* No exception, no object that a loop came by and left.
Reported == ~has_exception => visited \intersect live = {}

Enterprise ==
  /\ networks => netpart = "set"
  /\ phase = "netpartition" \/ outcome \in {"clean", "TearDownException"} => ~networks
  /\ outcome = "clean" => netpart = "unset"

\* As long as nothing failed the lists hold what is there.
Untroubled ==
  ~troubled =>
    /\ ~has_exception /\ live \subseteq listed /\ listed \subseteq live \union visited
    /\ phase = "done" => outcome = "clean"

Inv == TypeOK /\ Standing /\ Progress /\ Contained /\ Reported /\ Enterprise /\ Untroubled

USE KindsAssumption

-----------------------------------------------------------------------------
(* The kinds.                                                              *)

LEMMA Loops ==
  /\ Len(CleanupOrder) = 5 /\ DOMAIN CleanupOrder = 1 .. 5
  /\ CleanupOrder[1] = GwVports /\ CleanupOrder[2] = GwVlans /\ CleanupOrder[3] = Groups
  /\ CleanupOrder[4] = GwPorts /\ CleanupOrder[5] = Gateways
BY DEF CleanupOrder

LEMMA Kinds ==
  /\ GwVports \intersect GwVlans = {} /\ GwVports \intersect Groups = {}
  /\ GwVports \intersect GwPorts = {} /\ GwVports \intersect Gateways = {}
  /\ GwVlans \intersect Groups = {} /\ GwVlans \intersect GwPorts = {}
  /\ GwVlans \intersect Gateways = {} /\ Groups \intersect GwPorts = {}
  /\ Groups \intersect Gateways = {} /\ GwPorts \intersect Gateways = {}
<1>1. \A i, j \in 1 .. 5 : i # j => CleanupOrder[i] \intersect CleanupOrder[j] = {}
  BY Loops
<1>2. /\ CleanupOrder[1] \intersect CleanupOrder[2] = {}
      /\ CleanupOrder[1] \intersect CleanupOrder[3] = {}
      /\ CleanupOrder[1] \intersect CleanupOrder[4] = {}
      /\ CleanupOrder[1] \intersect CleanupOrder[5] = {}
      /\ CleanupOrder[2] \intersect CleanupOrder[3] = {}
      /\ CleanupOrder[2] \intersect CleanupOrder[4] = {}
      /\ CleanupOrder[2] \intersect CleanupOrder[5] = {}
      /\ CleanupOrder[3] \intersect CleanupOrder[4] = {}
      /\ CleanupOrder[3] \intersect CleanupOrder[5] = {}
      /\ CleanupOrder[4] \intersect CleanupOrder[5] = {}
  BY ONLY <1>1
<1> QED
  BY ONLY <1>2, Loops

\* What an object stands on is of a later loop.
LEMMA BasesAreLater ==
  ASSUME NEW c, NEW bases, Fits(c, bases), NEW o \in bases,
         NEW i \in 1 .. 5, NEW j \in 1 .. 5, c \in CleanupOrder[i], o \in CleanupOrder[j]
  PROVE  i < j
<1>1. CASE c \in GwVports /\ o \in GwVlans
  <2>1. i = 1 /\ j = 2
    BY <1>1, Loops, Kinds
  <2> QED
    BY <2>1
<1>2. CASE c \in GwVlans /\ o \in GwPorts \union Groups
  <2>1. i = 2 /\ j \in {3, 4}
    BY <1>2, Loops, Kinds
  <2> QED
    BY <2>1
<1>3. CASE c \in Groups /\ o \in GwPorts \union Gateways
  <2>1. i = 3 /\ j \in {4, 5}
    BY <1>3, Loops, Kinds
  <2> QED
    BY <2>1
<1>4. CASE c \in GwPorts /\ o \in Gateways
  <2>1. i = 4 /\ j = 5
    BY <1>4, Loops, Kinds
  <2> QED
    BY <2>1
<1> QED
  BY <1>1, <1>2, <1>3, <1>4 DEF Fits

LEMMA HasLoop == \A o \in Objects : \E i \in 1 .. 5 : o \in CleanupOrder[i]
BY Loops DEF Objects

LEMMA InvInit == Init => Inv
<1> SUFFICES ASSUME Init PROVE Inv
  OBVIOUS
<1>1. TypeOK
  <2>1. loop \in 1 .. Len(CleanupOrder) + 1
    BY Loops DEF Init
  <2>2. on \in [Objects -> SUBSET Objects]
    BY DEF Init
  <2> QED
    BY <2>1, <2>2 DEF Init, TypeOK
<1>2. Standing /\ Contained /\ Reported /\ Enterprise /\ Untroubled
  BY DEF Init, Standing, Contained, Reported, Enterprise, Untroubled
<1>3. Progress
  BY DEF Init, Progress, InCleanup
<1> QED
  BY <1>1, <1>2, <1>3 DEF Inv

-----------------------------------------------------------------------------
(* Set-up and tests.                                                       *)

LEMMA Making ==
  ASSUME Inv, NEW o \in Objects, o \notin live, NEW bases, Fits(o, bases), Made(o, bases)
  PROVE  /\ live' = live \union {o} /\ live' \subseteq Objects
         /\ on' \in [Objects -> SUBSET Objects]
         /\ permits' = permits /\ permits' \subseteq live'
         /\ Standing'
<1>1. /\ live' = live \union {o} /\ live' \subseteq Objects
      /\ permits' = permits /\ permits' \subseteq live'
  BY DEF Made, Inv, TypeOK
<1>2. bases \in SUBSET Objects
  BY DEF Fits, Objects
<1>3. /\ on' \in [Objects -> SUBSET Objects]
      /\ on'[o] = bases /\ \A q \in Objects : q # o => on'[q] = on[q]
  BY <1>2 DEF Made, Inv, TypeOK
<1>4. Standing'
  BY <1>1, <1>3 DEF Inv, TypeOK, Standing
<1> QED
  BY <1>1, <1>3, <1>4

LEMMA Before ==
  ASSUME Inv, phase \in {"super", "setup", "body"}
  PROVE  /\ ~InCleanup /\ outcome = "none" /\ visited = {}
         /\ live \subseteq Objects /\ on \in [Objects -> SUBSET Objects] /\ permits \subseteq live
         /\ Standing /\ listed \subseteq Objects
         /\ networks \in BOOLEAN /\ netpart \in {"unset", "set", "lost"}
         /\ networks => netpart = "set"
         /\ troubled \in BOOLEAN
         /\ ~troubled => live \subseteq listed /\ listed \subseteq live
<1>1. ~InCleanup
  BY DEF InCleanup
<1>2. outcome = "none" /\ visited = {}
  BY <1>1 DEF Inv, Progress, InCleanup
<1> QED
  BY <1>1, <1>2 DEF Inv, TypeOK, Enterprise, Untroubled

\* Steps before resource_cleanup: it begins with no list gone through.
LEMMA BeforeInv ==
  ASSUME Inv, ~InCleanup,
         live' \subseteq Objects, on' \in [Objects -> SUBSET Objects], permits' \subseteq live',
         Standing', listed' \subseteq Objects,
         UNCHANGED <<loop, visited, has_exception, faulted>>,
         \/ phase' \in {"setup", "body", "cleanup"} /\ outcome' = "none"
         \/ phase' = "done" /\ outcome' = "AttributeError",
         networks' \in BOOLEAN, netpart' \in {"unset", "set", "lost"},
         networks' => netpart' = "set",
         troubled' \in BOOLEAN,
         ~troubled' => /\ live' \subseteq listed' /\ listed' \subseteq live'
                       /\ phase' # "done"
  PROVE  Inv'
<1>1. loop = 1 /\ visited = {} /\ faulted = {} /\ ~has_exception
  BY DEF Inv, Progress
<1>2. TypeOK'
  <2>1. loop' \in 1 .. Len(CleanupOrder) + 1 /\ has_exception' \in BOOLEAN
    BY DEF Inv, TypeOK
  <2> QED
    BY <1>1, <2>1 DEF TypeOK
<1>3. Progress'
  <2>1. \A i \in 1 .. 5 : ~(i < loop')
    BY <1>1
  <2> QED
    BY <1>1, <2>1 DEF Progress, InCleanup
<1>4. Contained' /\ Reported' /\ Enterprise' /\ Untroubled'
  BY <1>1 DEF Contained, Reported, Enterprise, Untroubled
<1> QED
  BY <1>2, <1>3, <1>4 DEF Inv

LEMMA CreateInv ==
  ASSUME Inv, NEW o \in Objects, NEW bases, Fits(o, bases), Create(o, bases)
  PROVE  Inv'
<1>1. /\ phase = "setup" /\ o \notin live
      /\ UNCHANGED <<loop, has_exception, visited, networks, netpart, faulted>>
  BY DEF Create, openstack
<1>2. ~InCleanup /\ outcome = "none"
  BY <1>1, Before
<1>3. CASE Made(o, bases) /\ listed' = listed \union {o} /\ UNCHANGED <<phase, outcome, troubled>>
  <2>1. /\ live' = live \union {o} /\ live' \subseteq Objects
        /\ on' \in [Objects -> SUBSET Objects] /\ permits' \subseteq live' /\ Standing'
    BY <1>1, <1>3, Making
  <2>2. /\ networks' \in BOOLEAN /\ netpart' \in {"unset", "set", "lost"}
        /\ networks' => netpart' = "set"
        /\ listed' \subseteq Objects /\ troubled' \in BOOLEAN
        /\ ~troubled' => live' \subseteq listed' /\ listed' \subseteq live'
    BY <1>1, <1>3, <2>1, Before
  <2> QED
    BY <1>1, <1>2, <1>3, <2>1, <2>2, BeforeInv
<1>4. CASE SetupRaises /\ UNCHANGED listed /\ (Made(o, bases) \/ UNCHANGED vsd)
  <2>1. phase' = "cleanup" /\ troubled' = TRUE /\ outcome' = "none"
    BY <1>2, <1>4 DEF SetupRaises
  <2>2. /\ live' \subseteq Objects /\ on' \in [Objects -> SUBSET Objects]
        /\ permits' \subseteq live' /\ Standing'
    <3>1. CASE Made(o, bases)
      BY <1>1, <3>1, Making
    <3>2. CASE UNCHANGED vsd
      BY <3>2 DEF vsd, Inv, TypeOK, Standing
    <3> QED
      BY <1>4, <3>1, <3>2
  <2>3. /\ networks' \in BOOLEAN /\ netpart' \in {"unset", "set", "lost"}
        /\ listed' \subseteq Objects
        /\ networks' => netpart' = "set"
    BY <1>1, <1>4, Before
  <2> QED
    BY <1>1, <1>2, <2>1, <2>2, <2>3, BeforeInv
<1> QED
  BY <1>3, <1>4 DEF Create

LEMMA InTestInv ==
  ASSUME Inv, NEW o \in Objects, NEW bases, Fits(o, bases), InTest(o, bases)
  PROVE  Inv'
<1>1. /\ phase = "body" /\ o \notin live /\ Made(o, bases)
      /\ UNCHANGED <<phase, outcome, loop, has_exception, visited, networks, netpart, faulted>>
      /\ \/ listed' = listed \union {o} /\ UNCHANGED troubled
         \/ UNCHANGED listed /\ troubled' = TRUE
  BY DEF InTest, control, openstack
<1>2. ~InCleanup /\ outcome = "none"
  BY <1>1, Before
<1>3. /\ live' = live \union {o} /\ live' \subseteq Objects
      /\ on' \in [Objects -> SUBSET Objects] /\ permits' \subseteq live' /\ Standing'
  BY <1>1, Making
<1>4. /\ networks' \in BOOLEAN /\ netpart' \in {"unset", "set", "lost"}
      /\ networks' => netpart' = "set"
  BY <1>1, Before
<1>5. /\ listed' \subseteq Objects /\ troubled' \in BOOLEAN
      /\ ~troubled' => live' \subseteq listed' /\ listed' \subseteq live'
  <2>1. CASE listed' = listed \union {o} /\ UNCHANGED troubled
    BY <1>1, <1>3, <2>1, Before
  <2>2. CASE UNCHANGED listed /\ troubled' = TRUE
    BY <1>1, <2>2, Before
  <2> QED
    BY <1>1, <2>1, <2>2
<1> QED
  BY <1>1, <1>2, <1>3, <1>4, <1>5, BeforeInv

LEMMA BaseSetupInv ==
  ASSUME Inv, SetupLists \/ CreateNetpartition \/ CreateNondefNetwork \/ EndSetup \/ EndBody
  PROVE  Inv'
<1>1. /\ UNCHANGED <<loop, has_exception, visited, listed, live, on, permits, faulted>>
      /\ phase \in {"super", "setup", "body"}
      /\ \/ phase' \in {"setup", "body", "cleanup"} /\ outcome' = outcome
         \/ phase' = "done" /\ outcome' = "AttributeError"
      /\ troubled' = troubled \/ troubled' = TRUE
      /\ phase' = "done" => troubled' = TRUE
  BY DEF SetupLists, CreateNetpartition, CreateNondefNetwork, EndSetup, EndBody, BaseSetupRaises,
         SetupRaises, NoLists, lists, vsd, openstack, history
<1>2. /\ networks' \in BOOLEAN /\ netpart' \in {"unset", "set", "lost"}
      /\ networks' => netpart' = "set"
  <2>1. \/ networks' = networks /\ netpart' = netpart
        \/ netpart = "unset" /\ networks' = networks /\ netpart' \in {"unset", "set", "lost"}
        \/ netpart' = "set" /\ networks' = TRUE
    BY DEF SetupLists, CreateNetpartition, CreateNondefNetwork, EndSetup, EndBody, openstack
  <2>2. CASE networks' = networks /\ netpart' = netpart
    BY <1>1, <2>2, Before
  <2>3. CASE netpart = "unset" /\ networks' = networks /\ netpart' \in {"unset", "set", "lost"}
    <3>1. ~networks
      BY <1>1, <2>3, Before
    <3> QED
      BY <1>1, <2>3, <3>1, Before
  <2> QED
    BY <2>1, <2>2, <2>3
<1>3. Standing' /\ outcome = "none" /\ ~InCleanup
  <2>1. UNCHANGED <<live, on>>
    BY <1>1
  <2> QED
    BY <1>1, <2>1, Before DEF Standing
<1>4. /\ live' \subseteq Objects /\ on' \in [Objects -> SUBSET Objects] /\ permits' \subseteq live'
      /\ listed' \subseteq Objects /\ troubled' \in BOOLEAN
      /\ ~troubled' => live' \subseteq listed' /\ listed' \subseteq live'
  <2>1. CASE troubled' = troubled
    BY <1>1, <2>1, Before
  <2>2. CASE troubled' = TRUE
    BY <1>1, <2>2, Before
  <2> QED
    BY <1>1, <2>1, <2>2
<1> QED
  BY <1>1, <1>2, <1>3, <1>4, BeforeInv

LEMMA TestInv ==
  ASSUME Inv, NEW v \in GwVlans, AssignGatewayVlan(v) \/ DeleteGatewayVlanInTest(v)
  PROVE  Inv'
<1>1. /\ UNCHANGED <<phase, outcome, loop, has_exception, visited, on, networks, netpart, faulted>>
      /\ phase = "body" /\ v \in live
      /\ \/ /\ UNCHANGED <<live, listed, troubled>>
            /\ permits' \in {permits \union {v}, permits \ {v}}
         \/ /\ live' = live \ {v} /\ permits' = permits \ {v}
            /\ \/ listed' = listed \ {v} /\ UNCHANGED troubled
               \/ UNCHANGED listed /\ troubled' = TRUE
  BY DEF AssignGatewayVlan, DeleteGatewayVlanInTest, control, openstack, history, lists
<1>2. ~InCleanup /\ outcome = "none"
  BY <1>1, Before
<1>3. Standing' /\ live' \subseteq Objects /\ permits' \subseteq live'
  BY <1>1, Before DEF Standing
<1>4. /\ networks' \in BOOLEAN /\ netpart' \in {"unset", "set", "lost"}
      /\ networks' => netpart' = "set"
      /\ on' \in [Objects -> SUBSET Objects]
      /\ listed' \subseteq Objects /\ troubled' \in BOOLEAN
      /\ ~troubled' => live' \subseteq listed' /\ listed' \subseteq live'
  <2>1. CASE UNCHANGED <<live, listed, troubled>>
    BY <1>1, <2>1, Before
  <2>2. CASE live' = live \ {v} /\ listed' = listed \ {v} /\ UNCHANGED troubled
    BY <1>1, <2>2, Before
  <2>3. CASE live' = live \ {v} /\ UNCHANGED listed /\ troubled' = TRUE
    BY <1>1, <2>3, Before
  <2> QED
    BY <1>1, <2>1, <2>2, <2>3
<1> QED
  BY <1>1, <1>2, <1>3, <1>4, BeforeInv

-----------------------------------------------------------------------------
(* resource_cleanup.                                                       *)

\* As long as nothing failed, the object that comes next is there and carries
\* nothing.
LEMMA Free ==
  ASSUME Inv, NEW o \in Objects, Visit(o), ~troubled
  PROVE  o \in live /\ ~InUse(o)
<1>1. /\ loop \in 1 .. 5 /\ o \in listed /\ o \notin visited /\ o \in CleanupOrder[loop]
      /\ ~has_exception /\ live \subseteq listed /\ listed \subseteq live \union visited
  BY Loops DEF Visit, Ahead, Inv, TypeOK, Untroubled
<1>2. ASSUME NEW c \in live, o \in on[c] PROVE FALSE
  <2>1. c \in Objects /\ c \in listed /\ Fits(c, on[c])
    BY <1>1 DEF Inv, TypeOK, Standing
  <2>2. PICK i \in 1 .. 5 : c \in CleanupOrder[i]
    BY <2>1, HasLoop
  <2>3. i < loop
    BY <1>1, <1>2, <2>1, <2>2, BasesAreLater
  <2>4. c \in visited
    BY <2>1, <2>2, <2>3 DEF Inv, Progress
  <2> QED
    BY <1>1, <1>2, <2>4 DEF Inv, Reported
<1> QED
  BY <1>1, <1>2 DEF InUse

\* One iteration of a loop.  What it deletes carries nothing that the loops
\* have come by.
LEMMA VisitInv ==
  ASSUME Inv, NEW o \in Objects, Visit(o), UNCHANGED <<phase, on>>,
         live' = live \/ (live' = live \ {o} /\ ~InUse(o)),
         permits' \subseteq live',
         faulted' \in {faulted, faulted \union {o}},
         o \in live' => has_exception' = TRUE /\ (o \in faulted' \/ InUse(o)),
         has_exception' = has_exception \/ has_exception' = TRUE,
         troubled' \in BOOLEAN,
         ~troubled' => ~troubled /\ live' = live \ {o} /\ has_exception' = has_exception
  PROVE  Inv'
<1>1. /\ phase = "cleanup" /\ loop \in 1 .. 5
      /\ o \in listed /\ o \notin visited /\ o \in CleanupOrder[loop]
      /\ visited' = visited \union {o}
      /\ UNCHANGED <<loop, outcome, listed, networks, netpart>>
  BY Loops DEF Visit, Ahead, openstack, Inv, TypeOK
<1>2. TypeOK'
  <2>1. has_exception' \in BOOLEAN
    BY DEF Inv, TypeOK
  <2>2. faulted' \subseteq listed' /\ visited' \subseteq listed'
    BY <1>1 DEF Inv, TypeOK
  <2>3. live' \subseteq Objects
    BY DEF Inv, TypeOK
  <2> QED
    BY <1>1, <2>1, <2>2, <2>3 DEF Inv, TypeOK
<1>3. Standing'
  <2> SUFFICES ASSUME NEW c \in live' PROVE Fits(c, on'[c])
    BY DEF Standing
  <2>1. c \in live /\ on' = on
    OBVIOUS
  <2> QED
    BY <2>1 DEF Inv, Standing
<1>4. Progress'
  <2>1. \A q \in visited' : \E i \in 1 .. 5 : i <= loop' /\ q \in CleanupOrder[i]
    BY <1>1 DEF Inv, Progress
  <2>2. \A i \in 1 .. 5 : i < loop' => listed' \intersect CleanupOrder[i] \subseteq visited'
    BY <1>1 DEF Inv, Progress
  <2>3. InCleanup' /\ phase' = "cleanup" /\ outcome' = "none"
    BY <1>1 DEF Inv, Progress, TypeOK, InCleanup
  <2> QED
    BY <2>1, <2>2, <2>3 DEF Progress
<1>5. Contained'
  <2> SUFFICES ASSUME NEW q \in visited' \intersect live' PROVE q \in faulted' \/ InUse(q)'
    BY DEF Contained
  <2>1. CASE q = o
    BY <1>1, <2>1 DEF InUse, Inv, TypeOK
  <2>2. CASE q # o /\ q \notin faulted
    <3>1. q \in visited /\ q \in live
      BY <1>1, <2>2
    <3>2. PICK c \in live : q \in on[c]
      BY <2>2, <3>1 DEF Inv, Contained, InUse
    <3>3. c \in live'
      <4> SUFFICES ASSUME c = o PROVE FALSE
        OBVIOUS
      <4>1. PICK i \in 1 .. 5 : i <= loop /\ q \in CleanupOrder[i]
        BY <3>1 DEF Inv, Progress
      <4>2. Fits(o, on[o]) /\ q \in on[o]
        BY <3>2 DEF Inv, Standing
      <4>3. loop < i
        BY <1>1, <4>1, <4>2, BasesAreLater
      <4> QED
        BY <1>1, <4>1, <4>3
    <3> QED
      BY <3>2, <3>3 DEF InUse
  <2>3. CASE q # o /\ q \in faulted
    BY <2>3
  <2> QED
    BY <2>1, <2>2, <2>3
<1>6. Reported'
  <2> SUFFICES ASSUME ~has_exception' PROVE visited' \intersect live' = {}
    BY DEF Reported
  <2>1. ~has_exception /\ o \notin live' /\ live' \subseteq live
    OBVIOUS
  <2> QED
    BY <1>1, <2>1 DEF Inv, Reported
<1>7. Enterprise'
  BY <1>1 DEF Inv, Enterprise
<1>8. Untroubled'
  <2> SUFFICES ASSUME ~troubled' PROVE /\ ~has_exception' /\ live' \subseteq listed'
                                       /\ listed' \subseteq live' \union visited'
                                       /\ phase' = "done" => outcome' = "clean"
    BY DEF Untroubled
  <2>1. ~troubled /\ live' = live \ {o} /\ has_exception' = has_exception
    OBVIOUS
  <2> QED
    BY <1>1, <2>1 DEF Inv, Untroubled
<1> QED
  BY <1>2, <1>3, <1>4, <1>5, <1>6, <1>7, <1>8 DEF Inv

LEMMA AnsweredInv ==
  ASSUME Inv, NEW o \in Objects, Visit(o), Answered(o)
  PROVE  Inv'
<1>1. UNCHANGED <<phase, on, faulted, troubled>>
  BY DEF Answered, Gone, vsd, Caught, history
<1>2. CASE o \in live /\ ~InUse(o) /\ Gone(o) /\ UNCHANGED has_exception
  <2>1. live' = live \ {o} /\ permits' \subseteq live' /\ troubled' \in BOOLEAN
    BY <1>1, <1>2 DEF Gone, Inv, TypeOK
  <2> QED
    BY <1>1, <1>2, <2>1, VisitInv
<1>3. CASE (o \in live => InUse(o)) /\ UNCHANGED vsd /\ has_exception' = TRUE
  <2>1. live' = live /\ permits' \subseteq live' /\ troubled' \in BOOLEAN
    BY <1>1, <1>3 DEF vsd, Inv, TypeOK
  <2>2. troubled
    BY <1>3, Free
  <2> QED
    BY <1>1, <1>3, <2>1, <2>2, VisitInv
<1> QED
  BY <1>2, <1>3 DEF Answered, Caught

LEMMA RaisedInv ==
  ASSUME Inv, NEW o \in Objects, Visit(o), Raised(o)
  PROVE  Inv'
<1>1. /\ UNCHANGED <<phase, on>> /\ has_exception' = TRUE /\ troubled' = TRUE
      /\ faulted' = faulted \union {o}
      /\ live' = live \/ (live' = live \ {o} /\ ~InUse(o))
  BY DEF Raised, Caught, Gone, vsd
<1>2. permits' \subseteq live'
  BY DEF Raised, Gone, vsd, Inv, TypeOK
<1> QED
  BY <1>1, <1>2, VisitInv

LEMMA PermissionOnlyInv ==
  ASSUME Inv, NEW o \in Objects, Visit(o), PermissionOnly(o)
  PROVE  Inv'
<1>1. /\ UNCHANGED <<phase, live, on>> /\ has_exception' = TRUE /\ permits' \subseteq live'
  BY DEF PermissionOnly, Caught, Inv, TypeOK
<1>2. CASE InUse(o) /\ UNCHANGED <<faulted, troubled>>
  <2>1. troubled /\ troubled' \in BOOLEAN
    BY <1>2, Free DEF Inv, TypeOK
  <2> QED
    BY <1>1, <1>2, <2>1, VisitInv
<1>3. CASE faulted' = faulted \union {o} /\ troubled' = TRUE
  BY <1>1, <1>3, VisitInv
<1> QED
  BY <1>2, <1>3 DEF PermissionOnly, history

LEMMA CleanInv ==
  ASSUME Inv, NEW o \in Objects, Clean(o)
  PROVE  Inv'
<1>1. Visit(o) /\ (Answered(o) \/ Raised(o) \/ PermissionOnly(o))
  BY DEF Clean, CleanVport, CleanVlan, CleanGroup, CleanPort, CleanGateway, Delete,
         DeletePermissionAndVlan
<1> QED
  BY <1>1, AnsweredInv, RaisedInv, PermissionOnlyInv

LEMMA NextLoopInv == Inv /\ NextLoop => Inv'
<1> SUFFICES ASSUME Inv, NextLoop PROVE Inv'
  OBVIOUS
<1>1. /\ phase = "cleanup" /\ loop \in 1 .. 5 /\ loop' = loop + 1
      /\ listed \intersect CleanupOrder[loop] \subseteq visited
      /\ UNCHANGED <<phase, has_exception, outcome, visited, listed, live, on, permits, networks,
                     netpart, faulted, troubled>>
  BY Loops DEF NextLoop, NextList, Ahead, vsd, openstack, history, Inv, TypeOK
<1>2. TypeOK'
  <2>1. loop' \in 1 .. Len(CleanupOrder) + 1
    BY <1>1, Loops
  <2> QED
    BY <1>1, <2>1 DEF Inv, TypeOK
<1>3. Progress'
  <2>1. \A q \in visited' : \E i \in 1 .. 5 : i <= loop' /\ q \in CleanupOrder[i]
    <3> SUFFICES ASSUME NEW q \in visited PROVE \E i \in 1 .. 5 : i <= loop' /\ q \in CleanupOrder[i]
      BY <1>1
    <3>1. PICK i \in 1 .. 5 : i <= loop /\ q \in CleanupOrder[i]
      BY DEF Inv, Progress
    <3> QED
      BY <1>1, <3>1
  <2>2. \A i \in 1 .. 5 : i < loop' => listed' \intersect CleanupOrder[i] \subseteq visited'
    BY <1>1 DEF Inv, Progress
  <2>3. InCleanup' /\ phase' = "cleanup" /\ outcome' = "none"
    BY <1>1 DEF Inv, Progress, TypeOK, InCleanup
  <2> QED
    BY <2>1, <2>2, <2>3 DEF Progress
<1> QED
  BY <1>1, <1>2, <1>3 DEF Inv, Standing, Fits, Contained, InUse, Reported, Enterprise, Untroubled

\* What comes after the loops touches no list and no gateway.
LEMMA AfterLoopsInv ==
  ASSUME Inv, EndOfLoops \/ CleanupOpenStack \/ DeleteNetpartition
  PROVE  Inv'
<1>1. /\ UNCHANGED <<loop, visited, listed, live, on, permits, faulted>>
      /\ phase \in {"cleanup", "openstack", "netpartition"} /\ loop = 6 /\ outcome = "none"
      /\ phase' \in {"openstack", "netpartition", "done"}
  BY Loops DEF EndOfLoops, CleanupOpenStack, DeleteNetpartition, lists, vsd, history, Inv, TypeOK,
               Progress
<1>2. /\ has_exception' = has_exception \/ has_exception' = TRUE
      /\ troubled' = troubled \/ troubled' = TRUE
      /\ networks' = networks \/ networks' = FALSE
      /\ netpart' = netpart \/ netpart' = "unset"
      /\ phase' # "done" => outcome' = "none" /\ UNCHANGED has_exception
      /\ phase' = "done" => outcome' \in {"clean", "TearDownException", "OpenStack"}
      /\ phase' = "netpartition" => networks' = FALSE
      /\ outcome' \in {"clean", "TearDownException"} => phase = "netpartition" /\ networks' = networks
      /\ outcome' = "clean" => netpart' = "unset" /\ ~has_exception /\ UNCHANGED has_exception
      /\ netpart' # netpart => phase = "netpartition" /\ networks' = networks
      /\ UNCHANGED troubled =>
           \/ phase' # "done"
           \/ UNCHANGED has_exception /\ outcome' = (IF has_exception THEN "TearDownException" ELSE "clean")
           \/ troubled' = TRUE
  BY <1>1 DEF EndOfLoops, CleanupOpenStack, DeleteNetpartition, NetpartitionDeleted, openstack,
              history, lists
<1>3. TypeOK'
  <2>1. /\ has_exception' \in BOOLEAN /\ troubled' \in BOOLEAN /\ networks' \in BOOLEAN
        /\ netpart' \in {"unset", "set", "lost"}
    BY <1>2 DEF Inv, TypeOK
  <2>2. outcome' \in {"none", "clean", "TearDownException", "OpenStack", "AttributeError"}
    BY <1>2
  <2> QED
    BY <1>1, <2>1, <2>2 DEF Inv, TypeOK
<1>4. Progress'
  <2>1. outcome' = "clean" => ~has_exception'
    BY <1>2
  <2> QED
    BY <1>1, <1>2, <2>1 DEF Inv, Progress, InCleanup
<1>5. Standing' /\ Contained'
  BY <1>1 DEF Inv, Standing, Fits, Contained, InUse
<1>6. Reported'
  BY <1>1, <1>2 DEF Inv, Reported
<1>7. Enterprise'
  BY <1>1, <1>2 DEF Inv, Enterprise
<1>8. Untroubled'
  BY <1>1, <1>2 DEF Inv, Untroubled
<1> QED
  BY <1>3, <1>4, <1>5, <1>6, <1>7, <1>8 DEF Inv

-----------------------------------------------------------------------------
(* The specification.                                                      *)

LEMMA SetupInv == Inv /\ Setup => Inv'
<1> SUFFICES ASSUME Inv, Setup PROVE Inv'
  OBVIOUS
<1>1. CASE SetupLists \/ CreateNetpartition \/ CreateNondefNetwork \/ EndSetup
  BY <1>1, BaseSetupInv
<1>2. ASSUME NEW g \in Gateways, CreateGateway(g) PROVE Inv'
  BY <1>2, CreateInv DEF CreateGateway, Fits, Objects
<1>3. ASSUME NEW p \in GwPorts, CreateGatewayPort(p) PROVE Inv'
  <2>1. PICK g \in Gateways : Create(p, {g})
    BY <1>3 DEF CreateGatewayPort
  <2>2. p \in Objects /\ Fits(p, {g})
    BY DEF Fits, Objects
  <2> QED
    BY <2>1, <2>2, CreateInv
<1>4. ASSUME NEW r \in Groups, CreateGatewayRedundancyGroup(r) PROVE Inv'
  <2>1. PICK g, h \in Gateways : Create(r, {g, h} \union RedundantPorts(g, h))
    BY <1>4 DEF CreateGatewayRedundancyGroup
  <2> DEFINE B == {g, h} \union RedundantPorts(g, h)
  <2>2. r \in Objects /\ B \subseteq GwPorts \union Gateways
    BY DEF Objects, RedundantPorts
  <2>3. Fits(r, B)
    BY <2>2 DEF Fits
  <2> QED
    BY <2>1, <2>2, <2>3, CreateInv
<1>5. ASSUME NEW v \in GwVlans, CreateGatewayVlan(v) \/ CreateGatewayVlanRedundantPort(v)
      PROVE Inv'
  <2>1. PICK p \in GwPorts \union Groups : Create(v, {p})
    BY <1>5 DEF CreateGatewayVlan, CreateGatewayVlanRedundantPort
  <2>2. v \in Objects /\ Fits(v, {p})
    BY DEF Fits, Objects
  <2> QED
    BY <2>1, <2>2, CreateInv
<1> QED
  BY <1>1, <1>2, <1>3, <1>4, <1>5 DEF Setup

LEMMA BodyInv == Inv /\ Body => Inv'
<1> SUFFICES ASSUME Inv, Body PROVE Inv'
  OBVIOUS
<1>1. ASSUME NEW v \in GwVlans, TestCreatesVlan(v) PROVE Inv'
  <2>1. PICK p \in GwPorts : InTest(v, {p})
    BY <1>1 DEF TestCreatesVlan
  <2>2. v \in Objects /\ Fits(v, {p})
    BY DEF Fits, Objects
  <2> QED
    BY <2>1, <2>2, InTestInv
<1>2. ASSUME NEW w \in GwVports, CreateGatewayVport(w) PROVE Inv'
  <2>1. PICK v \in GwVlans : InTest(w, {v})
    BY <1>2 DEF CreateGatewayVport
  <2>2. w \in Objects /\ Fits(w, {v})
    BY DEF Fits, Objects
  <2> QED
    BY <2>1, <2>2, InTestInv
<1>3. ASSUME NEW v \in GwVlans, AssignGatewayVlan(v) \/ DeleteGatewayVlanInTest(v) PROVE Inv'
  BY <1>3, TestInv
<1>4. CASE EndBody
  BY <1>4, BaseSetupInv
<1> QED
  BY <1>1, <1>2, <1>3, <1>4 DEF Body

LEMMA InvNext == Inv /\ [Next]_vars => Inv'
<1> SUFFICES ASSUME Inv, [Next]_vars PROVE Inv'
  OBVIOUS
<1>1. CASE Setup
  BY <1>1, SetupInv
<1>2. CASE Body
  BY <1>2, BodyInv
<1>3. CASE Cleanup
  BY <1>3, CleanInv, NextLoopInv, AfterLoopsInv DEF Cleanup
<1>4. CASE UNCHANGED vars
  BY <1>4 DEF vars, control, lists, vsd, openstack, history, Inv, TypeOK, Standing, Fits, Progress,
              InCleanup, Contained, InUse, Reported, Enterprise, Untroubled
<1> QED
  BY <1>1, <1>2, <1>3, <1>4 DEF Next

LEMMA Invariance == Spec => []Inv
<1> QED
  BY InvInit, InvNext, PTL DEF Spec

\* After the last loop every list has been gone through.
LEMMA AllVisited == Inv /\ loop = 6 => listed \subseteq visited
<1> SUFFICES ASSUME Inv, loop = 6, NEW o \in listed PROVE o \in visited
  OBVIOUS
<1>1. PICK i \in 1 .. 5 : o \in CleanupOrder[i]
  BY HasLoop DEF Inv, TypeOK
<1> QED
  BY <1>1 DEF Inv, Progress

\* The types of what the class and the VSD hold, and that only a VLAN that is
\* there has a permission (delete_vlan_permission).
THEOREM GatewaysTypeCorrect == Spec => []TypeOK
<1>1. Inv => TypeOK
  BY DEF Inv
<1> QED
  BY <1>1, Invariance, PTL

\* A resource_cleanup that raises no TearDownException has left nothing that
\* the class lists, nor its network and net-partition.
THEOREM NoGatewayLeftSilently == Spec => []NothingLeftSilently
<1>1. Inv => NothingLeftSilently
  <2> SUFFICES ASSUME Inv, outcome = "clean" PROVE NothingLeftSilently
    BY DEF NothingLeftSilently
  <2>1. loop = 6 /\ ~has_exception /\ ~networks /\ netpart = "unset"
    BY DEF Inv, Progress, Enterprise
  <2> QED
    BY <2>1, AllVisited DEF Inv, Reported, NothingLeftSilently
<1> QED
  BY <1>1, Invariance, PTL

\* What the loops of resource_cleanup leave has failed itself, or carries
\* something that stayed: catching every exception keeps a failure to itself.
THEOREM GatewayFailuresContained == Spec => []FailuresAreContained
<1>1. Inv => FailuresAreContained
  <2> SUFFICES ASSUME Inv, phase \in {"openstack", "netpartition", "done"},
                      outcome # "AttributeError"
               PROVE  \A o \in listed \intersect live : o \in faulted \/ InUse(o)
    BY DEF FailuresAreContained
  <2>1. loop = 6
    BY DEF Inv, Progress
  <2> QED
    BY <2>1, AllVisited DEF Inv, Contained
<1> QED
  BY <1>1, Invariance, PTL

\* The order of the loops suffices: where nothing fails, no deletion meets an
\* object in use, and resource_cleanup ends clean with nothing left.
THEOREM GatewayCleanupOrderSuffices == Spec => []TidyIsClean
<1>1. Inv => TidyIsClean
  <2> SUFFICES ASSUME Inv, phase = "done", ~troubled PROVE TidyIsClean
    BY DEF TidyIsClean
  <2>1. outcome = "clean" /\ ~has_exception /\ live \subseteq listed
    BY DEF Inv, Untroubled
  <2>2. loop = 6 /\ netpart = "unset"
    BY <2>1 DEF Inv, Progress, Enterprise
  <2>3. visited \intersect live = {}
    BY <2>1 DEF Inv, Reported
  <2> QED
    BY <2>1, <2>2, <2>3, AllVisited DEF TidyIsClean
<1> QED
  BY <1>1, Invariance, PTL
=============================================================================
