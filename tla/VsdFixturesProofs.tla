-------------------------- MODULE VsdFixturesProofs -------------------------
(***************************************************************************)
(* Theorems about VsdFixtures, for any objects of each kind and any number *)
(* of attempts.                                                            *)
(*                                                                         *)
(* Nobody's list loses an object that is on the VSD (Known), and the loops *)
(* leave empty lists behind (Behind): a resource_cleanup that raises       *)
(* nothing has emptied them all.  That it raises nothing when nothing      *)
(* fails rests on the order of the loops: what could still stand on an     *)
(* object is of a kind whose loop has run (OrderedParents with Behind).    *)
(***************************************************************************)
EXTENDS VsdFixtures, TLAPS

\* What may stand on what.
OrderedParents ==
  \A o \in live :
    \/ parent[o] = NoParent
    \/ o \in L2Domains /\ parent[o] \in L2Templates
    \/ o \in L3Domains /\ parent[o] \in L3Templates
    \/ o \in Zones /\ parent[o] \in L3Domains
    \/ o \in Subnets /\ parent[o] \in Zones

\* Somebody knows of each object: its class, its test, or nobody by right.
Known == live \subseteq listed \union own \union strays

\* Where the test process is.
Control ==
  /\ deleting => phase \in {"body", "cleanup"}
  /\ deleting /\ phase = "body" => target \in own
  /\ deleting /\ phase = "cleanup" => loop <= 7 /\ target \in listed \intersect CleanupOrder[loop]
  /\ phase \in {"body", "openstack"} => loop = 1
  /\ phase # "done" => outcome = "none"
  /\ outcome = "clean" => loop = 8

Behind == \A i \in 1 .. 7 : i < loop => listed \intersect CleanupOrder[i] = {}

\* As long as nothing failed, the lists hold what is there, and templates that
\* create_l2domain made stand alone.
Untroubled ==
  ~troubled =>
    /\ listed \union own \subseteq live
    /\ phase # "body" => own = {}
    /\ \A o \in strays : o \in L2Templates /\ parent[o] = NoParent
    /\ vports \subseteq L2Domains \union Subnets
    /\ phase = "done" => outcome = "clean"

\* Objects that are not there have no parent.
Orphaned == \A o \in Objects \ live : parent[o] = NoParent

Inv ==
  /\ TypeOK /\ DeleteIsTrue /\ Control
  /\ OrderedParents /\ Orphaned /\ Known /\ Behind /\ Untroubled

USE KindsAssumption, RetriesAssumption

-----------------------------------------------------------------------------
(* The kinds.                                                              *)

LEMMA Loops ==
  /\ Len(CleanupOrder) = 7 /\ DOMAIN CleanupOrder = 1 .. 7
  /\ CleanupOrder[1] = L2Domains /\ CleanupOrder[2] = L2Templates
  /\ CleanupOrder[3] = Subnets /\ CleanupOrder[4] = Zones
  /\ CleanupOrder[5] = L3Domains /\ CleanupOrder[6] = L3Templates
  /\ CleanupOrder[7] = SharedDomains
BY DEF CleanupOrder

LEMMA Kinds ==
  /\ L2Domains \intersect L2Templates = {} /\ L2Domains \intersect Subnets = {}
  /\ L2Domains \intersect Zones = {} /\ L2Domains \intersect L3Domains = {}
  /\ L2Domains \intersect L3Templates = {} /\ L2Domains \intersect SharedDomains = {}
  /\ L2Templates \intersect Subnets = {} /\ L2Templates \intersect Zones = {}
  /\ L2Templates \intersect L3Domains = {} /\ L2Templates \intersect L3Templates = {}
  /\ L2Templates \intersect SharedDomains = {}
  /\ Subnets \intersect Zones = {} /\ Subnets \intersect L3Domains = {}
  /\ Subnets \intersect L3Templates = {} /\ Subnets \intersect SharedDomains = {}
  /\ Zones \intersect L3Domains = {} /\ Zones \intersect L3Templates = {}
  /\ Zones \intersect SharedDomains = {}
  /\ L3Domains \intersect L3Templates = {} /\ L3Domains \intersect SharedDomains = {}
  /\ L3Templates \intersect SharedDomains = {}
<1>1. \A i, j \in 1 .. 7 : i # j => CleanupOrder[i] \intersect CleanupOrder[j] = {}
  BY Loops
<1>2. /\ CleanupOrder[1] \intersect CleanupOrder[2] = {}
      /\ CleanupOrder[1] \intersect CleanupOrder[3] = {}
      /\ CleanupOrder[1] \intersect CleanupOrder[4] = {}
      /\ CleanupOrder[1] \intersect CleanupOrder[5] = {}
      /\ CleanupOrder[1] \intersect CleanupOrder[6] = {}
      /\ CleanupOrder[1] \intersect CleanupOrder[7] = {}
      /\ CleanupOrder[2] \intersect CleanupOrder[3] = {}
      /\ CleanupOrder[2] \intersect CleanupOrder[4] = {}
      /\ CleanupOrder[2] \intersect CleanupOrder[5] = {}
      /\ CleanupOrder[2] \intersect CleanupOrder[6] = {}
      /\ CleanupOrder[2] \intersect CleanupOrder[7] = {}
      /\ CleanupOrder[3] \intersect CleanupOrder[4] = {}
      /\ CleanupOrder[3] \intersect CleanupOrder[5] = {}
      /\ CleanupOrder[3] \intersect CleanupOrder[6] = {}
      /\ CleanupOrder[3] \intersect CleanupOrder[7] = {}
      /\ CleanupOrder[4] \intersect CleanupOrder[5] = {}
      /\ CleanupOrder[4] \intersect CleanupOrder[6] = {}
      /\ CleanupOrder[4] \intersect CleanupOrder[7] = {}
      /\ CleanupOrder[5] \intersect CleanupOrder[6] = {}
      /\ CleanupOrder[5] \intersect CleanupOrder[7] = {}
      /\ CleanupOrder[6] \intersect CleanupOrder[7] = {}
  BY ONLY <1>1
<1> QED
  BY ONLY <1>2, Loops

LEMMA InvInit == Init => Inv
<1> SUFFICES ASSUME Init PROVE Inv
  OBVIOUS
<1>1. TypeOK
  <2>1. loop \in 1 .. Len(CleanupOrder) + 1 /\ attempt \in 1 .. Retries
    BY Loops DEF Init
  <2>2. parent \in [Objects -> Objects \union {NoParent}]
    BY DEF Init
  <2> QED
    BY <2>1, <2>2 DEF Init, TypeOK
<1>2. DeleteIsTrue /\ OrderedParents /\ Orphaned /\ Known /\ Untroubled
  BY DEF Init, DeleteIsTrue, OrderedParents, Orphaned, Known, Untroubled
<1>3. Control /\ Behind
  BY DEF Init, Control, deleting, Behind
<1> QED
  BY <1>1, <1>2, <1>3 DEF Inv

-----------------------------------------------------------------------------
(* Creation.                                                               *)

\* A new object stands on one of the right kind, and is nobody's child yet.
LEMMA NewObject ==
  ASSUME Inv, NEW o \in Objects, Fresh(o), NEW p \in Parents(o),
         parent' = [parent EXCEPT ![o] = p], live' = live \union {o}
  PROVE  /\ parent' \in [Objects -> Objects \union {NoParent}]
         /\ OrderedParents' /\ Orphaned'
<1>1. \/ p = NoParent
      \/ o \in L2Domains /\ p \in live \intersect L2Templates
      \/ o \in L3Domains /\ p \in live \intersect L3Templates
      \/ o \in Zones /\ p \in live \intersect L3Domains
      \/ o \in Subnets /\ p \in live \intersect Zones
  BY DEF Parents
<1>2. p \in Objects \union {NoParent}
  BY <1>1 DEF Inv, TypeOK
<1>3. /\ parent' \in [Objects -> Objects \union {NoParent}]
      /\ parent'[o] = p /\ \A q \in Objects : q # o => parent'[q] = parent[q]
  BY <1>2 DEF Inv, TypeOK
<1>4. OrderedParents'
  BY <1>1, <1>3 DEF Inv, TypeOK, OrderedParents
<1>5. Orphaned'
  BY <1>3 DEF Inv, Orphaned
<1> QED
  BY <1>3, <1>4, <1>5

LEMMA CreateInv ==
  ASSUME Inv, NEW o \in Objects, Create(o) \/ CreateLost(o)
  PROVE  Inv'
<1>1. PICK p \in Parents(o) : parent' = [parent EXCEPT ![o] = p]
  BY DEF Create, CreateLost
<1>2. /\ phase = "body" /\ ~deleting /\ Fresh(o) /\ live' = live \union {o}
      /\ UNCHANGED <<phase, target, attempt, loop, outcome, vports, removed>>
      /\ \/ /\ listed' \union own' = listed \union own \union {o}
            /\ listed' \in {listed, listed \union {o}} /\ own' \in {own, own \union {o}}
            /\ UNCHANGED <<strays, troubled>>
         \/ strays' = strays \union {o} /\ troubled' = TRUE /\ UNCHANGED <<listed, own>>
  BY DEF Create, CreateLost, InBody, Record, call
<1>3. OrderedParents' /\ Orphaned' /\ parent' \in [Objects -> Objects \union {NoParent}]
  BY <1>1, <1>2, NewObject
<1>4. TypeOK'
  BY <1>2, <1>3 DEF Inv, TypeOK
<1>5. DeleteIsTrue' /\ Known'
  BY <1>2 DEF Inv, DeleteIsTrue, Known, Fresh
<1>6. Control' /\ Behind'
  BY <1>2 DEF Inv, Control, Behind, deleting
<1>7. Untroubled'
  <2>1. \A q \in strays : q # o
    BY <1>2 DEF Fresh
  <2>2. \A q \in Objects : q # o => parent'[q] = parent[q]
    BY <1>1 DEF Inv, TypeOK
  <2> QED
    BY <1>2, <2>1, <2>2 DEF Inv, TypeOK, Untroubled, Control
<1> QED
  BY <1>3, <1>4, <1>5, <1>6, <1>7 DEF Inv

LEMMA ImplicitTemplateInv ==
  ASSUME Inv, NEW d \in L2Domains, NEW t \in L2Templates, CreateL2domainWithoutTemplate(d, t)
  PROVE  Inv'
<1>1. /\ phase = "body" /\ ~deleting /\ Fresh(d) /\ Fresh(t) /\ strays' = strays \union {t}
      /\ UNCHANGED <<phase, target, attempt, loop, outcome, vports, removed, troubled>>
      /\ \/ /\ live' = live \union {t, d} /\ parent' = [parent EXCEPT ![d] = t]
            /\ listed' \union own' = listed \union own \union {d}
            /\ listed' \in {listed, listed \union {d}} /\ own' \in {own, own \union {d}}
         \/ live' = live \union {t} /\ UNCHANGED <<parent, listed, own>>
  BY DEF CreateL2domainWithoutTemplate, InBody, Record, call
<1>2. d \in Objects /\ t \in Objects /\ d # t
  BY Kinds DEF Objects
<1>3. parent[t] = NoParent /\ \A q \in Objects : q # d => parent'[q] = parent[q]
  BY <1>1, <1>2 DEF Inv, TypeOK, Orphaned, Fresh
<1>4. TypeOK'
  BY <1>1, <1>2 DEF Inv, TypeOK
<1>5. OrderedParents' /\ Orphaned'
  <2>1. CASE live' = live \union {t} /\ UNCHANGED parent
    BY <1>2, <1>3, <2>1 DEF Inv, TypeOK, OrderedParents, Orphaned
  <2>2. CASE live' = live \union {t, d} /\ parent' = [parent EXCEPT ![d] = t]
    <3>1. parent'[d] = t
      BY <1>2, <2>2 DEF Inv, TypeOK
    <3> QED
      BY <1>2, <1>3, <2>2, <3>1 DEF Inv, TypeOK, OrderedParents, Orphaned
  <2> QED
    BY <1>1, <2>1, <2>2
<1>6. DeleteIsTrue' /\ Known'
  BY <1>1 DEF Inv, DeleteIsTrue, Known, Fresh
<1>7. Control' /\ Behind'
  BY <1>1 DEF Inv, Control, Behind, deleting
<1>8. Untroubled'
  <2>1. \A q \in strays' : q # d
    BY <1>1, <1>2 DEF Fresh
  <2> QED
    BY <1>1, <1>2, <1>3, <2>1 DEF Inv, TypeOK, Untroubled, Control
<1> QED
  BY <1>4, <1>5, <1>6, <1>7, <1>8 DEF Inv

-----------------------------------------------------------------------------
(* Deletion.                                                               *)

LEMMA Removing ==
  ASSUME Inv, deleting, target \in live, Remove(target)
  PROVE  /\ target \in Objects
         /\ live' = live \ {target} /\ strays' = strays \ {target} /\ UNCHANGED vports
         /\ parent' \in [Objects -> Objects \union {NoParent}]
         /\ \A q \in Objects : q # target => parent'[q] = parent[q]
         /\ OrderedParents' /\ Orphaned'
<1>1. target \in Objects
  BY DEF Inv, TypeOK
<1>2. /\ live' = live \ {target} /\ strays' = strays \ {target} /\ UNCHANGED vports
      /\ parent' = [parent EXCEPT ![target] = NoParent]
  BY DEF Remove
<1>3. /\ parent' \in [Objects -> Objects \union {NoParent}]
      /\ parent'[target] = NoParent
      /\ \A q \in Objects : q # target => parent'[q] = parent[q]
  BY <1>1, <1>2 DEF Inv, TypeOK
<1>4. OrderedParents' /\ Orphaned'
  BY <1>1, <1>2, <1>3 DEF Inv, TypeOK, OrderedParents, Orphaned
<1> QED
  BY <1>1, <1>2, <1>3, <1>4

\* The method returns, and the object has gone.
LEMMA ReturnedInv ==
  ASSUME Inv, deleting, target \in live, Remove(target), Returned, UNCHANGED troubled
  PROVE  Inv'
<1>1. /\ target \in Objects
      /\ live' = live \ {target} /\ strays' = strays \ {target} /\ UNCHANGED vports
      /\ parent' \in [Objects -> Objects \union {NoParent}]
      /\ \A q \in Objects : q # target => parent'[q] = parent[q]
      /\ OrderedParents' /\ Orphaned'
  BY Removing
<1>2. /\ target' = Nothing /\ attempt' = 1 /\ removed' = removed \union {target}
      /\ listed' = listed \ {target} /\ own' = own \ {target}
      /\ UNCHANGED <<phase, loop, outcome, troubled>>
  BY DEF Returned, EndDelete
<1>3. TypeOK'
  BY <1>1, <1>2 DEF Inv, TypeOK
<1>4. DeleteIsTrue' /\ Known' /\ Behind' /\ Control'
  BY <1>1, <1>2 DEF Inv, DeleteIsTrue, Known, Behind, Control, deleting
<1>5. Untroubled'
  BY <1>1, <1>2 DEF Inv, TypeOK, Untroubled
<1> QED
  BY <1>1, <1>3, <1>4, <1>5 DEF Inv

\* The method raises, with or without effect; not in resource_cleanup as long
\* as nothing failed.
LEMMA RaiseInv ==
  ASSUME Inv, deleting, NEW e \in Exceptions, Raise(e),
         \/ UNCHANGED <<vsd, strays>>
         \/ target \in live /\ Remove(target),
         troubled' \in BOOLEAN,
         ~troubled' => ~troubled /\ phase = "body" /\ UNCHANGED <<vsd, strays>>
  PROVE  Inv'
<1>1. /\ target' = Nothing /\ attempt' = 1 /\ UNCHANGED <<loop, listed, own, removed>>
      /\ \/ phase = "body" /\ UNCHANGED <<phase, outcome>>
         \/ phase = "cleanup" /\ phase' = "done" /\ outcome' = e
      /\ e # "clean"
  BY DEF Raise, EndDelete, Exceptions
<1>2. /\ \/ UNCHANGED <<live, strays>>
         \/ live' = live \ {target} /\ strays' = strays \ {target}
      /\ UNCHANGED vports
      /\ parent' \in [Objects -> Objects \union {NoParent}]
      /\ OrderedParents' /\ Orphaned'
  <2>1. CASE UNCHANGED <<vsd, strays>>
    BY <2>1 DEF vsd, Inv, TypeOK, OrderedParents, Orphaned
  <2>2. CASE target \in live /\ Remove(target)
    BY <2>2, Removing
  <2> QED
    BY <2>1, <2>2
<1>3. TypeOK'
  BY <1>1, <1>2 DEF Inv, TypeOK
<1>4. DeleteIsTrue' /\ Behind' /\ Control'
  BY <1>1, <1>2 DEF Inv, DeleteIsTrue, Behind, Control, deleting
<1>5. Known'
  BY <1>1, <1>2 DEF Inv, Known
<1>6. Untroubled'
  BY <1>1 DEF Inv, Untroubled, vsd
<1> QED
  BY <1>2, <1>3, <1>4, <1>5, <1>6 DEF Inv

\* resource_cleanup meets nothing that stands on what it deletes, if nothing
\* failed: its kind's loop has run.
LEMMA NoChildren ==
  ASSUME Inv, deleting, phase = "cleanup", ~troubled
  PROVE  Children(target) = {} /\ target \in live
<1>1. /\ loop \in 1 .. 7 /\ target \in listed \intersect CleanupOrder[loop]
      /\ listed \subseteq live /\ own = {}
      /\ \A q \in strays : parent[q] = NoParent
  BY Loops DEF Inv, TypeOK, Control, Untroubled
<1>2. target \in Objects /\ target # NoParent
  BY <1>1 DEF Inv, TypeOK
<1>3. ASSUME NEW c \in live, parent[c] = target PROVE FALSE
  <2>1. c \in listed
    BY <1>1, <1>2, <1>3 DEF Inv, Known
  <2>2. \/ c \in L2Domains /\ target \in L2Templates
        \/ c \in L3Domains /\ target \in L3Templates
        \/ c \in Zones /\ target \in L3Domains
        \/ c \in Subnets /\ target \in Zones
    BY <1>2, <1>3 DEF Inv, OrderedParents
  <2>3. \A i \in 1 .. 7 : i < loop => c \notin CleanupOrder[i]
    BY <2>1 DEF Inv, Behind
  <2>4. CASE c \in L2Domains /\ target \in L2Templates
    <3>1. loop = 2
      BY <1>1, <2>4, Loops, Kinds
    <3> QED
      BY <2>3, <2>4, <3>1, Loops
  <2>5. CASE c \in L3Domains /\ target \in L3Templates
    <3>1. loop = 6
      BY <1>1, <2>5, Loops, Kinds
    <3> QED
      BY <2>3, <2>5, <3>1, Loops
  <2>6. CASE c \in Zones /\ target \in L3Domains
    <3>1. loop = 5
      BY <1>1, <2>6, Loops, Kinds
    <3> QED
      BY <2>3, <2>6, <3>1, Loops
  <2>7. CASE c \in Subnets /\ target \in Zones
    <3>1. loop = 4
      BY <1>1, <2>7, Loops, Kinds
    <3> QED
      BY <2>3, <2>7, <3>1, Loops
  <2> QED
    BY <2>2, <2>4, <2>5, <2>6, <2>7
<1> QED
  BY <1>1, <1>3 DEF Children

LEMMA DeleteInv ==
  ASSUME Inv, Delete
  PROVE  Inv'
<1> USE DEF Exceptions
<1>1. CASE Deleted
  BY <1>1, ReturnedInv DEF Deleted
<1>2. CASE NotFound
  <2>1. ~troubled => phase = "body"
    BY <1>2, NoChildren DEF NotFound, Inv, Control
  <2> QED
    BY <1>2, <2>1, RaiseInv DEF NotFound, Inv, TypeOK
<1>3. CASE RefusedInUse
  <2>1. CASE /\ target \in Retried /\ MoreAttempts /\ NextAttempt
             /\ UNCHANGED <<target, phase, loop, listed, own, outcome, removed, troubled>>
    <3>1. attempt' \in 1 .. Retries
      BY <2>1 DEF NextAttempt, MoreAttempts, Inv, TypeOK
    <3>2. UNCHANGED <<live, parent, vports, strays>>
      BY <1>3 DEF RefusedInUse, vsd
    <3>3. TypeOK'
      BY <2>1, <3>1, <3>2 DEF Inv, TypeOK
    <3> QED
      BY <2>1, <3>2, <3>3 DEF Inv, DeleteIsTrue, Control, deleting, OrderedParents, Orphaned,
                              Known, Behind, Untroubled
  <2>2. CASE /\ ~(target \in Retried /\ MoreAttempts) /\ LastAttempt("InUse")
             /\ troubled' = (troubled \/ (target \in vports /\ PluginWasLate))
    <3>1. deleting /\ InUse(target) /\ UNCHANGED <<vsd, strays>>
      BY <1>3 DEF RefusedInUse
    <3>2. ~troubled' => ~troubled /\ ~(target \in vports /\ PluginWasLate)
      BY <2>2
    <3>3. ASSUME ~troubled' PROVE phase = "body"
      <4> SUFFICES ASSUME phase = "cleanup" PROVE FALSE
        BY <3>1 DEF Inv, Control
      <4>1. target \in vports /\ ~PluginWasLate
        BY <3>1, <3>2, <3>3, NoChildren DEF InUse
      <4>2. target \in L2Domains /\ attempt < Retries
        BY <3>2, <3>3, <4>1 DEF Inv, TypeOK, Untroubled, PluginWasLate
      <4> QED
        BY <2>2, <4>2 DEF Retried, MoreAttempts
    <3>4. troubled' \in BOOLEAN
      BY <2>2
    <3> QED
      BY <2>2, <3>1, <3>2, <3>3, <3>4, RaiseInv DEF LastAttempt
  <2> QED
    BY <1>3, <2>1, <2>2 DEF RefusedInUse
<1>4. CASE MultipleChoices
  <2>1. CASE target \in SharedDomains /\ Remove(target) /\ Returned /\ UNCHANGED troubled
    BY <1>4, <2>1, ReturnedInv DEF MultipleChoices
  <2>2. CASE Raise("MultipleChoices") /\ troubled' = TRUE /\ UNCHANGED <<vsd, strays>>
    BY <1>4, <2>2, RaiseInv DEF MultipleChoices
  <2> QED
    BY <1>4, <2>1, <2>2 DEF MultipleChoices
<1>5. CASE Fault
  BY <1>5, RaiseInv DEF Fault
<1> QED
  BY <1>1, <1>2, <1>3, <1>4, <1>5 DEF Delete, Answered

-----------------------------------------------------------------------------
(* The test process and the plugin.                                        *)

LEMMA StartInv ==
  ASSUME Inv, (\E o \in Objects : DeleteOwn(o)) \/ CleanupNext
  PROVE  Inv'
<1>1. /\ UNCHANGED <<phase, loop, listed, own, outcome, live, parent, vports, removed, strays,
                     troubled>>
      /\ attempt' = 1
      /\ \/ phase = "body" /\ target' \in own
         \/ phase = "cleanup" /\ loop <= 7 /\ target' \in listed \intersect CleanupOrder[loop]
  BY Loops DEF DeleteOwn, CleanupNext, InBody, InCleanup, StartDelete, vsd
<1>2. TypeOK'
  BY <1>1 DEF Inv, TypeOK
<1>3. Control'
  BY <1>1 DEF Inv, Control, deleting
<1> QED
  BY <1>1, <1>2, <1>3 DEF Inv, DeleteIsTrue, OrderedParents, Orphaned, Known, Behind, Untroubled

LEMMA TestInv ==
  ASSUME Inv, EndBody \/ CleanupOpenStack \/ NextLoop \/ Done
  PROVE  Inv'
<1>1. /\ UNCHANGED <<target, attempt, listed, own, live, parent, vports, removed, strays>>
      /\ ~deleting
      /\ \/ /\ phase = "body" /\ phase' = "openstack" /\ UNCHANGED <<loop, outcome>>
            /\ troubled' = (troubled \/ own # {})
         \/ /\ phase = "openstack" /\ phase' = "cleanup" /\ UNCHANGED <<loop, outcome, troubled>>
         \/ /\ phase = "openstack" /\ phase' = "done" /\ UNCHANGED loop
            /\ outcome' = "OpenStack" /\ troubled' = TRUE
         \/ /\ phase = "cleanup" /\ loop <= 7 /\ listed \intersect CleanupOrder[loop] = {}
            /\ loop' = loop + 1 /\ UNCHANGED <<phase, outcome, troubled>>
         \/ /\ phase = "cleanup" /\ loop > 7 /\ phase' = "done" /\ outcome' = "clean"
            /\ UNCHANGED <<loop, troubled>>
  BY Loops DEF EndBody, CleanupOpenStack, NextLoop, NextList, Done, InBody, InCleanup, call, vsd,
               Inv, Control
<1>2. loop \in 1 .. 8
  BY Loops DEF Inv, TypeOK
<1>3. TypeOK'
  <2>1. loop' \in 1 .. Len(CleanupOrder) + 1
    BY <1>1, <1>2, Loops
  <2>2. troubled' \in BOOLEAN /\ outcome' \in {"none", "clean"} \union Exceptions
    BY <1>1 DEF Inv, TypeOK, Exceptions
  <2>3. phase' \in {"body", "openstack", "cleanup", "done"}
    BY <1>1 DEF Inv, TypeOK
  <2> QED
    BY <1>1, <2>1, <2>2, <2>3 DEF Inv, TypeOK
<1>4. Control'
  BY <1>1, <1>2 DEF Inv, Control, deleting
<1>5. Behind'
  BY <1>1, <1>2 DEF Inv, Behind
<1>6. Untroubled'
  <2>1. CASE phase = "body" /\ phase' = "openstack" /\ troubled' = (troubled \/ own # {})
    BY <1>1, <2>1 DEF Inv, Untroubled
  <2>2. CASE phase # "body"
    BY <1>1, <2>2 DEF Inv, Untroubled
  <2> QED
    BY <1>1, <2>1, <2>2
<1> QED
  BY <1>1, <1>3, <1>4, <1>5, <1>6 DEF Inv, DeleteIsTrue, OrderedParents, Orphaned, Known

LEMMA PluginInv ==
  ASSUME Inv, NEW o \in Objects, Attach(o) \/ Release(o)
  PROVE  Inv'
<1>1. /\ UNCHANGED <<phase, target, attempt, loop, listed, own, outcome, live, parent, removed,
                     strays, troubled>>
      /\ vports' \subseteq vports \union {q \in {o} : o \in L2Domains \union Subnets}
  BY DEF Attach, Release, call
<1>2. TypeOK'
  BY <1>1 DEF Inv, TypeOK
<1>3. Control' /\ Untroubled'
  BY <1>1 DEF Inv, Control, deleting, Untroubled
<1> QED
  BY <1>1, <1>2, <1>3 DEF Inv, DeleteIsTrue, OrderedParents, Orphaned, Known, Behind

-----------------------------------------------------------------------------
(* The theorems.                                                           *)

LEMMA InvNext == Inv /\ [Next]_vars => Inv'
<1> SUFFICES ASSUME Inv, [Next]_vars PROVE Inv'
  OBVIOUS
<1>1. CASE Body
  BY <1>1, CreateInv, ImplicitTemplateInv, StartInv, TestInv, PluginInv DEF Body
<1>2. CASE Delete
  BY <1>2, DeleteInv
<1>3. CASE Cleanup
  BY <1>3, StartInv, TestInv DEF Cleanup
<1>4. ASSUME NEW o \in vports, Release(o) PROVE Inv'
  BY <1>4, PluginInv DEF Inv, TypeOK
<1>5. CASE UNCHANGED vars
  BY <1>5 DEF vars, call, vsd, Inv, TypeOK, DeleteIsTrue, Control, deleting, OrderedParents,
              Orphaned, Known, Behind, Untroubled
<1> QED
  BY <1>1, <1>2, <1>3, <1>4, <1>5 DEF Next

LEMMA Invariance == Spec => []Inv
<1>1. Inv /\ [Next]_vars => Inv'
  BY InvNext
<1> QED
  BY <1>1, InvInit, PTL DEF Spec

\* The state of class and VSD is what the declarations say, and no delete_
\* method makes more attempts than nbr_retries_for_test_robustness.
THEOREM VsdFixturesTypeCorrect == Spec => []TypeOK
<1>1. Inv => TypeOK
  BY DEF Inv
<1> QED
  BY <1>1, Invariance, PTL

\* A delete_ method of nuage_client.py that returns has deleted, whatever its
\* earlier attempts met.
THEOREM DeletionsAreTrue == Spec => []DeleteIsTrue
<1>1. Inv => DeleteIsTrue
  BY DEF Inv
<1> QED
  BY <1>1, Invariance, PTL

\* A resource_cleanup that raises nothing has emptied its lists: what is left
\* was never in them.
THEOREM NothingListedIsLeft == Spec => []NothingLeftSilently
<1>1. Inv => NothingLeftSilently
  <2> SUFFICES ASSUME Inv, outcome = "clean" PROVE live \subseteq own \union strays
    BY DEF NothingLeftSilently
  <2>1. \A i \in 1 .. 7 : listed \intersect CleanupOrder[i] = {}
    BY DEF Inv, Control, Behind
  <2>2. listed = {}
    BY <2>1, Loops DEF Inv, TypeOK, Objects
  <2> QED
    BY <2>2 DEF Inv, Known
<1> QED
  BY <1>1, Invariance, PTL

\* The order of the loops suffices, for any number of objects of each kind, if
\* no request fails and the plugin lets go in time.
THEOREM CleanupOrderSuffices == Spec => []TeardownIsClean
<1>1. Inv => TeardownIsClean
  <2> SUFFICES ASSUME Inv, phase = "done", ~troubled
               PROVE  outcome = "clean" /\ live \subseteq strays
    BY DEF TeardownIsClean
  <2>1. outcome = "clean" /\ own = {}
    BY DEF Inv, Untroubled
  <2>2. \A i \in 1 .. 7 : listed \intersect CleanupOrder[i] = {}
    BY <2>1 DEF Inv, Control, Behind
  <2>3. listed = {}
    BY <2>2, Loops DEF Inv, TypeOK, Objects
  <2> QED
    BY <2>1, <2>3 DEF Inv, Known
<1> QED
  BY <1>1, Invariance, PTL
=============================================================================
