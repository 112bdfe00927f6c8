----------------------------- MODULE VsdFixtures ----------------------------
(***************************************************************************)
(* The VSD objects of the legacy test classes: the create_ and delete_     *)
(* methods of NuageRestClient (services/nuage_client.py) and the class     *)
(* fixtures of BaseVSDManagedNetwork (tests/api/vsd_managed), which list   *)
(* what they create and take it down in resource_cleanup.                  *)
(*                                                                         *)
(* The plugin is another process: while tests run it puts vports into the  *)
(* l2domains and subnets, and it may still be removing them when the       *)
(* cleanup deletes the domains.  delete_l2domain, delete_domain and        *)
(* delete_l2domaintemplate therefore try again a few times when the VSD    *)
(* answers "is in use".  Any exception ends resource_cleanup.              *)
(*                                                                         *)
(* A list is deleted youngest first; objects of one list never depend on   *)
(* each other, so that the model leaves the order within a list open.      *)
(***************************************************************************)
EXTENDS Naturals, Sequences

CONSTANTS
  L2Templates, L2Domains, L3Templates, L3Domains, Zones, Subnets, SharedDomains,
  NoParent,    \* the parent of what stands directly in an enterprise
  Nothing,     \* the target when no delete_ method runs
  Retries      \* nbr_retries_for_test_robustness

Objects == L2Templates \union L2Domains \union L3Templates \union L3Domains
             \union Zones \union Subnets \union SharedDomains

\* A slip: what contains an object before the object.
ParentsFirst ==
  <<L2Templates, L2Domains, L3Templates, L3Domains, Zones, Subnets, SharedDomains>>
\* The loops of resource_cleanup.
CleanupOrder ==
  <<L2Domains, L2Templates, Subnets, Zones, L3Domains, L3Templates, SharedDomains>>

\* Kinds share no object.
ASSUME KindsAssumption ==
  /\ \A i, j \in DOMAIN CleanupOrder : i # j => CleanupOrder[i] \intersect CleanupOrder[j] = {}
  /\ NoParent \notin Objects /\ Nothing \notin Objects
ASSUME RetriesAssumption == Retries \in Nat \ {0}

VARIABLES
  phase,     \* "body" (set-up and tests), "openstack" (super's resource_cleanup),
             \* "cleanup", "done"
  target,    \* the object of the delete_ method that runs, or Nothing
  attempt,   \* its attempt, from 1
  loop,      \* which loop of resource_cleanup runs
  listed,    \* the objects in the class's lists
  own,       \* the objects a test created for itself
  outcome,   \* how resource_cleanup ended: "none" yet, "clean", or an exception
  live,      \* the objects that exist on the VSD
  parent,    \* the parent of each
  vports,    \* the l2domains and subnets in which the plugin has vports
  removed,   \* history: objects whose delete_ method returned
  strays,    \* history: live objects that neither the class nor a test knows of
  troubled   \* history: a request failed, a test did not clean up, or the
             \* plugin let go too late

vsd == <<live, parent, vports>>
call == <<target, attempt>>
vars == <<phase, call, loop, listed, own, outcome, vsd, removed, strays, troubled>>

deleting == target # Nothing
Children(o) == {c \in live : parent[c] = o}
InUse(o) == Children(o) # {} \/ o \in vports

Init ==
  /\ phase = "body" /\ loop = 1
  /\ target = Nothing /\ attempt = 1
  /\ listed = {} /\ own = {} /\ outcome = "none"
  /\ live = {} /\ parent = [o \in Objects |-> NoParent] /\ vports = {}
  /\ removed = {} /\ strays = {} /\ troubled = FALSE

-----------------------------------------------------------------------------
(* Creation.                                                               *)

\* The URL a create_ method posts to, or the templateID of a domain.
Parents(o) ==
  IF o \in L2Domains THEN live \intersect L2Templates
  ELSE IF o \in L3Domains THEN live \intersect L3Templates
  ELSE IF o \in Zones THEN live \intersect L3Domains
  ELSE IF o \in Subnets THEN live \intersect Zones
  ELSE {NoParent}

Fresh(o) == o \notin live \union listed \union own \union removed \union strays

\* The class lists what its helper created; a test keeps its own.
Record(o) ==
  \/ listed' = listed \union {o} /\ UNCHANGED own
  \/ own' = own \union {o} /\ UNCHANGED listed

InBody == phase = "body" /\ ~deleting

Create(o) ==
  /\ InBody /\ Fresh(o)
  /\ \E p \in Parents(o) : parent' = [parent EXCEPT ![o] = p]
  /\ live' = live \union {o}
  /\ Record(o)
  /\ UNCHANGED <<phase, call, loop, outcome, vports, removed, strays, troubled>>

\* The POST raises although it took effect: nobody knows the object.
CreateLost(o) ==
  /\ InBody /\ Fresh(o)
  /\ \E p \in Parents(o) : parent' = [parent EXCEPT ![o] = p]
  /\ live' = live \union {o}
  /\ strays' = strays \union {o}
  /\ troubled' = TRUE
  /\ UNCHANGED <<phase, call, loop, listed, own, outcome, vports, removed>>

\* create_l2domain without a templateId makes a template and forgets it; the
\* POST of the domain may fail after that.
CreateL2domainWithoutTemplate(d, t) ==
  /\ InBody /\ Fresh(d) /\ Fresh(t)
  /\ strays' = strays \union {t}
  /\ \/ /\ live' = live \union {t, d}
        /\ parent' = [parent EXCEPT ![d] = t]
        /\ Record(d)
     \/ /\ live' = live \union {t}
        /\ UNCHANGED <<parent, listed, own>>
  /\ UNCHANGED <<phase, call, loop, outcome, vports, removed, troubled>>

-----------------------------------------------------------------------------
(* Deletion.                                                               *)

StartDelete(o) == target' = o /\ attempt' = 1
EndDelete == target' = Nothing /\ attempt' = 1

\* A test deletes what it created for itself.
DeleteOwn(o) ==
  /\ InBody /\ o \in own
  /\ StartDelete(o)
  /\ UNCHANGED <<phase, loop, listed, own, outcome, vsd, removed, strays, troubled>>

\* The delete_ method returns to the body or to the loop.
Returned ==
  /\ EndDelete
  /\ removed' = removed \union {target}
  /\ listed' = listed \ {target}
  /\ own' = own \ {target}
  /\ UNCHANGED <<phase, loop, outcome>>

\* A slip: the loop over the objects catches the exception and goes on.
LogAndContinue(exception) ==
  /\ EndDelete
  /\ listed' = listed \ {target}
  /\ own' = own \ {target}
  /\ UNCHANGED <<phase, loop, outcome, removed>>

\* An exception ends the test that called the method, or resource_cleanup.
Raise(exception) ==
  /\ EndDelete
  /\ \/ phase = "body" /\ UNCHANGED <<phase, outcome>>
     \/ phase = "cleanup" /\ phase' = "done" /\ outcome' = exception
  /\ UNCHANGED <<loop, listed, own, removed>>

Remove(o) ==
  /\ live' = live \ {o}
  /\ strays' = strays \ {o}
  /\ parent' = [parent EXCEPT ![o] = NoParent]
  /\ UNCHANGED vports

\* The VSD deletes the object and its answer arrives.
Deleted ==
  /\ deleting
  /\ target \in live /\ ~InUse(target)
  /\ Remove(target)
  /\ Returned
  /\ UNCHANGED troubled

\* 404.
NotFound ==
  /\ deleting
  /\ target \notin live
  /\ Raise("NotFound")
  /\ UNCHANGED <<vsd, strays, troubled>>

\* The kinds whose delete_ method retries.
Retried == L2Domains \union L3Domains \union L2Templates

\* A slip: falling out of the loop on the last attempt.
NoLastAttempt(exception) == Returned
\* if attempt == nbr_retries_for_test_robustness: raise
LastAttempt(exception) == Raise(exception)

\* A slip: attempts counted from zero.
AttemptsFromZero == attempt <= Retries
MoreAttempts == attempt < Retries

\* The plugin's time is up: delete_domain_subnet does not wait for it.
PluginWasLate == target \in Subnets \/ attempt >= Retries

\* A slip: "while True".
SameAttempt == UNCHANGED attempt
NextAttempt == attempt' = attempt + 1

\* "is in use": the next attempt, 0.2 s later, or the exception.
RefusedInUse ==
  /\ deleting
  /\ target \in live /\ InUse(target)
  /\ \/ /\ target \in Retried /\ MoreAttempts
        /\ NextAttempt
        /\ UNCHANGED <<target, phase, loop, listed, own, outcome, removed, troubled>>
     \/ /\ ~(target \in Retried /\ MoreAttempts)
        /\ LastAttempt("InUse")
        /\ troubled' = (troubled \/ (target \in vports /\ PluginWasLate))
  /\ UNCHANGED <<vsd, strays>>

\* 300: nobody but delete_vsd_shared_resource, which answers the choice, handles
\* it; the VSD gives it for what has children, and for a shared resource at times.
MultipleChoices ==
  /\ deleting
  /\ target \in live
  /\ \/ /\ target \in SharedDomains
        /\ Remove(target)
        /\ Returned
        /\ UNCHANGED troubled
     \/ /\ target \notin SharedDomains /\ InUse(target)
        /\ Raise("MultipleChoices")
        /\ troubled' = TRUE
        /\ UNCHANGED <<vsd, strays>>

\* A fault of the VSD, or a lost answer to a request that took effect or not.
Fault ==
  /\ deleting
  /\ \/ UNCHANGED <<vsd, strays>>
     \/ target \in live /\ ~InUse(target) /\ Remove(target)
  /\ Raise("ServerFault")
  /\ troubled' = TRUE

-----------------------------------------------------------------------------
(* resource_cleanup.                                                       *)

\* The last test is over, or resource_setup has raised.
EndBody ==
  /\ InBody
  /\ phase' = "openstack"
  /\ troubled' = (troubled \/ own # {})
  /\ UNCHANGED <<call, loop, listed, own, outcome, vsd, removed, strays>>

\* "cleanup the OpenStack managed objects first": they are gone from Neutron,
\* or one of the cleanups raises and nothing else is done.
CleanupOpenStack ==
  /\ phase = "openstack"
  /\ \/ phase' = "cleanup" /\ UNCHANGED <<outcome, troubled>>
     \/ phase' = "done" /\ outcome' = "OpenStack" /\ troubled' = TRUE
  /\ UNCHANGED <<call, loop, listed, own, vsd, removed, strays>>

InCleanup == phase = "cleanup" /\ ~deleting

\* A slip: the lists are gone through again.
StartOver == loop' = 1
NextList == loop' = loop + 1

\* The next object of the list.
CleanupNext ==
  /\ InCleanup /\ loop <= Len(CleanupOrder)
  /\ \E o \in listed \intersect CleanupOrder[loop] : StartDelete(o)
  /\ UNCHANGED <<phase, loop, listed, own, outcome, vsd, removed, strays, troubled>>

NextLoop ==
  /\ InCleanup /\ loop <= Len(CleanupOrder)
  /\ listed \intersect CleanupOrder[loop] = {}
  /\ NextList
  /\ UNCHANGED <<phase, call, listed, own, outcome, vsd, removed, strays, troubled>>

Done ==
  /\ InCleanup /\ loop > Len(CleanupOrder)
  /\ phase' = "done" /\ outcome' = "clean"
  /\ UNCHANGED <<call, loop, listed, own, vsd, removed, strays, troubled>>

-----------------------------------------------------------------------------
(* The plugin.                                                             *)

\* A test creates Neutron ports in a subnet that is backed by the object.
Attach(o) ==
  /\ InBody /\ o \in live \intersect (L2Domains \union Subnets)
  /\ vports' = vports \union {o}
  /\ UNCHANGED <<phase, call, loop, listed, own, outcome, live, parent, removed, strays, troubled>>

\* The vports go when the ports do, perhaps a while later.
Release(o) ==
  /\ phase # "done"
  /\ vports' = vports \ {o}
  /\ UNCHANGED <<phase, call, loop, listed, own, outcome, live, parent, removed, strays, troubled>>

-----------------------------------------------------------------------------
Body ==
  \/ \E o \in Objects : Create(o) \/ CreateLost(o) \/ DeleteOwn(o) \/ Attach(o)
  \/ \E d \in L2Domains, t \in L2Templates : CreateL2domainWithoutTemplate(d, t)
  \/ EndBody

\* One of these answers is possible at any time.
Answered == Deleted \/ NotFound \/ RefusedInUse
Delete == Answered \/ MultipleChoices \/ Fault
Cleanup == CleanupOpenStack \/ CleanupNext \/ NextLoop \/ Done

Next == Body \/ Delete \/ Cleanup \/ \E o \in vports : Release(o)

Spec == Init /\ [][Next]_vars

\* An attempt ends, by the network's timeout (Fault) if by no answer, and
\* resource_cleanup runs on; tests and plugin owe no step, nor do faults.
FairSpec == Spec /\ WF_vars(Answered) /\ WF_vars(Cleanup)

-----------------------------------------------------------------------------
(* Properties.                                                             *)

Exceptions == {"NotFound", "InUse", "MultipleChoices", "ServerFault", "OpenStack"}

\* Variables keep their kind, and no method makes more than its attempts.
TypeOK ==
  /\ phase \in {"body", "openstack", "cleanup", "done"}
  /\ target \in Objects \union {Nothing} /\ attempt \in 1 .. Retries
  /\ loop \in 1 .. Len(CleanupOrder) + 1
  /\ listed \subseteq Objects /\ own \subseteq Objects
  /\ outcome \in {"none", "clean"} \union Exceptions
  /\ live \subseteq Objects /\ parent \in [Objects -> Objects \union {NoParent}]
  /\ vports \subseteq Objects
  /\ removed \subseteq Objects /\ strays \subseteq Objects
  /\ troubled \in BOOLEAN

\* A delete_ method that returned has deleted, whatever the attempts before it
\* met: a caller that goes on with the parent finds it free of this child.
DeleteIsTrue == removed \intersect live = {}

\* A class whose tests clean up after themselves, on a VSD and a plugin that
\* fail nothing, is taken down without an exception, if the plugin lets go of
\* each object before its last attempt; only implicit templates stay.
TeardownIsClean ==
  phase = "done" /\ ~troubled => outcome = "clean" /\ live \subseteq strays

\* What a resource_cleanup that raised nothing leaves on the VSD was never in
\* its lists: made by a test for itself, forgotten by create_l2domain, or lost
\* with the answer to its creation.
NothingLeftSilently ==
  phase = "done" /\ outcome = "clean" => live \subseteq own \union strays

\* resource_cleanup comes to its end, and so does each deletion.
CleanupEnds == phase # "body" ~> phase = "done"
DeleteEnds == deleting ~> ~deleting
=============================================================================
