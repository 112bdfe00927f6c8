------------------------------ MODULE Releases ------------------------------
(***************************************************************************)
(* The releases of the system under test (lib/release.py), the questions   *)
(* about them (lib/topology.py) and the features they switch               *)
(* (lib/features.py).  Every test module imports the features, so that the *)
(* suite starts only where NuageFeatures() can be made; then each class    *)
(* asks whether to skip.                                                   *)
(*                                                                         *)
(* A number of a release is the string of its digits, as a sequence; an    *)
(* OpenStack release is the rank of its letter, and master comes last.     *)
(***************************************************************************)
EXTENDS Integers, Sequences

CONSTANTS
  Configured, \* the values of nuage_sut.release, parsed
  OpenStacks, \* the values of nuage_sut.openstack_version, parsed
  Required    \* the releases that classes ask for, parsed

-----------------------------------------------------------------------------
(* release.py.  A part that is missing is '0.0', '' or master.             *)

Master == 27
Release(openstack, major, labelled, sub) ==
  [openstack |-> openstack, major |-> major, labelled |-> labelled, sub |-> sub]
Nuage(major, sub) == Release(Master, major, sub # << <<>> >>, sub)
\* An R anywhere in the text labels a release: that of liberty, rocky and master too.
OpenStack(letter) ==
  Release(letter, << <<0>>, <<0>> >>, letter \in {12, 18, Master}, << <<>> >>)

\* The orders of strings of digits and of lists of such strings.
StringLess(a, b) ==
  \E i \in DOMAIN b :
    /\ i - 1 <= Len(a) /\ \A j \in 1 .. i - 1 : a[j] = b[j]
    /\ i > Len(a) \/ a[i] < b[i]
ListLess(a, b) ==
  \E i \in DOMAIN b :
    /\ i - 1 <= Len(a) /\ \A j \in 1 .. i - 1 : a[j] = b[j]
    /\ i > Len(a) \/ StringLess(a[i], b[i])

Eq(a, b) == a = b
Newest == << <<0>>, <<0>> >>
Lt(a, b) ==
  IF a.major = b.major /\ a.sub = b.sub THEN a.openstack < b.openstack
  ELSE /\ ~(a.major = Newest /\ b.major # Newest)
       /\ \/ b.major = Newest
          \/ ListLess(a.major, b.major)
          \/ a.major = b.major /\ ListLess(a.sub, b.sub)
Gt(a, b) == ~Lt(a, b)
\* functools.total_ordering.
Ge(a, b) == ~Lt(a, b)
Le(a, b) == Lt(a, b) \/ Eq(a, b)

-----------------------------------------------------------------------------
VARIABLES
  nuage_release, openstack_version, \* of the system under test
  ipv6_enabled,
  phase,     \* "init", "set", "log", "skip_checks", "import_error"
  features,  \* the attributes that NuageFeatures has
  asked      \* the last question of a class, its release and the answer
vars == <<nuage_release, openstack_version, ipv6_enabled, phase, features, asked>>

(* topology.py                                                             *)

at_nuage(r) == Eq(nuage_release, r)
beyond_nuage(r) == Gt(nuage_release, r)
from_nuage(r) == Ge(nuage_release, r)
before_nuage(r) == Lt(nuage_release, r)
up_to_nuage(r) == Le(nuage_release, r)
at_openstack(r) == Eq(openstack_version, r)
beyond_openstack(r) == Gt(openstack_version, r)
from_openstack(r) == Ge(openstack_version, r)
before_openstack(r) == Lt(openstack_version, r)
up_to_openstack(r) == Le(openstack_version, r)

\* The release after the one asked for, but not its first maintenance release.
nuage_part(r) ==
  [i \in 1 .. Len(r.major) + Len(r.sub) - 1 |->
     IF i < Len(r.major) THEN r.major[i]
     ELSE IF i = Len(r.major) THEN r.major[i] \o r.sub[1]
     ELSE r.sub[i - Len(r.major) + 1]]
from_tock(r) == beyond_nuage(r) /\ nuage_part(nuage_release) # Append(nuage_part(r), <<1>>)

-----------------------------------------------------------------------------
(* features.py                                                             *)

Init ==
  /\ nuage_release \in Configured /\ openstack_version \in OpenStacks
  /\ ipv6_enabled \in BOOLEAN
  /\ phase = "init" /\ features = <<>> /\ asked = <<>>

\* The attributes __init__ sets, with is_ml2 always true.
InitFeatures ==
  /\ phase = "init" /\ phase' = "set"
  /\ features' =
       [full_external_id_support |-> FALSE, bidirectional_fip_rate_limit |-> FALSE,
        ml2_limited_exceptions |-> TRUE, full_os_networking |-> FALSE,
        vsd_managed_dualstack_subnets |-> FALSE, os_managed_dualstack_subnets |-> FALSE,
        stateless_security_groups |-> FALSE, route_to_underlay |-> FALSE]
  /\ UNCHANGED <<nuage_release, openstack_version, ipv6_enabled, asked>>

Setting(f) == [k \in DOMAIN features \union DOMAIN f |->
                 IF k \in DOMAIN f THEN f[k] ELSE features[k]]

_set_features ==
  /\ phase = "set" /\ phase' = "log"
  /\ features' = Setting(
       CASE nuage_release.major = << <<3>>, <<2>> >> ->
              [bidirectional_fip_rate_limit |->
                 from_nuage(Nuage(<< <<3>>, <<2>> >>, << <<1, 0>> >>))]
         [] nuage_release.major = << <<4>>, <<0>> >> ->
              [full_external_id_support |->
                 from_nuage(Nuage(<< <<4>>, <<0>> >>, << <<5>> >>)),
               bidirectional_fip_rate_limit |->
                 from_nuage(Nuage(<< <<4>>, <<0>> >>, << <<6>> >>)),
               vsd_managed_dualstack_subnets |->
                 from_nuage(Nuage(<< <<4>>, <<0>> >>, << <<>> >>))]
         [] OTHER ->
              [full_external_id_support |-> TRUE, bidirectional_fip_rate_limit |-> TRUE,
               ml2_limited_exceptions |-> FALSE, full_os_networking |-> TRUE,
               vsd_managed_dualstack_subnets |-> TRUE,
               os_managed_dualstack_subnets |->
                 from_nuage(Nuage(<< <<5>>, <<1>> >>, << <<>> >>)) /\ ipv6_enabled,
               project_name_in_vsd |-> from_nuage(Nuage(<< <<5>>, <<1>> >>, << <<>> >>)),
               stateless_security_groups |->
                 from_nuage(Nuage(<< <<5>>, <<2>> >>, << <<>> >>)),
               route_to_underlay |-> from_nuage(Nuage(<< <<5>>, <<2>> >>, << <<>> >>)),
               switchdev_offload |->
                 /\ from_nuage(Nuage(<< <<5>>, <<4>> >>, << <<>> >>))
                 /\ from_openstack(OpenStack(17))])
  /\ UNCHANGED <<nuage_release, openstack_version, ipv6_enabled, asked>>

\* It reads each of these, and one that was never set is an AttributeError.
Logged ==
  {"full_external_id_support", "bidirectional_fip_rate_limit", "ml2_limited_exceptions",
   "full_os_networking", "vsd_managed_dualstack_subnets", "os_managed_dualstack_subnets",
   "stateless_security_groups", "route_to_underlay", "switchdev_offload"}
_log_features ==
  /\ phase = "log"
  /\ phase' = IF Logged \subseteq DOMAIN features THEN "skip_checks" ELSE "import_error"
  /\ UNCHANGED <<nuage_release, openstack_version, ipv6_enabled, features, asked>>

-----------------------------------------------------------------------------
\* A class asks, and is skipped or not.
Nuages(r) ==
  [at |-> at_nuage(r), beyond |-> beyond_nuage(r), from |-> from_nuage(r),
   before |-> before_nuage(r), up_to |-> up_to_nuage(r), tock |-> from_tock(r)]
OpenStacksOf(r) ==
  [at |-> at_openstack(r), beyond |-> beyond_openstack(r), from |-> from_openstack(r),
   before |-> before_openstack(r), up_to |-> up_to_openstack(r)]

SkipChecks(r) ==
  /\ phase = "skip_checks"
  /\ asked' = IF r.major = Newest THEN OpenStacksOf(r) ELSE Nuages(r)
  /\ UNCHANGED <<nuage_release, openstack_version, ipv6_enabled, phase, features>>

Next ==
  \/ InitFeatures \/ _set_features \/ _log_features
  \/ \E r \in Required : SkipChecks(r)

Spec == Init /\ [][Next]_vars

-----------------------------------------------------------------------------
\* The suite starts with every release that the help of nuage_sut.release gives as a
\* valid example (config.py:72): making the features raises nothing.
FeaturesLoad == phase # "import_error"
=============================================================================
