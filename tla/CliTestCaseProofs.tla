------------------------- MODULE CliTestCaseProofs -------------------------
(***************************************************************************)
(* Theorems about CliTestCase and about the OutputParser it reads with.    *)
(*                                                                         *)
(* Why a class leaves nothing that it was to delete: an object that was on *)
(* a cleaned list stays on it until it is gone or handed over to a test's  *)
(* cleanup, and a cleanup that does not delete its object is reported.     *)
(* This does not rest on the parser: an object might be listed before it is*)
(* made, if the output of a command were read wrongly.                     *)
(*                                                                         *)
(* Why the parser reads what a command prints: it folds over the lines, and*)
(* the state of each fold after k lines is known, by induction on k, for   *)
(* every item and every list.                                              *)
(*                                                                         *)
(* Why a tidy class is cleaned up without an error: since what is printed  *)
(* is read, an object goes on the list it is on, so that the lists hold    *)
(* what is there, and nothing else; what stands on an object goes first.   *)
(***************************************************************************)
EXTENDS CliTestCase, SequenceTheorems, WellFoundedInduction, TLAPS

Phases == {"setup", "body", "raised", "ending", "cleanup", "over"}
Deletions == {d \in [object : Objects, by : {"me", "admin"}] : d.object \in Registers[d.by]}
Registered == {cleanups[i].object : i \in DOMAIN cleanups}
Due == (listed \intersect Cleaned) \union Registered

\* What was watched is due for deletion as long as it may be there.
Watching == ~reported => \A o \in watched : o \in live \/ o \notin made => o \in Due

\* The order of the class: the tests' cleanups, the lists, the user, the project.
Ordered ==
  /\ phase \in Phases
  /\ phase \in {"setup", "cleanup", "over"} => cleanups = <<>>
  /\ user = "gone" => phase \in {"cleanup", "over"} /\ NothingListed
  /\ phase = "over" /\ ~reported => user = "gone" /\ project = "gone"

\* A router with an interface stays.
Attached == interfaces # {} => "router" \in live

CleanInv ==
  /\ cleanups \in Seq(Deletions)
  /\ live \subseteq made
  /\ Watching /\ Ordered /\ Attached

-----------------------------------------------------------------------------
(* The invariant holds at first, and no step breaks it.                    *)

LEMMA CleanInvInit == Init => CleanInv
<1> SUFFICES ASSUME Init PROVE CleanInv
  OBVIOUS
<1>1. cleanups \in Seq(Deletions)
  BY EmptySeq DEF Init
<1> QED
  BY <1>1 DEF Init, CleanInv, Watching, Ordered, Attached, Phases

\* What a registered deletion, a deletion's companions and a list may be.
LEMMA Companions ==
  /\ \A o : "router" \notin GoesWith(o)
  /\ \A d \in Deletions : d.object # "router"
  /\ "router" \notin DeleteCommands
<1>1. \A o : "router" \notin GoesWith(o)
  BY DEF GoesWith, Subnets
<1>2. \A by \in {"me", "admin"} : "router" \notin Registers[by]
  BY DEF Registers, delete_network, delete_subnet, delete_security_group,
         delete_nuage_netpartition_cli, _delete_floating_ip
<1>3. \A d \in Deletions : d.object # "router"
  BY <1>2 DEF Deletions
<1>4. "router" \notin DeleteCommands
  BY DEF DeleteCommands, delete_network, delete_subnet, delete_security_group,
         delete_redirect_target, delete_nuage_l2bridge_cli, delete_nuage_netpartition_cli,
         delete_nuage_project_netpartition_mapping_cli
<1> QED
  BY <1>1, <1>3, <1>4

\* Every object that a test may register is one that a command creates.
LEMMA CreatedObjects ==
  {"network", "subnet4", "subnet6", "port", "floating_ip", "security_group", "netpartition"}
    \subseteq Objects
<1>1. ASSUME NEW S, NEW on_list, NEW o \in S, Creates(S, on_list) \subseteq CreateCommands
      PROVE  o \in Objects
  <2>1. [object |-> o, on_list |-> on_list] \in CreateCommands
    BY <1>1 DEF Creates
  <2> QED
    BY <2>1 DEF Objects
<1>2. /\ Creates({"network"}, TRUE) \subseteq CreateCommands
      /\ Creates({"subnet4", "subnet6"}, TRUE) \subseteq CreateCommands
      /\ Creates({"port"}, TRUE) \subseteq CreateCommands
      /\ Creates({"floating_ip"}, TRUE) \subseteq CreateCommands
      /\ Creates({"security_group"}, TRUE) \subseteq CreateCommands
      /\ Creates({"netpartition"}, FALSE) \subseteq CreateCommands
  BY DEF CreateCommands, create_network_with_args, create_subnet_with_args,
         create_port_with_args, create_floating_ip_with_args,
         create_security_group_with_args, create_nuage_netpartition_cli
<1>3. "subnet4" \in Objects /\ "subnet6" \in Objects
  <2> DEFINE S == {"subnet4", "subnet6"}
  <2>1. \A o \in S : o \in Objects
    BY <1>1, <1>2
  <2> QED
    BY <2>1
<1>4. "network" \in Objects /\ "port" \in Objects /\ "floating_ip" \in Objects
  BY <1>1, <1>2
<1>5. "security_group" \in Objects /\ "netpartition" \in Objects
  BY <1>1, <1>2
<1> QED
  BY <1>3, <1>4, <1>5

\* What a deletion may succeed for is there.
LEMMA ServedIsMade ==
  ASSUME CleanInv, NEW o, NEW by, TRUE \in Answers(o, by)
  PROVE  o \in live /\ o \in made
BY DEF Answers, Sees, CleanInv

\* The steps that leave cloud and lists alone.
LEMMA CleanInvCalm ==
  ASSUME CleanInv, UNCHANGED <<lists, cloud>>, watched' = watched,
         reported => reported', Ordered'
  PROVE  CleanInv'
BY DEF CleanInv, Watching, Attached, Due, Registered, lists, cloud

LEMMA CleanInvSetup ==
  ASSUME CleanInv, CreateProject \/ CreateUser \/ AssignRole
  PROVE  CleanInv'
<1>1. UNCHANGED <<lists, cloud>> /\ watched' = watched /\ reported' = reported
  BY DEF CreateProject, CreateUser, AssignRole
<1>2. Ordered'
  <2>1. CASE CreateProject
    BY <2>1 DEF CreateProject, CleanInv, Ordered, Phases, lists, NothingListed
  <2>2. CASE CreateUser
    BY <2>2 DEF CreateUser, CleanInv, Ordered, Phases, lists, NothingListed
  <2>3. CASE AssignRole
    BY <2>3 DEF AssignRole, CleanInv, Ordered, Phases, lists, NothingListed
  <2> QED
    BY <2>1, <2>2, <2>3
<1> QED
  BY <1>1, <1>2, CleanInvCalm

LEMMA CleanInvQuiet ==
  ASSUME CleanInv,
         SwitchRole \/ EndTest \/ NextTest \/ EndClass \/ \E c \in AskCommands : Ask(c)
  PROVE  CleanInv'
<1>1. UNCHANGED <<lists, cloud>> /\ watched' = watched /\ reported' = reported
      /\ UNCHANGED <<user, project>>
  BY DEF SwitchRole, EndTest, NextTest, EndClass, Ask, history
<1>2. /\ phase \in {"body", "raised", "ending"}
      /\ phase' \in {"body", "raised", "ending"} \/ (phase' = "cleanup" /\ cleanups = <<>>)
  <2>1. ASSUME NEW c \in AskCommands, Ask(c) PROVE phase = "body" /\ phase' \in {"body", "raised"}
    BY <2>1 DEF Ask
  <2> QED
    BY <2>1 DEF SwitchRole, EndTest, NextTest, EndClass
<1>3. Ordered'
  BY <1>1, <1>2 DEF CleanInv, Ordered, Phases, lists, NothingListed
<1> QED
  BY <1>1, <1>3, CleanInvCalm

LEMMA CleanInvCreate ==
  ASSUME CleanInv, NEW c \in CreateCommands, Create(c)
  PROVE  CleanInv'
<1>1. /\ phase = "body" /\ phase' \in {"body", "raised"}
      /\ c.object \notin made
      /\ UNCHANGED <<tests, me, project, user, cleanups, interfaces, reported>>
  BY DEF Create
<1>2. \/ live' = live \union {c.object} /\ made' = made \union {c.object}
      \/ live' = live /\ made' = made
  BY DEF Create, cloud
<1>3. listed \subseteq listed' /\ watched' \subseteq watched \union (listed' \intersect Cleaned)
  BY DEF Create
<1>4. Watching'
  BY <1>1, <1>2, <1>3 DEF CleanInv, Watching, Due, Registered
<1>5. Ordered'
  BY <1>1 DEF CleanInv, Ordered, Phases
<1> QED
  BY <1>1, <1>2, <1>4, <1>5 DEF CleanInv, Attached

LEMMA CleanInvHandOver ==
  ASSUME CleanInv, NEW o \in Made, NEW by \in {"me", "admin"}, HandOver(o, by)
  PROVE  CleanInv'
<1> DEFINE d == [object |-> o, by |-> by]
<1>1. /\ phase = "body" /\ phase' = phase /\ o \in live
      /\ cleanups' = Append(cleanups, d) /\ listed' = listed \ {o}
      /\ watched' = watched \union {o}
      /\ UNCHANGED <<user, project, cloud, reported>>
  BY DEF HandOver
<1>2. o \in Objects
  <2>1. o \in Registers[by]
    BY DEF HandOver
  <2> QED
    BY <2>1, CreatedObjects DEF Registers, delete_network, delete_subnet, delete_security_group,
                      delete_nuage_netpartition_cli, _delete_floating_ip
<1>3. d \in Deletions
  BY <1>2 DEF Deletions, HandOver
<1>4. cleanups' \in Seq(Deletions) /\ Registered' = Registered \union {o}
  <2> HIDE DEF d
  <2>1. cleanups \in Seq(Deletions)
    BY DEF CleanInv
  <2>2. /\ cleanups' \in Seq(Deletions) /\ DOMAIN cleanups' = 1 .. Len(cleanups) + 1
        /\ DOMAIN cleanups = 1 .. Len(cleanups) /\ Len(cleanups) \in Nat
        /\ \A i \in 1 .. Len(cleanups) : cleanups'[i] = cleanups[i]
        /\ cleanups'[Len(cleanups) + 1] = d
    BY <1>1, <1>3, <2>1, AppendProperties, LenProperties
  <2>3. d.object = o
    BY DEF d
  <2> QED
    BY <2>2, <2>3 DEF Registered
<1>5. Watching'
  BY <1>1, <1>4 DEF CleanInv, Watching, Due, cloud
<1>6. Ordered'
  BY <1>1 DEF CleanInv, Ordered, Phases
<1> QED
  BY <1>1, <1>4, <1>5, <1>6 DEF CleanInv, Attached, cloud

LEMMA CleanInvDeleteInBody ==
  ASSUME CleanInv, NEW o \in Made, DeleteInBody(o)
  PROVE  CleanInv'
<1>1. PICK ok \in BOOLEAN : live' = live \ Deleted(o, ok)
  BY DEF DeleteInBody, Delete
<1>2. /\ phase = "body" /\ phase' \in {"body", "raised"} /\ o \in DeleteCommands
      /\ UNCHANGED <<project, user, lists, reported, watched, made, interfaces>>
  BY DEF DeleteInBody, Delete
<1>3. "router" \notin Deleted(o, ok)
  BY <1>2, Companions DEF Deleted
<1>4. Ordered'
  BY <1>2 DEF CleanInv, Ordered, Phases, lists, NothingListed
<1>5. Watching'
  BY <1>1, <1>2 DEF CleanInv, Watching, Due, Registered, lists
<1> QED
  BY <1>1, <1>2, <1>3, <1>4, <1>5 DEF CleanInv, Attached, lists

LEMMA CleanInvAddInterface ==
  ASSUME CleanInv, NEW s \in Subnets, add_router_interface_with_args(s)
  PROVE  CleanInv'
<1>1. /\ phase = "body" /\ phase' \in {"body", "raised"} /\ "router" \in live
      /\ UNCHANGED <<project, user, lists, made, live, reported, watched>>
  BY DEF add_router_interface_with_args, Sees, history
<1>2. Ordered'
  BY <1>1 DEF CleanInv, Ordered, Phases, lists, NothingListed
<1>3. Watching'
  BY <1>1 DEF CleanInv, Watching, Due, Registered, lists
<1> QED
  BY <1>1, <1>2, <1>3 DEF CleanInv, Attached, lists

\* A test's cleanup: what is taken off is gone or reported.
LEMMA CleanInvRunCleanup ==
  ASSUME CleanInv, RunCleanup
  PROVE  CleanInv'
<1> DEFINE c == Last(cleanups)
           n == Len(cleanups)
<1>1. /\ phase = "ending" /\ cleanups # <<>> /\ cleanups' = Front(cleanups)
      /\ UNCHANGED <<phase, project, user, listed, watched, made, interfaces>>
  BY DEF RunCleanup, Delete
<1>2. PICK ok \in BOOLEAN : /\ live' = live \ Deleted(c.object, ok)
                            /\ reported' = (reported \/ ~ok)
                            /\ ok \in Answers(c.object, RunsAs(c.by))
  BY DEF RunCleanup, Delete, CommandFailed
<1>3. /\ cleanups \in Seq(Deletions) /\ n \in Nat \ {0} /\ DOMAIN cleanups = 1 .. n
      /\ c = cleanups[n] /\ c \in Deletions
  BY <1>1, EmptySeq, LenProperties, ElementOfSeq DEF CleanInv, Last
<1>4. /\ cleanups' \in Seq(Deletions)
      /\ Registered \subseteq Registered' \union {c.object}
  <2>1. /\ cleanups' \in Seq(Deletions) /\ DOMAIN cleanups' = 1 .. n - 1
        /\ \A i \in 1 .. n - 1 : cleanups'[i] = cleanups[i]
    BY <1>1, <1>3, SubSeqProperties, LenProperties, SubSeqEmpty DEF Front
  <2> QED
    BY <1>3, <2>1 DEF Registered
<1>5. "router" \notin Deleted(c.object, ok)
  BY <1>3, Companions DEF Deleted
<1>6. Watching'
  <2>1. CASE ok
    <3>1. (reported' <=> reported) /\ c.object \notin live' /\ live' \subseteq live
      BY <1>2, <2>1 DEF Deleted
    <3>2. c.object \in made
      BY <1>2, <2>1, ServedIsMade
    <3> HIDE DEF c
    <3> QED
      BY <1>1, <1>4, <3>1, <3>2 DEF CleanInv, Watching, Due
  <2>2. CASE ~ok
    BY <1>2, <2>2 DEF Watching
  <2> QED
    BY <2>1, <2>2
<1>7. Ordered'
  BY <1>1 DEF CleanInv, Ordered, Phases, NothingListed
<1> QED
  BY <1>1, <1>2, <1>4, <1>5, <1>6, <1>7 DEF CleanInv, Attached

\* The class's cleanup: what is taken off a list is gone; what fails is reported.
LEMMA CleanInvCleanListed ==
  ASSUME CleanInv, NEW o \in Cleaned, CleanListed(o)
  PROVE  CleanInv'
<1>1. /\ phase = "cleanup"
      /\ UNCHANGED <<project, user, cleanups, watched>>
  BY DEF CleanListed
<1>2. PICK ok \in BOOLEAN :
         /\ \/ o = "port" /\ _delete_port(ok)
            \/ o = "router" /\ delete_router(ok)
            \/ o \in Subnets /\ _delete_subnet(o, ok)
            \/ o = "network" /\ _delete_network(ok)
         /\ listed' = IF ~ok THEN listed ELSE listed \ {o}
         /\ phase' = IF ~ok THEN "over" ELSE phase
         /\ reported' = (reported \/ ~ok)
  BY DEF CleanListed, CommandFailed
<1>3. made' = made /\ live' \subseteq live /\ (ok => o \in live /\ o \notin live')
  <2>1. ASSUME NEW x, NEW by, Delete(x, by, ok, FALSE)
        PROVE  made' = made /\ live' \subseteq live /\ (ok => x \in live /\ x \notin live')
    BY <2>1, ServedIsMade DEF Delete, Deleted
  <2>2. CASE o = "port" /\ _delete_port(ok)
    BY <2>1, <2>2 DEF _delete_port
  <2>3. CASE o = "router" /\ delete_router(ok)
    BY <2>3 DEF delete_router
  <2>4. CASE o \in Subnets /\ _delete_subnet(o, ok)
    BY <2>1, <2>4 DEF _delete_subnet
  <2>5. CASE o = "network" /\ _delete_network(ok)
    BY <2>1, <2>5 DEF _delete_network
  <2> QED
    BY <1>2, <2>2, <2>3, <2>4, <2>5
<1>4. Attached'
  <2>1. ASSUME NEW x, NEW by, x # "router", Delete(x, by, ok, FALSE) PROVE Attached'
    BY <2>1, Companions DEF Delete, Deleted, CleanInv, Attached
  <2>2. CASE o = "port" /\ _delete_port(ok)
    BY <2>1, <2>2 DEF _delete_port
  <2>3. CASE o = "router" /\ delete_router(ok)
    BY <2>3 DEF delete_router, CleanInv, Attached
  <2>4. CASE o \in Subnets /\ _delete_subnet(o, ok)
    BY <2>1, <2>4 DEF _delete_subnet, Subnets
  <2>5. CASE o = "network" /\ _delete_network(ok)
    BY <2>1, <2>5 DEF _delete_network
  <2> QED
    BY <1>2, <2>2, <2>3, <2>4, <2>5
<1>5. Ordered'
  <2>1. user # "gone"
    BY DEF CleanListed, CleanInv, Ordered
  <2>2. phase' \in {"cleanup", "over"} /\ (phase' = "over" => reported')
    BY <1>1, <1>2
  <2> QED
    BY <1>1, <2>1, <2>2 DEF CleanInv, Ordered, Phases
<1>6. Watching'
  <2>1. CASE ok
    BY <1>1, <1>2, <1>3, <2>1 DEF CleanInv, Watching, Due, Registered
  <2>2. CASE ~ok
    BY <1>2, <2>2 DEF Watching
  <2> QED
    BY <2>1, <2>2
<1> QED
  BY <1>1, <1>3, <1>4, <1>5, <1>6 DEF CleanInv

LEMMA CleanInvLast ==
  ASSUME CleanInv, DeleteUser \/ DeleteProject
  PROVE  CleanInv'
<1>1. UNCHANGED <<lists, cloud>> /\ watched' = watched /\ (reported => reported')
  BY DEF DeleteUser, DeleteProject
<1>2. Ordered'
  <2>1. CASE DeleteUser
    BY <2>1 DEF DeleteUser, CleanInv, Ordered, Phases, lists, NothingListed
  <2>2. CASE DeleteProject
    BY <2>2 DEF DeleteProject, CleanInv, Ordered, Phases, lists, NothingListed
  <2> QED
    BY <2>1, <2>2
<1> QED
  BY <1>1, <1>2, CleanInvCalm

LEMMA CleanInvNext == CleanInv /\ [Next]_vars => CleanInv'
<1> SUFFICES ASSUME CleanInv, [Next]_vars PROVE CleanInv'
  OBVIOUS
<1>1. ASSUME NEW o \in Made, NEW by \in {"me", "admin"}, HandOver(o, by) PROVE CleanInv'
  BY <1>1, CleanInvHandOver
<1>2. CASE \E o \in Made : DeleteInBody(o) \/ \E by \in {"me", "admin"} : HandOver(o, by)
  BY <1>1, <1>2, CleanInvDeleteInBody
<1>3. CASE \E c \in CreateCommands : Create(c)
  BY <1>3, CleanInvCreate
<1>4. CASE \E s \in Subnets : add_router_interface_with_args(s)
  BY <1>4, CleanInvAddInterface
<1>5. CASE \E o \in Cleaned : CleanListed(o)
  BY <1>5, CleanInvCleanListed
<1>6. CASE UNCHANGED vars
  <2>1. UNCHANGED <<phase, project, user, lists, cloud, reported, watched>>
    BY <1>6 DEF vars, history
  <2>2. Ordered'
    BY <2>1 DEF CleanInv, Ordered, lists, NothingListed
  <2> QED
    BY <2>1, <2>2, CleanInvCalm
<1> QED
  BY <1>2, <1>3, <1>4, <1>5, <1>6, CleanInvSetup, CleanInvQuiet, CleanInvRunCleanup,
     CleanInvLast DEF Next

-----------------------------------------------------------------------------
(* The parser: induction, and the states of its loops.                      *)

\* A set of numbers with 0 and, with each number, the next holds them all.
LEMMA NatSet ==
  ASSUME NEW T, T \subseteq Nat, 0 \in T, \A k \in T : k + 1 \in T
  PROVE  T = Nat
<1> DEFINE U == Nat \ T
<1>1. SUFFICES ASSUME U # {} PROVE FALSE
  OBVIOUS
<1>2. \E x \in U : \A y \in U : ~(<<y, x>> \in OpToRel(<, Nat))
  BY <1>1, NatLessThanWellFounded, WFMin
<1>3. PICK x \in U : \A y \in U : ~(y < x)
  BY <1>2 DEF OpToRel
<1> QED
  BY <1>3

\* A set of positions has a greatest one.
LEMMA GreatestOf ==
  ASSUME NEW n \in Nat, NEW s \in SUBSET (1 .. n), s # {}
  PROVE  Max(s) \in s /\ \A y \in s : Max(s) >= y
<1> DEFINE T == {k \in Nat : k <= n => \A t \in SUBSET (1 .. k) : t # {} => \E m \in t : \A y \in t : m >= y}
<1>1. 0 \in T
  <2>1. \A t \in SUBSET (1 .. 0) : t = {}
    OBVIOUS
  <2> QED
    BY <2>1
<1>2. ASSUME NEW k \in T PROVE k + 1 \in T
  <2> SUFFICES ASSUME k + 1 <= n, NEW t \in SUBSET (1 .. k + 1), t # {} PROVE \E m \in t : \A y \in t : m >= y
    OBVIOUS
  <2>1. CASE k + 1 \in t
    <3>1. \A y \in t : k + 1 >= y
      OBVIOUS
    <3> QED
      BY <2>1, <3>1
  <2>2. CASE k + 1 \notin t
    <3>1. t \in SUBSET (1 .. k)
      BY <2>2
    <3> QED
      BY <3>1
  <2> QED
    BY <2>1, <2>2
<1>3. n \in T
  <2> HIDE DEF T
  <2>1. T \subseteq Nat
    BY DEF T
  <2> QED
    BY <1>1, <1>2, <2>1, NatSet
<1>4. \E m \in s : \A y \in s : m >= y
  BY <1>3
<1> QED
  BY <1>4 DEF Max

\* Without its greatest element a set of the first k positions is one of the first k - 1.
LEMMA WithoutMax ==
  ASSUME NEW n \in Nat, NEW k \in 1 .. n, NEW s \in SUBSET (1 .. k), s # {}
  PROVE  s \ {Max(s)} \in SUBSET (1 .. k - 1)
<1>1. ASSUME NEW m \in s, \A y \in s : m >= y
      PROVE  s \ {m} \in SUBSET (1 .. k - 1)
  <2>1. ASSUME NEW y \in s \ {m} PROVE y \in 1 .. k - 1
    <3>1. y \in 1 .. k /\ m \in 1 .. k /\ m >= y /\ m # y
      BY <1>1
    <3> QED
      BY <3>1
  <2> QED
    BY <2>1
<1>2. k \in Nat
  OBVIOUS
<1>3. Max(s) \in s /\ \A y \in s : Max(s) >= y
  BY <1>2, GreatestOf
<1> QED
  BY <1>1, <1>3

\* The first k positions.
LEMMA Positions ==
  ASSUME NEW n \in Nat, NEW k \in 1 .. n
  PROVE  1 .. k # {} /\ 1 .. k \in SUBSET (1 .. n) /\ Max(1 .. k) = k /\ (1 .. k) \ {k} = 1 .. k - 1
<1>1. k \in 1 .. k /\ k \in Nat
  OBVIOUS
<1>2. ASSUME NEW m \in 1 .. k, \A y \in 1 .. k : m >= y
      PROVE  m = k
  <2>1. m >= k
    BY <1>1, <1>2
  <2> QED
    BY <2>1
<1>3. Max(1 .. k) = k
  <2> DEFINE s == 1 .. k
  <2>1. s \in SUBSET (1 .. k) /\ s # {}
    BY <1>1
  <2> HIDE DEF s
  <2>2. Max(s) \in s /\ \A y \in s : Max(s) >= y
    BY <1>1, <2>1, GreatestOf
  <2> USE DEF s
  <2> QED
    BY <1>2, <2>2
<1>4. (1 .. k) \ {k} = 1 .. k - 1
  OBVIOUS
<1> QED
  BY <1>1, <1>3, <1>4

\* The states that tables() goes through: one TablesLine after the other.
LEMMA TablesAre ==
  ASSUME NEW n \in Nat, NEW seq, DOMAIN seq = 1 .. n
  PROVE  \E h : /\ h[0] = [start |-> FALSE, header |-> FALSE, table |-> <<>>, tables |-> <<>>]
                /\ \A k \in 1 .. n : h[k] = TablesLine(h[k - 1], seq[k])
                /\ Tables(seq) = h[n].tables
<1> DEFINE base == [start |-> FALSE, header |-> FALSE, table |-> <<>>, tables |-> <<>>]
           S == SUBSET (1 .. n)
           Next1(g, s) == IF s = {} THEN base ELSE TablesLine(g[s \ {Max(s)}], seq[Max(s)])
           iter == CHOOSE g : g = [s \in S |-> Next1(g, s)]
           Good(g, k) == g = [s \in S |-> g[s]] /\ \A s \in SUBSET (1 .. k) : g[s] = Next1(g, s)
           T == {k \in Nat : k <= n => \E g : Good(g, k)}
<1> HIDE DEF base
<1>1. 0 \in T
  <2> DEFINE g == [s \in S |-> base]
  <2>1. \A s \in SUBSET (1 .. 0) : s = {} /\ s \in S
    OBVIOUS
  <2>2. Good(g, 0)
    BY <2>1
  <2> HIDE DEF g, Good
  <2> QED
    BY <2>2
<1>2. ASSUME NEW k \in T PROVE k + 1 \in T
  <2>1. k \in Nat /\ (k <= n => \E g : Good(g, k))
    <3> HIDE DEF Good
    <3> QED
      OBVIOUS
  <2>2. ASSUME k + 1 <= n PROVE \E g : Good(g, k + 1)
    <3>1. PICK g : Good(g, k)
      <4> HIDE DEF Good
      <4> QED
        BY <2>1, <2>2
    <3> DEFINE f == [s \in S |-> Next1(g, s)]
    <3>2. ASSUME NEW s \in SUBSET (1 .. k + 1) PROVE f[s] = Next1(f, s)
      <4>1. s \in S
        BY <2>1, <2>2
      <4>2. CASE s = {}
        BY <4>1, <4>2
      <4>3. CASE s # {}
        <5> DEFINE r == s \ {Max(s)}
        <5>1. r \in SUBSET (1 .. k)
          <6>1. k + 1 \in 1 .. n /\ k + 1 - 1 = k
            BY <2>1, <2>2
          <6> QED
            BY <4>3, <6>1, WithoutMax
        <5>2. r \in S
          BY <2>1, <2>2, <5>1
        <5>3. f[r] = g[r]
          BY <3>1, <5>1, <5>2
        <5> QED
          BY <4>1, <4>3, <5>3
      <4> QED
        BY <4>2, <4>3
    <3>3. Good(f, k + 1)
      BY <3>2
    <3> HIDE DEF f, Good
    <3> QED
      BY <3>3
  <2> HIDE DEF Good
  <2> QED
    BY <2>1, <2>2
<1>3. PICK g : Good(g, n)
  <2>1. n \in T
    <3> HIDE DEF Good
    <3>1. T \subseteq Nat
      OBVIOUS
    <3> HIDE DEF T
    <3> QED
      BY <1>1, <1>2, <3>1, NatSet
  <2> HIDE DEF Good
  <2> QED
    BY <2>1
<1>4. iter = [s \in S |-> Next1(iter, s)]
  <2>1. g = [s \in S |-> Next1(g, s)]
    BY <1>3
  <2> QED
    BY <2>1
<1>5. FoldLeft(TablesLine, base, seq) = iter[1 .. n]
  BY DEF FoldLeft, MapThenFoldSet
<1> HIDE DEF iter
<1> DEFINE h == [k \in 0 .. n |-> iter[1 .. k]]
<1>6. h[0] = base
  <2>1. 1 .. 0 = {}
    OBVIOUS
  <2> QED
    BY <1>4, <2>1
<1>7. ASSUME NEW k \in 1 .. n PROVE h[k] = TablesLine(h[k - 1], seq[k])
  <2>1. k - 1 \in 0 .. n
    OBVIOUS
  <2>2. iter[1 .. k] = TablesLine(iter[1 .. k - 1], seq[k])
    <3>1. /\ 1 .. k # {} /\ 1 .. k \in S
          /\ (1 .. k) \ {Max(1 .. k)} = 1 .. k - 1 /\ Max(1 .. k) = k
      BY Positions
    <3> QED
      BY <1>4, <3>1
  <2> QED
    BY <2>1, <2>2
<1>8. FoldLeft(TablesLine, base, seq) = h[n]
  BY <1>5
<1>9. Tables(seq) = h[n].tables
  BY <1>8 DEF Tables, base
<1> HIDE DEF h
<1> QED
  BY <1>6, <1>7, <1>9 DEF base

\* The states that table() goes through: one TableLine after the other.
LEMMA TableIs ==
  ASSUME NEW n \in Nat, NEW seq, DOMAIN seq = 1 .. n
  PROVE  \E h : /\ h[0] = [headers |-> <<>>, values |-> <<>>]
                /\ \A k \in 1 .. n : h[k] = TableLine(h[k - 1], seq[k])
                /\ Table(seq) = h[n]
<1> DEFINE base == [headers |-> <<>>, values |-> <<>>]
           S == SUBSET (1 .. n)
           Next1(g, s) == IF s = {} THEN base ELSE TableLine(g[s \ {Max(s)}], seq[Max(s)])
           iter == CHOOSE g : g = [s \in S |-> Next1(g, s)]
           Good(g, k) == g = [s \in S |-> g[s]] /\ \A s \in SUBSET (1 .. k) : g[s] = Next1(g, s)
           T == {k \in Nat : k <= n => \E g : Good(g, k)}
<1> HIDE DEF base
<1>1. 0 \in T
  <2> DEFINE g == [s \in S |-> base]
  <2>1. \A s \in SUBSET (1 .. 0) : s = {} /\ s \in S
    OBVIOUS
  <2>2. Good(g, 0)
    BY <2>1
  <2> HIDE DEF g, Good
  <2> QED
    BY <2>2
<1>2. ASSUME NEW k \in T PROVE k + 1 \in T
  <2>1. k \in Nat /\ (k <= n => \E g : Good(g, k))
    <3> HIDE DEF Good
    <3> QED
      OBVIOUS
  <2>2. ASSUME k + 1 <= n PROVE \E g : Good(g, k + 1)
    <3>1. PICK g : Good(g, k)
      <4> HIDE DEF Good
      <4> QED
        BY <2>1, <2>2
    <3> DEFINE f == [s \in S |-> Next1(g, s)]
    <3>2. ASSUME NEW s \in SUBSET (1 .. k + 1) PROVE f[s] = Next1(f, s)
      <4>1. s \in S
        BY <2>1, <2>2
      <4>2. CASE s = {}
        BY <4>1, <4>2
      <4>3. CASE s # {}
        <5> DEFINE r == s \ {Max(s)}
        <5>1. r \in SUBSET (1 .. k)
          <6>1. k + 1 \in 1 .. n /\ k + 1 - 1 = k
            BY <2>1, <2>2
          <6> QED
            BY <4>3, <6>1, WithoutMax
        <5>2. r \in S
          BY <2>1, <2>2, <5>1
        <5>3. f[r] = g[r]
          BY <3>1, <5>1, <5>2
        <5> QED
          BY <4>1, <4>3, <5>3
      <4> QED
        BY <4>2, <4>3
    <3>3. Good(f, k + 1)
      BY <3>2
    <3> HIDE DEF f, Good
    <3> QED
      BY <3>3
  <2> HIDE DEF Good
  <2> QED
    BY <2>1, <2>2
<1>3. PICK g : Good(g, n)
  <2>1. n \in T
    <3> HIDE DEF Good
    <3>1. T \subseteq Nat
      OBVIOUS
    <3> HIDE DEF T
    <3> QED
      BY <1>1, <1>2, <3>1, NatSet
  <2> HIDE DEF Good
  <2> QED
    BY <2>1
<1>4. iter = [s \in S |-> Next1(iter, s)]
  <2>1. g = [s \in S |-> Next1(g, s)]
    BY <1>3
  <2> QED
    BY <2>1
<1>5. FoldLeft(TableLine, base, seq) = iter[1 .. n]
  BY DEF FoldLeft, MapThenFoldSet
<1> HIDE DEF iter
<1> DEFINE h == [k \in 0 .. n |-> iter[1 .. k]]
<1>6. h[0] = base
  <2>1. 1 .. 0 = {}
    OBVIOUS
  <2> QED
    BY <1>4, <2>1
<1>7. ASSUME NEW k \in 1 .. n PROVE h[k] = TableLine(h[k - 1], seq[k])
  <2>1. k - 1 \in 0 .. n
    OBVIOUS
  <2>2. iter[1 .. k] = TableLine(iter[1 .. k - 1], seq[k])
    <3>1. /\ 1 .. k # {} /\ 1 .. k \in S
          /\ (1 .. k) \ {Max(1 .. k)} = 1 .. k - 1 /\ Max(1 .. k) = k
      BY Positions
    <3> QED
      BY <1>4, <3>1
  <2> QED
    BY <2>1, <2>2
<1>8. FoldLeft(TableLine, base, seq) = h[n]
  BY <1>5
<1>9. Table(seq) = h[n]
  BY <1>8 DEF Table, base
<1> HIDE DEF h
<1> QED
  BY <1>6, <1>7, <1>9 DEF base

\* The states that details_multiple() goes through: one DetailsRow after the other.
LEMMA ItemIs ==
  ASSUME NEW n \in Nat, NEW seq, DOMAIN seq = 1 .. n
  PROVE  \E h : /\ h[0] = [prev_value |-> "", item |-> <<>>]
                /\ \A k \in 1 .. n : h[k] = DetailsRow(h[k - 1], seq[k])
                /\ Item(seq) = h[n].item
<1> DEFINE base == [prev_value |-> "", item |-> <<>>]
           S == SUBSET (1 .. n)
           Next1(g, s) == IF s = {} THEN base ELSE DetailsRow(g[s \ {Max(s)}], seq[Max(s)])
           iter == CHOOSE g : g = [s \in S |-> Next1(g, s)]
           Good(g, k) == g = [s \in S |-> g[s]] /\ \A s \in SUBSET (1 .. k) : g[s] = Next1(g, s)
           T == {k \in Nat : k <= n => \E g : Good(g, k)}
<1> HIDE DEF base
<1>1. 0 \in T
  <2> DEFINE g == [s \in S |-> base]
  <2>1. \A s \in SUBSET (1 .. 0) : s = {} /\ s \in S
    OBVIOUS
  <2>2. Good(g, 0)
    BY <2>1
  <2> HIDE DEF g, Good
  <2> QED
    BY <2>2
<1>2. ASSUME NEW k \in T PROVE k + 1 \in T
  <2>1. k \in Nat /\ (k <= n => \E g : Good(g, k))
    <3> HIDE DEF Good
    <3> QED
      OBVIOUS
  <2>2. ASSUME k + 1 <= n PROVE \E g : Good(g, k + 1)
    <3>1. PICK g : Good(g, k)
      <4> HIDE DEF Good
      <4> QED
        BY <2>1, <2>2
    <3> DEFINE f == [s \in S |-> Next1(g, s)]
    <3>2. ASSUME NEW s \in SUBSET (1 .. k + 1) PROVE f[s] = Next1(f, s)
      <4>1. s \in S
        BY <2>1, <2>2
      <4>2. CASE s = {}
        BY <4>1, <4>2
      <4>3. CASE s # {}
        <5> DEFINE r == s \ {Max(s)}
        <5>1. r \in SUBSET (1 .. k)
          <6>1. k + 1 \in 1 .. n /\ k + 1 - 1 = k
            BY <2>1, <2>2
          <6> QED
            BY <4>3, <6>1, WithoutMax
        <5>2. r \in S
          BY <2>1, <2>2, <5>1
        <5>3. f[r] = g[r]
          BY <3>1, <5>1, <5>2
        <5> QED
          BY <4>1, <4>3, <5>3
      <4> QED
        BY <4>2, <4>3
    <3>3. Good(f, k + 1)
      BY <3>2
    <3> HIDE DEF f, Good
    <3> QED
      BY <3>3
  <2> HIDE DEF Good
  <2> QED
    BY <2>1, <2>2
<1>3. PICK g : Good(g, n)
  <2>1. n \in T
    <3> HIDE DEF Good
    <3>1. T \subseteq Nat
      OBVIOUS
    <3> HIDE DEF T
    <3> QED
      BY <1>1, <1>2, <3>1, NatSet
  <2> HIDE DEF Good
  <2> QED
    BY <2>1
<1>4. iter = [s \in S |-> Next1(iter, s)]
  <2>1. g = [s \in S |-> Next1(g, s)]
    BY <1>3
  <2> QED
    BY <2>1
<1>5. FoldLeft(DetailsRow, base, seq) = iter[1 .. n]
  BY DEF FoldLeft, MapThenFoldSet
<1> HIDE DEF iter
<1> DEFINE h == [k \in 0 .. n |-> iter[1 .. k]]
<1>6. h[0] = base
  <2>1. 1 .. 0 = {}
    OBVIOUS
  <2> QED
    BY <1>4, <2>1
<1>7. ASSUME NEW k \in 1 .. n PROVE h[k] = DetailsRow(h[k - 1], seq[k])
  <2>1. k - 1 \in 0 .. n
    OBVIOUS
  <2>2. iter[1 .. k] = DetailsRow(iter[1 .. k - 1], seq[k])
    <3>1. /\ 1 .. k # {} /\ 1 .. k \in S
          /\ (1 .. k) \ {Max(1 .. k)} = 1 .. k - 1 /\ Max(1 .. k) = k
      BY Positions
    <3> QED
      BY <1>4, <3>1
  <2> QED
    BY <2>1, <2>2
<1>8. FoldLeft(DetailsRow, base, seq) = h[n]
  BY <1>5
<1>9. Item(seq) = h[n].item
  BY <1>8 DEF Item, base
<1> HIDE DEF h
<1> QED
  BY <1>6, <1>7, <1>9 DEF base

-----------------------------------------------------------------------------

\* A sequence given by a function, and the next of its values.
LEMMA Extended ==
  ASSUME NEW k \in Nat, NEW f
  PROVE  Append([i \in 1 .. k |-> f[i]], f[k + 1]) = [i \in 1 .. k + 1 |-> f[i]]
<1> DEFINE S == {f[i] : i \in 1 .. k + 1}
           s == [i \in 1 .. k |-> f[i]]
           t == [i \in 1 .. k + 1 |-> f[i]]
<1>1. s \in Seq(S) /\ Len(s) = k /\ f[k + 1] \in S
  OBVIOUS
<1>2. t \in Seq(S) /\ Len(t) = k + 1
  OBVIOUS
<1>3. Append(s, f[k + 1]) \in Seq(S) /\ Len(Append(s, f[k + 1])) = k + 1
      /\ \A i \in 1 .. k : Append(s, f[k + 1])[i] = s[i]
      /\ Append(s, f[k + 1])[k + 1] = f[k + 1]
  BY <1>1, AppendProperties
<1>4. \A i \in 1 .. k + 1 : Append(s, f[k + 1])[i] = t[i]
  BY <1>3
<1> HIDE DEF s, t, S
<1> QED
  BY <1>2, <1>3, <1>4, SeqEqual

\* And of none.
LEMMA NoValues == ASSUME NEW f PROVE [i \in 1 .. 0 |-> f[i]] = <<>>
OBVIOUS

\* The sequence of the first n values of a function.
First(f, n) == [i \in 1 .. n |-> f[i]]

\* Lines of a table: a delimiter, the header, a delimiter, n rows, no more rows.
IsTable(lines, H, C, n) ==
  /\ H # <<>> /\ \E N \in Nat : n + 3 <= N /\ DOMAIN lines = 1 .. N
  /\ lines[1].kind # "row" /\ lines[2] = Row(H) /\ lines[3].kind # "row"
  /\ \A i \in 1 .. n : lines[i + 3] = Row(C[i])
  /\ \A i \in DOMAIN lines : n + 4 <= i => lines[i].kind # "row"

\* Such a table is read as its header and its rows.
LEMMA TableRead ==
  ASSUME NEW n \in Nat, NEW H, NEW C, NEW lines, IsTable(lines, H, C, n)
  PROVE  Table(lines) = [headers |-> H, values |-> First(C, n)]
<1> SUFFICES ASSUME NEW N \in Nat, n + 3 <= N, DOMAIN lines = 1 .. N, H # <<>>,
                    lines[1].kind # "row", lines[2] = Row(H), lines[3].kind # "row",
                    \A i \in 1 .. n : lines[i + 3] = Row(C[i]),
                    \A i \in n + 4 .. N : lines[i].kind # "row"
             PROVE  Table(lines) = [headers |-> H, values |-> First(C, n)]
  <2>1. PICK N \in Nat : n + 3 <= N /\ DOMAIN lines = 1 .. N
    BY DEF IsTable
  <2>2. \A i \in n + 4 .. N : lines[i].kind # "row"
    BY <2>1 DEF IsTable
  <2> QED
    BY <2>1, <2>2 DEF IsTable
<1> DEFINE read(k) == [headers |-> H, values |-> [i \in 1 .. k |-> C[i]]]
           none == [headers |-> <<>>, values |-> <<>>]
<1>1. PICK h : /\ h[0] = none
               /\ \A k \in 1 .. N : h[k] = TableLine(h[k - 1], lines[k])
               /\ Table(lines) = h[N]
  BY TableIs
<1>2. h[3] = read(0)
  <2>1. /\ h[1] = TableLine(h[0], lines[1])
        /\ h[2] = TableLine(h[1], lines[2])
        /\ h[3] = TableLine(h[2], lines[3])
    <3>1. 1 \in 1 .. N /\ 2 \in 1 .. N /\ 3 \in 1 .. N
      OBVIOUS
    <3>2. 1 - 1 = 0 /\ 2 - 1 = 1 /\ 3 - 1 = 2
      OBVIOUS
    <3> QED
      BY <1>1, <3>1, <3>2
  <2>2. h[1] = none
    BY <1>1, <2>1 DEF TableLine
  <2>3. h[2] = [headers |-> H, values |-> <<>>]
    BY <2>1, <2>2 DEF TableLine, Row, Line
  <2>4. h[3] = h[2]
    BY <2>1 DEF TableLine
  <2> QED
    BY <2>3, <2>4, NoValues
<1> DEFINE T == {k \in Nat : k <= n => h[k + 3] = read(k)}
<1>3. n \in T
  <2>1. 0 \in T
    BY <1>2
  <2>2. ASSUME NEW k \in T PROVE k + 1 \in T
    <3> SUFFICES ASSUME k + 1 <= n PROVE h[k + 1 + 3] = read(k + 1)
      OBVIOUS
    <3>1. h[k + 3] = read(k) /\ k \in Nat
      OBVIOUS
    <3> DEFINE K == k + 4
    <3>2. h[K] = TableLine(h[k + 3], Row(C[k + 1]))
      <4>1. K \in 1 .. N /\ K - 1 = k + 3
        BY <3>1
      <4>2. lines[K] = Row(C[k + 1])
        <5>1. k + 1 \in 1 .. n /\ (k + 1) + 3 = K
          BY <3>1
        <5> HIDE DEF K
        <5> QED
          BY <5>1
      <4> HIDE DEF K, T, read
      <4>3. h[K] = TableLine(h[K - 1], lines[K])
        BY <1>1, <4>1
      <4> QED
        BY <4>1, <4>2, <4>3
    <3>3. TableLine(read(k), Row(C[k + 1])) = [headers |-> H, values |-> Append([i \in 1 .. k |-> C[i]], C[k + 1])]
      BY DEF TableLine, Row, Line
    <3>4. k + 1 + 3 = K
      BY <3>1
    <3> HIDE DEF T, K
    <3> QED
      BY <3>1, <3>2, <3>3, <3>4, Extended
  <2>3. T \subseteq Nat
    OBVIOUS
  <2> HIDE DEF T
  <2> QED
    BY <2>1, <2>2, <2>3, NatSet
<1> DEFINE U == {k \in Nat : n + 3 + k <= N => h[n + 3 + k] = read(n)}
<1>4. N - n - 3 \in U
  <2>1. 0 \in U
    <3>1. n + 3 + 0 = n + 3
      OBVIOUS
    <3> HIDE DEF read
    <3> QED
      BY <1>3, <3>1
  <2>2. ASSUME NEW k \in U PROVE k + 1 \in U
    <3> SUFFICES ASSUME n + 3 + (k + 1) <= N PROVE h[n + 3 + (k + 1)] = read(n)
      OBVIOUS
    <3> HIDE DEF read
    <3>1. h[n + 3 + k] = read(n) /\ k \in Nat
      OBVIOUS
    <3>2. n + 3 + (k + 1) \in n + 4 .. N /\ n + 3 + (k + 1) - 1 = n + 3 + k
          /\ n + 3 + (k + 1) \in 1 .. N
      BY <3>1
    <3>3. h[n + 3 + (k + 1)] = TableLine(h[n + 3 + k], lines[n + 3 + (k + 1)])
      BY <1>1, <3>2
    <3>4. lines[n + 3 + (k + 1)].kind # "row"
      BY <3>2
    <3> QED
      BY <3>1, <3>3, <3>4 DEF TableLine
  <2>3. U \subseteq Nat /\ N - n - 3 \in Nat
    OBVIOUS
  <2> HIDE DEF U
  <2> QED
    BY <2>1, <2>2, <2>3, NatSet
<1>5. Table(lines) = read(n)
  <2>1. n + 3 + (N - n - 3) = N
    OBVIOUS
  <2> HIDE DEF read
  <2> QED
    BY <1>1, <1>4, <2>1
<1>6. read(n) = [headers |-> H, values |-> First(C, n)]
  BY DEF First
<1> QED
  BY <1>5, <1>6

-----------------------------------------------------------------------------
(* The tables of an output.                                                *)

\* Where tables() is: before a table, in its header, in its rows, or after it.
Outside(s, found) == ~s.start /\ ~s.header /\ s.table = <<>> /\ s.tables = found
InHeader(s, table) == s.start /\ ~s.header /\ s.table = table /\ s.tables = <<>>
InRows(s, table) == s.start /\ s.header /\ s.table = table /\ s.tables = <<>>

\* Text before or after a table.
LEMMA TextSkipped ==
  ASSUME NEW s, NEW line, NEW found, line.kind # "delimiter", Outside(s, found)
  PROVE  Outside(TablesLine(s, line), found)
BY DEF TablesLine, Outside, InHeader, InRows

\* The first delimiter.
LEMMA TableStarts ==
  ASSUME NEW s, NEW line, line.kind = "delimiter", Outside(s, <<>>)
  PROVE  InHeader(TablesLine(s, line), Append(<<>>, line))
BY DEF TablesLine, Outside, InHeader, InRows

\* The line of the header.
LEMMA HeaderRead ==
  ASSUME NEW s, NEW line, NEW table, line.kind # "delimiter", InHeader(s, table)
  PROVE  InHeader(TablesLine(s, line), Append(table, line))
BY DEF TablesLine, Outside, InHeader, InRows

\* The second delimiter.
LEMMA HeaderEnds ==
  ASSUME NEW s, NEW line, NEW table, line.kind = "delimiter", InHeader(s, table)
  PROVE  InRows(TablesLine(s, line), Append(table, line))
BY DEF TablesLine, Outside, InHeader, InRows

\* A row.
LEMMA RowRead ==
  ASSUME NEW s, NEW line, NEW table, line.kind # "delimiter", InRows(s, table)
  PROVE  InRows(TablesLine(s, line), Append(table, line))
BY DEF TablesLine, Outside, InHeader, InRows

\* The third delimiter.
LEMMA TableEnds ==
  ASSUME NEW s, NEW line, NEW table, line.kind = "delimiter", InRows(s, table)
  PROVE  Outside(TablesLine(s, line), Append(<<>>, Table(Append(table, line))))
BY DEF TablesLine, Outside, InHeader, InRows

\* The lines of an output: p lines of text, a table of n rows, and text.
Shows(lines, p, H, C, n) ==
  /\ H # <<>> /\ DOMAIN lines = 1 .. p + n + 5
  /\ \A i \in 1 .. p : lines[i] = Text
  /\ lines[p + 1] = Delimiter /\ lines[p + 2] = Row(H) /\ lines[p + 3] = Delimiter
  /\ \A i \in 1 .. n : lines[p + 3 + i] = Row(C[i])
  /\ lines[p + n + 4] = Delimiter /\ lines[p + n + 5] = Text

\* The table that is printed is read, whatever text stands before it.
LEMMA TablesRead ==
  ASSUME NEW n \in Nat, NEW p \in Nat, NEW H, NEW C, NEW lines, Shows(lines, p, H, C, n)
  PROVE  Tables(lines) = <<[headers |-> H, values |-> First(C, n)]>>
<1> SUFFICES ASSUME H # <<>>, DOMAIN lines = 1 .. p + n + 5,
                    \A i \in 1 .. p : lines[i] = Text,
                    lines[p + 1] = Delimiter, lines[p + 2] = Row(H), lines[p + 3] = Delimiter,
                    \A i \in 1 .. n : lines[p + 3 + i] = Row(C[i]),
                    lines[p + n + 4] = Delimiter, lines[p + n + 5] = Text
             PROVE  Tables(lines) = <<[headers |-> H, values |-> First(C, n)]>>
  BY DEF Shows
<1> DEFINE N == p + n + 5
           f == [i \in 1 .. n + 5 |-> lines[p + i]]
           first(k) == [i \in 1 .. k |-> f[i]]
<1>1. N \in Nat /\ DOMAIN lines = 1 .. N
  OBVIOUS
<1>2. PICK h : /\ h[0] = [start |-> FALSE, header |-> FALSE, table |-> <<>>, tables |-> <<>>]
               /\ \A k \in 1 .. N : h[k] = TablesLine(h[k - 1], lines[k])
               /\ Tables(lines) = h[N].tables
  <2> HIDE DEF N
  <2> QED
    BY <1>1, TablesAre
<1>3. /\ Text.kind # "delimiter" /\ Delimiter.kind = "delimiter" /\ Delimiter.kind # "row"
      /\ \A c : Row(c).kind # "delimiter"
  BY DEF Text, Delimiter, Row, Line
<1>4. ASSUME NEW k \in 1 .. n + 5 PROVE h[p + k] = TablesLine(h[p + (k - 1)], f[k])
  <2> DEFINE K == p + k
  <2>1. K \in 1 .. N /\ K - 1 = p + (k - 1) /\ f[k] = lines[K]
    BY <1>4
  <2> HIDE DEF K, N, f
  <2>2. h[K] = TablesLine(h[K - 1], lines[K])
    BY <1>2, <2>1
  <2> QED
    BY <2>1, <2>2 DEF K
<1>5. ASSUME NEW k \in 0 .. n + 4 PROVE Append(first(k), f[k + 1]) = first(k + 1)
  <2> HIDE DEF f
  <2> QED
    BY Extended
<1>6. /\ f[1] = Delimiter /\ f[2] = Row(H) /\ f[3] = Delimiter
      /\ \A i \in 1 .. n : f[i + 3] = Row(C[i])
      /\ f[n + 4] = Delimiter /\ f[n + 5] = Text
  <2>1. /\ 1 \in 1 .. n + 5 /\ 2 \in 1 .. n + 5 /\ 3 \in 1 .. n + 5 /\ n + 4 \in 1 .. n + 5
        /\ n + 5 \in 1 .. n + 5
    OBVIOUS
  <2>2. p + (n + 4) = p + n + 4 /\ p + (n + 5) = p + n + 5
    OBVIOUS
  <2>3. ASSUME NEW i \in 1 .. n PROVE f[i + 3] = Row(C[i])
    <3>1. i + 3 \in 1 .. n + 5 /\ p + (i + 3) = p + 3 + i
      OBVIOUS
    <3> QED
      BY <3>1
  <2> QED
    BY <2>1, <2>2, <2>3
<1>7. Outside(h[p], <<>>)
  <2> DEFINE T == {k \in Nat : k <= p => Outside(h[k], <<>>)}
  <2>1. 0 \in T
    BY <1>2 DEF Outside
  <2>2. ASSUME NEW k \in T PROVE k + 1 \in T
    <3> SUFFICES ASSUME k + 1 <= p PROVE Outside(h[k + 1], <<>>)
      OBVIOUS
    <3>1. Outside(h[k], <<>>) /\ k \in Nat
      <4> QED
        OBVIOUS
    <3>2. k + 1 \in 1 .. N /\ k + 1 - 1 = k /\ k + 1 \in 1 .. p
      BY <3>1
    <3>3. h[k + 1] = TablesLine(h[k], Text)
      <4> DEFINE K == k + 1
      <4>1. K \in 1 .. N /\ K - 1 = k /\ lines[K] = Text
        BY <3>2
      <4> HIDE DEF K, N, T
      <4>2. h[K] = TablesLine(h[K - 1], lines[K])
        BY <1>2, <4>1
      <4> QED
        BY <4>1, <4>2 DEF K
    <3> QED
      BY ONLY <1>3, <3>1, <3>3, TextSkipped
  <2>3. T \subseteq Nat
    OBVIOUS
  <2> HIDE DEF T
  <2>4. p \in T
    BY <2>1, <2>2, <2>3, NatSet
  <2> QED
    BY <2>4 DEF T
<1>8. first(0) = <<>>
  BY NoValues
<1> HIDE DEF f
<1>9. InHeader(h[p + 1], first(1))
  <2>1. 1 \in 1 .. n + 5 /\ 1 - 1 = 0 /\ p + 0 = p /\ 0 + 1 = 1 /\ 0 \in 0 .. n + 4
    OBVIOUS
  <2>2. h[p + 1] = TablesLine(h[p], Delimiter) /\ Append(first(0), f[1]) = first(1)
    BY <1>4, <1>5, <1>6, <2>1
  <2> HIDE DEF first
  <2> QED
    BY ONLY <1>3, <1>6, <1>7, <1>8, <2>2, TableStarts
<1>10. InHeader(h[p + 2], first(2))
  <2>1. 2 \in 1 .. n + 5 /\ 2 - 1 = 1 /\ 1 + 1 = 2 /\ 1 \in 0 .. n + 4
    OBVIOUS
  <2>2. h[p + 2] = TablesLine(h[p + 1], Row(H)) /\ Append(first(1), f[2]) = first(2)
    BY <1>4, <1>5, <1>6, <2>1
  <2> HIDE DEF first
  <2> QED
    BY ONLY <1>3, <1>6, <1>9, <2>2, HeaderRead
<1>11. InRows(h[p + 3], first(3))
  <2>1. 3 \in 1 .. n + 5 /\ 3 - 1 = 2 /\ 2 + 1 = 3 /\ 2 \in 0 .. n + 4
    OBVIOUS
  <2>2. h[p + 3] = TablesLine(h[p + 2], Delimiter) /\ Append(first(2), f[3]) = first(3)
    BY <1>4, <1>5, <1>6, <2>1
  <2> HIDE DEF first
  <2> QED
    BY ONLY <1>3, <1>6, <1>10, <2>2, HeaderEnds
<1>12. InRows(h[p + (n + 3)], first(n + 3))
  <2> DEFINE T == {k \in Nat : k <= n => InRows(h[p + (k + 3)], first(k + 3))}
  <2>1. 0 \in T
    <3>1. 0 + 3 = 3
      OBVIOUS
    <3> QED
      BY <1>11, <3>1
  <2>2. ASSUME NEW k \in T PROVE k + 1 \in T
    <3>1. k \in Nat /\ (k <= n => InRows(h[p + (k + 3)], first(k + 3)))
      <4> QED
        OBVIOUS
    <3>2. ASSUME k + 1 <= n PROVE InRows(h[p + (k + 4)], first(k + 4))
      <4>1. /\ k + 4 \in 1 .. n + 5 /\ k + 4 - 1 = k + 3 /\ k + 3 \in 0 .. n + 4
            /\ k + 3 + 1 = k + 4 /\ k + 1 \in 1 .. n /\ (k + 1) + 3 = k + 4
        BY <3>1, <3>2
      <4> HIDE DEF T
      <4>2. InRows(h[p + (k + 3)], first(k + 3))
        BY <3>1, <3>2
      <4>3. f[k + 4] = Row(C[k + 1])
        BY <1>6, <4>1
      <4>4. h[p + (k + 4)] = TablesLine(h[p + (k + 3)], f[k + 4])
        <5> DEFINE K == k + 4
        <5>1. K \in 1 .. n + 5 /\ K - 1 = k + 3
          BY <4>1
        <5> HIDE DEF K
        <5>2. h[p + K] = TablesLine(h[p + (K - 1)], f[K])
          BY <1>4, <5>1
        <5> QED
          BY <5>1, <5>2 DEF K
      <4>5. Append(first(k + 3), f[k + 4]) = first(k + 4)
        BY <1>5, <4>1
      <4> HIDE DEF first
      <4> QED
        BY ONLY <1>3, <4>2, <4>3, <4>4, <4>5, RowRead
    <3>3. (k + 1) + 3 = k + 4
      BY <3>1
    <3> QED
      BY <3>1, <3>2, <3>3
  <2>3. T \subseteq Nat
    OBVIOUS
  <2> HIDE DEF T
  <2>4. n \in T
    BY <2>1, <2>2, <2>3, NatSet
  <2> QED
    BY <2>4 DEF T
<1>13. Outside(h[p + (n + 4)], Append(<<>>, Table(first(n + 4))))
  <2>1. /\ n + 4 \in 1 .. n + 5 /\ n + 4 - 1 = n + 3 /\ n + 3 + 1 = n + 4 /\ n + 3 \in 0 .. n + 4
    OBVIOUS
  <2>2. h[p + (n + 4)] = TablesLine(h[p + (n + 3)], Delimiter)
    <3> DEFINE K == n + 4
    <3>1. K \in 1 .. n + 5 /\ K - 1 = n + 3
      OBVIOUS
    <3> HIDE DEF K
    <3>2. h[p + K] = TablesLine(h[p + (K - 1)], f[K])
      BY <1>4, <3>1
    <3> QED
      BY <1>6, <3>1, <3>2 DEF K
  <2>3. Append(first(n + 3), Delimiter) = first(n + 4)
    BY <1>5, <1>6, <2>1
  <2> HIDE DEF first
  <2> QED
    BY ONLY <1>3, <1>12, <2>2, <2>3, TableEnds
<1>14. Tables(lines) = <<Table(first(n + 4))>>
  <2>1. n + 5 \in 1 .. n + 5 /\ n + 5 - 1 = n + 4 /\ N = p + (n + 5)
    BY ONLY n \in Nat, p \in Nat DEF N
  <2>2. h[N] = TablesLine(h[p + (n + 4)], Text)
    BY <1>4, <1>6, <2>1
  <2> HIDE DEF first, N
  <2>3. Outside(h[N], Append(<<>>, Table(first(n + 4))))
    BY ONLY <1>3, <1>13, <2>2, TextSkipped
  <2>4. Tables(lines) = Append(<<>>, Table(first(n + 4)))
    BY <1>2, <2>3 DEF Outside
  <2> QED
    BY <2>4
<1>15. Table(first(n + 4)) = [headers |-> H, values |-> First(C, n)]
  <2> DEFINE t == first(n + 4)
           M == n + 4
  <2>1. DOMAIN t = 1 .. M /\ \A i \in 1 .. n + 4 : t[i] = f[i]
    OBVIOUS
  <2> HIDE DEF t
  <2>2. t[1].kind # "row" /\ t[2] = Row(H) /\ t[3].kind # "row"
    BY <1>3, <1>6, <2>1
  <2>3. ASSUME NEW i \in 1 .. n PROVE t[i + 3] = Row(C[i])
    <3>1. i + 3 \in 1 .. n + 4
      OBVIOUS
    <3> QED
      BY <1>6, <2>1, <3>1
  <2>4. \A i \in n + 4 .. M : t[i].kind # "row"
    BY <1>3, <1>6, <2>1
  <2>5. M \in Nat /\ n + 3 <= M /\ DOMAIN t = 1 .. M
    BY <2>1
  <2> HIDE DEF M
  <2>6. IsTable(t, H, C, n)
    <3>1. \E N_ \in Nat : n + 3 <= N_ /\ DOMAIN t = 1 .. N_
      BY <2>5
    <3>2. \A i \in DOMAIN t : n + 4 <= i => t[i].kind # "row"
      BY <2>4, <2>5
    <3>3. H # <<>>
      OBVIOUS
    <3> QED
      BY ONLY <2>2, <2>3, <3>1, <3>2, <3>3 DEF IsTable
  <2>7. Table(t) = [headers |-> H, values |-> First(C, n)]
    BY <2>6, TableRead
  <2> QED
    BY <2>7 DEF t
<1> QED
  BY <1>14, <1>15

-----------------------------------------------------------------------------
(* The rows of an item.                                                    *)

With(r, key, lines) == [k \in DOMAIN r \union {key} |-> IF k = key THEN lines ELSE r[k]]

GoesOn(line) == <<"", line>>
Read(key, item) == [prev_value |-> key, item |-> item]

\* A row with a key starts a value.
LEMMA FieldStarts ==
  ASSUME NEW s, NEW key, key # "", NEW line
  PROVE  DetailsRow(s, <<key, line>>) = [prev_value |-> key, item |-> With(s.item, key, Append(<<>>, line))]
BY DEF DetailsRow, With

\* One without a key goes on with the value of the row before.
LEMMA FieldGoesOn ==
  ASSUME NEW r, NEW key, NEW lines, NEW line
  PROVE  DetailsRow(Read(key, With(r, key, lines)), GoesOn(line))
           = Read(key, With(r, key, Append(lines, line)))
<1> DEFINE s == [prev_value |-> key, item |-> With(r, key, lines)]
           w == With(r, key, lines)
<1>1. DOMAIN w = DOMAIN r \union {key} /\ w[key] = lines /\ \A k \in DOMAIN r : k # key => w[k] = r[k]
  BY DEF With
<1>2. With(w, key, Append(w[key], line)) = With(r, key, Append(lines, line))
  <2> HIDE DEF w
  <2> QED
    BY <1>1 DEF With
<1>3. DetailsRow(s, <<"", line>>) = [prev_value |-> key, item |-> With(w, key, Append(w[key], line))]
  <2>1. s.prev_value = key /\ s.item = w
    OBVIOUS
  <2> HIDE DEF s, w
  <2> QED
    BY <2>1 DEF DetailsRow, With
<1> QED
  BY <1>2, <1>3 DEF Read, GoesOn

\* How the rows are filled: field i takes the rows after place[i - 1], up to place[i].
Fills(C, item, place, n) ==
  /\ place[0] = 0
  /\ \A i \in 0 .. n : place[i] \in Nat
  /\ \A i \in 1 .. n :
       /\ item[i].key # ""
       /\ Len(item[i].lines) \in Nat \ {0}
       /\ item[i].lines = First(item[i].lines, Len(item[i].lines))
       /\ place[i] = place[i - 1] + Len(item[i].lines)
       /\ C[place[i - 1] + 1] = <<item[i].key, item[i].lines[1]>>
       /\ \A j \in 2 .. Len(item[i].lines) : C[place[i - 1] + j] = <<"", item[i].lines[j]>>

\* Fields do not lie before the rows of the fields in front of them.
LEMMA PlacesGrow ==
  ASSUME NEW C, NEW item, NEW place, NEW n \in Nat, Fills(C, item, place, n), NEW i \in 0 .. n
  PROVE  place[i] \in Nat /\ place[i] <= place[n]
<1> DEFINE T == {k \in Nat : k <= n => place[n - k] <= place[n]}
<1>1. 0 \in T
  <2>1. n \in 0 .. n /\ n - 0 = n
    OBVIOUS
  <2>2. place[n] \in Nat
    BY <2>1 DEF Fills
  <2> QED
    BY ONLY <2>1, <2>2
<1>2. ASSUME NEW k \in T PROVE k + 1 \in T
  <2>1. k \in Nat /\ (k <= n => place[n - k] <= place[n])
    OBVIOUS
  <2>2. ASSUME k + 1 <= n PROVE place[n - (k + 1)] <= place[n]
    <3> DEFINE j == n - k
    <3>1. j \in 1 .. n /\ j - 1 \in 0 .. n /\ j \in 0 .. n /\ j - 1 = n - (k + 1) /\ k <= n
      BY ONLY <2>1, <2>2, n \in Nat
    <3> HIDE DEF j
    <3>2. /\ place[j - 1] \in Nat /\ place[j] \in Nat /\ Len(item[j].lines) \in Nat \ {0}
          /\ place[j] = place[j - 1] + Len(item[j].lines)
      BY <3>1 DEF Fills
    <3>3. place[n] \in Nat
      <4>1. n \in 0 .. n
        OBVIOUS
      <4> QED
        BY <4>1 DEF Fills
    <3>4. place[j - 1] <= place[j]
      BY ONLY <3>2
    <3>5. place[j] <= place[n]
      BY ONLY <2>1, <3>1 DEF j
    <3>6. place[j - 1] <= place[n]
      BY ONLY <3>2, <3>3, <3>4, <3>5
    <3> QED
      BY ONLY <3>1, <3>6
  <2> QED
    BY ONLY <2>1, <2>2
<1>3. T \subseteq Nat
  OBVIOUS
<1> HIDE DEF T
<1>4. n - i \in T
  <2>1. n - i \in Nat
    OBVIOUS
  <2> QED
    BY ONLY <1>1, <1>2, <1>3, <2>1, NatSet
<1>5. place[n - (n - i)] <= place[n]
  BY <1>4 DEF T
<1>6. n - (n - i) = i
  OBVIOUS
<1>7. place[i] \in Nat
  BY DEF Fills
<1> QED
  BY ONLY <1>5, <1>6, <1>7

\* Rows b + 1 to b + q are those of one field.
FieldRows(h, C, key, lines, b, q) ==
  /\ key # ""
  /\ \A k \in b + 1 .. b + q : h[k] = DetailsRow(h[k - 1], C[k])
  /\ C[b + 1] = <<key, lines[1]>>
  /\ \A j \in 2 .. q : C[b + j] = <<"", lines[j]>>

\* The fold takes a field's rows one by one.
LEMMA FieldStep ==
  ASSUME NEW h, NEW C, NEW key, NEW lines, NEW b \in Nat, NEW q \in Nat \ {0},
         FieldRows(h, C, key, lines, b, q), NEW j \in 0 .. q - 1
  PROVE  h[b + (j + 1)] = DetailsRow(h[b + j], C[b + (j + 1)])
<1> DEFINE K == b + (j + 1)
<1>1. K \in b + 1 .. b + q /\ K - 1 = b + j
  BY ONLY b \in Nat, q \in Nat \ {0}, j \in 0 .. q - 1
<1> HIDE DEF K
<1>2. h[K] = DetailsRow(h[K - 1], C[K])
  BY <1>1 DEF FieldRows
<1> QED
  BY <1>1, <1>2 DEF K

\* The first j + 1 values are the first j and one more.
LEMMA FirstLonger ==
  ASSUME NEW f, NEW j \in Nat
  PROVE  Append(First(f, j), f[j + 1]) = First(f, j + 1)
BY Extended DEF First

LEMMA FirstNone == ASSUME NEW f PROVE First(f, 0) = <<>>
BY NoValues DEF First

\* A field's rows give its lines.
LEMMA FieldRead ==
  ASSUME NEW h, NEW C, NEW key, NEW lines, NEW b \in Nat, NEW q \in Nat \ {0},
         FieldRows(h, C, key, lines, b, q)
  PROVE  h[b + q] = [prev_value |-> key, item |-> With(h[b].item, key, First(lines, q))]
<1> DEFINE read(j) == [prev_value |-> key, item |-> With(h[b].item, key, First(lines, j))]
           T == {j \in Nat : j + 1 <= q => h[b + (j + 1)] = read(j + 1)}
<1>4. h[b + (0 + 1)] = read(0 + 1)
  <2>1. 0 \in 0 .. q - 1 /\ b + 0 = b /\ 0 + 1 = 1 /\ 0 \in Nat
    BY ONLY b \in Nat, q \in Nat \ {0}
  <2>2. h[b + 1] = DetailsRow(h[b], <<key, lines[1]>>)
    <3>1. h[b + (0 + 1)] = DetailsRow(h[b + 0], C[b + (0 + 1)])
      <4> DEFINE J == 0
      <4>1. J \in 0 .. q - 1
        BY ONLY <2>1
      <4> HIDE DEF J
      <4>2. h[b + (J + 1)] = DetailsRow(h[b + J], C[b + (J + 1)])
        BY <4>1, FieldStep
      <4> QED
        BY ONLY <4>2 DEF J
    <3>2. C[b + 1] = <<key, lines[1]>>
      BY DEF FieldRows
    <3> QED
      BY ONLY <2>1, <3>1, <3>2
  <2>3. DetailsRow(h[b], <<key, lines[1]>>) = [prev_value |-> key, item |-> With(h[b].item, key, Append(<<>>, lines[1]))]
    <3> DEFINE r == h[b]
               line == lines[1]
    <3>1. key # ""
      BY DEF FieldRows
    <3> HIDE DEF r, line
    <3>2. DetailsRow(r, <<key, line>>) = [prev_value |-> key, item |-> With(r.item, key, Append(<<>>, line))]
      BY ONLY <3>1, FieldStarts
    <3> QED
      BY ONLY <3>2 DEF r, line
  <2>4. Append(<<>>, lines[1]) = First(lines, 1)
    BY ONLY <2>1, FirstNone, FirstLonger
  <2> QED
    BY ONLY <2>1, <2>2, <2>3, <2>4
<1>5. ASSUME NEW j \in Nat, j + 1 <= q => h[b + (j + 1)] = read(j + 1), j + 2 <= q
      PROVE  h[b + (j + 2)] = read(j + 2)
  <2>1. /\ j + 1 \in 0 .. q - 1 /\ (j + 1) + 1 = j + 2 /\ j + 2 \in 2 .. q
        /\ j + 1 \in Nat /\ j + 1 <= q
    BY ONLY q \in Nat, j \in Nat, j + 2 <= q
  <2>2. h[b + (j + 1)] = read(j + 1)
    BY ONLY <1>5, <2>1
  <2>3. h[b + (j + 2)] = DetailsRow(h[b + (j + 1)], C[b + (j + 2)])
    <3> DEFINE J == j + 1
    <3>1. J \in 0 .. q - 1 /\ J + 1 = j + 2
      BY ONLY <2>1
    <3> HIDE DEF J
    <3>2. h[b + (J + 1)] = DetailsRow(h[b + J], C[b + (J + 1)])
      BY <3>1, FieldStep
    <3> QED
      BY ONLY <3>1, <3>2 DEF J
  <2>4. C[b + (j + 2)] = <<"", lines[j + 2]>>
    <3>1. \A i \in 2 .. q : C[b + i] = <<"", lines[i]>>
      BY DEF FieldRows
    <3> QED
      BY ONLY <2>1, <3>1
  <2>5. Append(First(lines, j + 1), lines[j + 2]) = First(lines, j + 2)
    <3>1. Append(First(lines, j + 1), lines[(j + 1) + 1]) = First(lines, (j + 1) + 1)
      BY ONLY <2>1, FirstLonger
    <3> QED
      BY ONLY <2>1, <3>1
  <2>6. DetailsRow(read(j + 1), <<"", lines[j + 2]>>)
          = [prev_value |-> key, item |-> With(h[b].item, key, Append(First(lines, j + 1), lines[j + 2]))]
    <3> DEFINE r == h[b].item
               line == lines[j + 2]
               some == First(lines, j + 1)
    <3> HIDE DEF r, line, some
    <3>1. DetailsRow(Read(key, With(r, key, some)), GoesOn(line))
            = Read(key, With(r, key, Append(some, line)))
      BY ONLY FieldGoesOn
    <3> QED
      BY ONLY <3>1 DEF r, line, some, Read, GoesOn
  <2> QED
    BY ONLY <2>2, <2>3, <2>4, <2>5, <2>6
<1> HIDE DEF read
<1>6. q - 1 \in T
  <2>1. T \subseteq Nat /\ q - 1 \in Nat
    BY ONLY q \in Nat \ {0}
  <2>2. 0 \in T
    BY ONLY <1>4
  <2>3. ASSUME NEW j \in T PROVE j + 1 \in T
    <3>1. j \in Nat /\ (j + 1 <= q => h[b + (j + 1)] = read(j + 1))
      BY ONLY j \in T
    <3>2. j + 1 \in Nat /\ (j + 1) + 1 = j + 2
      BY ONLY <3>1
    <3>3. j + 2 <= q => h[b + (j + 2)] = read(j + 2)
      BY ONLY <1>5, <3>1
    <3> QED
      BY ONLY <3>2, <3>3 DEF T
  <2> HIDE DEF T
  <2> QED
    BY ONLY <2>1, <2>2, <2>3, NatSet
<1>7. (q - 1) + 1 = q /\ q <= q
  BY ONLY q \in Nat \ {0}
<1>8. h[b + q] = read(q)
  BY ONLY <1>6, <1>7
<1> QED
  BY ONLY <1>8 DEF read

\* What an item of n fields says.
About(item, n) ==
  [key \in {item[i].key : i \in 1 .. n} |-> item[CHOOSE i \in 1 .. n : item[i].key = key].lines]

\* A field with a key of its own adds its value to what an item says.
LEMMA AboutOneMore ==
  ASSUME NEW n \in Nat, NEW item,
         \A i, j \in 1 .. n + 1 : item[i].key = item[j].key => i = j
  PROVE  About(item, n + 1) = With(About(item, n), item[n + 1].key, item[n + 1].lines)
<1> DEFINE new == item[n + 1]
           old == About(item, n)
           keys(m) == {item[i].key : i \in 1 .. m}
<1>1. keys(n + 1) = keys(n) \union {new.key}
  OBVIOUS
<1>2. ASSUME NEW m \in {n, n + 1}, NEW i \in 1 .. m
      PROVE  (CHOOSE j \in 1 .. m : item[j].key = item[i].key) = i
  <2>1. \A j \in 1 .. m : item[j].key = item[i].key => j = i
    OBVIOUS
  <2> QED
    BY <2>1
<1>3. ASSUME NEW m \in {n, n + 1}, NEW i \in 1 .. m
      PROVE  About(item, m)[item[i].key] = item[i].lines
  <2>1. item[i].key \in keys(m)
    OBVIOUS
  <2> QED
    BY <1>2, <2>1 DEF About
<1>4. DOMAIN old = keys(n) /\ DOMAIN About(item, n + 1) = keys(n + 1)
  BY DEF About
<1>5. ASSUME NEW key \in keys(n + 1)
      PROVE  About(item, n + 1)[key] = With(old, new.key, new.lines)[key]
  <2>1. PICK i \in 1 .. n + 1 : key = item[i].key
    OBVIOUS
  <2>2. About(item, n + 1)[key] = item[i].lines
    BY <1>3, <2>1
  <2>3. CASE i = n + 1
    BY <1>4, <2>1, <2>2, <2>3 DEF With
  <2>4. CASE i # n + 1
    <3>1. i \in 1 .. n /\ n \in {n, n + 1} /\ n + 1 \in 1 .. n + 1
      BY <2>4
    <3>2. key # new.key /\ key \in keys(n)
      BY <2>1, <2>4, <3>1
    <3>3. old[key] = item[i].lines
      BY <1>3, <2>1, <3>1
    <3> HIDE DEF old, keys, new
    <3> QED
      BY <1>4, <2>2, <3>2, <3>3 DEF With
  <2> QED
    BY <2>3, <2>4
<1> HIDE DEF old, keys, new
<1>6. With(old, new.key, new.lines) = [key \in keys(n + 1) |-> With(old, new.key, new.lines)[key]]
  BY <1>1, <1>4 DEF With
<1>7. About(item, n + 1) = [key \in keys(n + 1) |-> About(item, n + 1)[key]]
  BY DEF About, keys
<1>8. About(item, n + 1) = With(old, new.key, new.lines)
  BY <1>5, <1>6, <1>7
<1> QED
  BY <1>8 DEF old, new

\* The keys of an item of n fields differ.
Keyed(item, n) == \A i, j \in 1 .. n : item[i].key = item[j].key => i = j

\* The rows of an item, field after field, give the item.
LEMMA ItemRead ==
  ASSUME NEW C, NEW item, NEW place, NEW n \in Nat, Fills(C, item, place, n), Keyed(item, n)
  PROVE  Item(First(C, place[n])) = About(item, n)
<1> DEFINE seq == First(C, place[n])
           m == place[n]
<1>1. m \in Nat /\ DOMAIN seq = 1 .. m /\ \A k \in 1 .. m : seq[k] = C[k]
  <2>1. n \in 0 .. n
    OBVIOUS
  <2>2. m \in Nat
    BY <2>1 DEF Fills
  <2> QED
    BY <2>2 DEF First
<1> HIDE DEF seq, m
<1>2. PICK h : /\ h[0] = [prev_value |-> "", item |-> <<>>]
               /\ \A k \in 1 .. m : h[k] = DetailsRow(h[k - 1], seq[k])
               /\ Item(seq) = h[m].item
  BY <1>1, ItemIs
<1>3. \A k \in 1 .. m : h[k] = DetailsRow(h[k - 1], C[k])
  BY <1>1, <1>2
<1>4. h[place[0]].item = About(item, 0)
  <2>1. place[0] = 0
    BY DEF Fills
  <2>2. About(item, 0) = <<>>
    BY DEF About
  <2>3. h[0].item = <<>>
    <3>1. h[0] = [prev_value |-> "", item |-> <<>>]
      BY ONLY <1>2, Zenon
    <3>2. ASSUME NEW prev, NEW x, x = [prev_value |-> prev, item |-> <<>>] PROVE x.item = <<>>
      BY ONLY <3>2
    <3> QED
      BY ONLY <3>1, <3>2, Zenon
  <2> QED
    BY ONLY <2>1, <2>2, <2>3
<1>5. ASSUME NEW k \in Nat, k + 1 <= n, h[place[k]].item = About(item, k)
      PROVE  h[place[k + 1]].item = About(item, k + 1)
  <2> DEFINE i == k + 1
             b == place[k]
             q == Len(item[k + 1].lines)
  <2>1. i \in 1 .. n /\ i - 1 = k /\ k \in 0 .. n /\ i \in 0 .. n
    BY ONLY <1>5, k \in Nat, n \in Nat
  <2>2. /\ item[i].key # "" /\ q \in Nat \ {0} /\ item[i].lines = First(item[i].lines, q)
        /\ place[i] = b + q
        /\ C[b + 1] = <<item[i].key, item[i].lines[1]>>
        /\ \A j \in 2 .. q : C[b + j] = <<"", item[i].lines[j]>>
    <3> DEFINE I == i
    <3>1. I \in 1 .. n /\ I - 1 = k
      BY ONLY <2>1
    <3> HIDE DEF I
    <3>2. /\ item[I].key # "" /\ Len(item[I].lines) \in Nat \ {0}
          /\ item[I].lines = First(item[I].lines, Len(item[I].lines))
          /\ place[I] = place[I - 1] + Len(item[I].lines)
          /\ C[place[I - 1] + 1] = <<item[I].key, item[I].lines[1]>>
          /\ \A j \in 2 .. Len(item[I].lines) : C[place[I - 1] + j] = <<"", item[I].lines[j]>>
      BY <3>1 DEF Fills
    <3> QED
      BY ONLY <3>1, <3>2 DEF I
  <2>3. b \in Nat /\ b + q <= m
    <3>1. place[k] \in Nat /\ place[i] <= place[n]
      BY ONLY <2>1, n \in Nat, Fills(C, item, place, n), PlacesGrow
    <3> QED
      BY ONLY <2>2, <3>1 DEF m
  <2> HIDE DEF b, q, i
  <2>4. FieldRows(h, C, item[i].key, item[i].lines, b, q)
    <3>1. ASSUME NEW j \in b + 1 .. b + q PROVE j \in 1 .. m
      <4>1. q \in Nat /\ m \in Nat
        BY ONLY <1>1, <2>2
      <4> QED
        BY ONLY <2>3, <4>1, j \in b + 1 .. b + q
    <3>2. \A j \in b + 1 .. b + q : h[j] = DetailsRow(h[j - 1], C[j])
      BY ONLY <1>3, <3>1
    <3> QED
      BY ONLY <2>2, <3>2 DEF FieldRows
  <2>5. h[b + q].item = With(h[b].item, item[i].key, item[i].lines)
    <3> DEFINE key == item[i].key
               lines == item[i].lines
    <3> HIDE DEF key, lines
    <3>1. FieldRows(h, C, key, lines, b, q)
      BY ONLY <2>4 DEF key, lines
    <3>2. h[b + q] = [prev_value |-> key, item |-> With(h[b].item, key, First(lines, q))]
      <4>1. b \in Nat /\ q \in Nat \ {0}
        BY ONLY <2>2, <2>3
      <4> QED
        BY ONLY <3>1, <4>1, FieldRead
    <3>3. lines = First(lines, q)
      BY ONLY <2>2 DEF lines
    <3> QED
      BY ONLY <3>2, <3>3 DEF key, lines
  <2>6. About(item, k + 1) = With(About(item, k), item[k + 1].key, item[k + 1].lines)
    <3>1. \A x, y \in 1 .. k + 1 : x \in 1 .. n /\ y \in 1 .. n
      BY ONLY <1>5, k \in Nat, n \in Nat
    <3>2. \A x, y \in 1 .. k + 1 : item[x].key = item[y].key => x = y
      BY <3>1 DEF Keyed
    <3> QED
      BY ONLY <3>2, k \in Nat, AboutOneMore
  <2>7. h[b].item = About(item, k)
    BY ONLY <1>5 DEF b
  <2> QED
    BY ONLY <2>2, <2>5, <2>6, <2>7 DEF i
<1> DEFINE T == {k \in Nat : k <= n => h[place[k]].item = About(item, k)}
<1>6. n \in T
  <2>1. T \subseteq Nat
    OBVIOUS
  <2>2. 0 \in T
    BY ONLY <1>4
  <2>3. ASSUME NEW k \in T PROVE k + 1 \in T
    <3>1. k \in Nat /\ (k <= n => h[place[k]].item = About(item, k))
      BY ONLY k \in T
    <3>2. k + 1 \in Nat /\ (k + 1 <= n => k <= n)
      BY ONLY <3>1, n \in Nat
    <3>3. k + 1 <= n => h[place[k + 1]].item = About(item, k + 1)
      BY ONLY <1>5, <3>1, <3>2
    <3> QED
      BY ONLY <3>2, <3>3
  <2> HIDE DEF T
  <2> QED
    BY ONLY <2>1, <2>2, <2>3, n \in Nat, NatSet
<1>7. h[m].item = About(item, n)
  BY ONLY <1>6, n \in Nat DEF m
<1> QED
  BY ONLY <1>2, <1>7 DEF seq

-----------------------------------------------------------------------------
(* The rows of an item's fields, one field after the other.                *)

\* f[k] is the first k of n sequences put together.
Together(f, R, n) ==
  /\ f[0] = <<>>
  /\ \A k \in 1 .. n : f[k] = f[k - 1] \o R[k]

\* FlattenSeq puts the sequences together in their order.
LEMMA FlattenIs ==
  ASSUME NEW S, NEW n \in Nat, NEW R \in [1 .. n -> Seq(S)]
  PROVE  \E f : Together(f, R, n) /\ FlattenSeq(R) = f[n]
<1>1. Len(R) = n
  OBVIOUS
<1>2. CASE n = 0
  <2> DEFINE f == [k \in {0} |-> <<>>]
  <2>1. R = <<>>
    BY <1>2
  <2>2. FlattenSeq(R) = <<>>
    BY <1>1, <1>2, <2>1 DEF FlattenSeq
  <2>3. Together(f, R, n) /\ f[n] = <<>>
    BY <1>2 DEF Together
  <2> QED
    BY <2>2, <2>3
<1>3. CASE n # 0
  <2> DEFINE Next1(g, i) == IF i = 1 THEN R[i] ELSE g[i - 1] \o R[i]
             flatten == CHOOSE g : g = [i \in 1 .. n |-> Next1(g, i)]
             Good(g, k) == g = [i \in 1 .. n |-> g[i]] /\ \A i \in 1 .. k : g[i] = Next1(g, i)
             T == {k \in Nat : k <= n => \E g : Good(g, k)}
  <2>1. n \in T
    <3>1. 0 \in T
      <4> DEFINE g == [i \in 1 .. n |-> <<>>]
      <4>1. Good(g, 0)
        OBVIOUS
      <4> HIDE DEF g, Good
      <4> QED
        BY <4>1
    <3>2. ASSUME NEW k \in T PROVE k + 1 \in T
      <4>1. k \in Nat /\ (k <= n => \E g : Good(g, k))
        <5> HIDE DEF Good
        <5> QED
          OBVIOUS
      <4>2. ASSUME k + 1 <= n PROVE \E g : Good(g, k + 1)
        <5>1. PICK g : Good(g, k)
          <6> HIDE DEF Good
          <6> QED
            BY <4>1, <4>2
        <5> DEFINE h == [i \in 1 .. n |-> Next1(g, i)]
        <5>2. ASSUME NEW i \in 1 .. k + 1 PROVE h[i] = Next1(h, i)
          <6>1. i \in 1 .. n /\ (i # 1 => i - 1 \in 1 .. k /\ i - 1 \in 1 .. n)
            BY <4>1, <4>2
          <6>2. i # 1 => h[i - 1] = g[i - 1]
            BY <5>1, <6>1
          <6> QED
            BY <6>1, <6>2
        <5>3. Good(h, k + 1)
          BY <5>2
        <5> HIDE DEF h, Good
        <5> QED
          BY <5>3
      <4> HIDE DEF Good
      <4> QED
        BY <4>1, <4>2
    <3>3. T \subseteq Nat
      <4> HIDE DEF Good
      <4> QED
        OBVIOUS
    <3> HIDE DEF T
    <3> QED
      BY <3>1, <3>2, <3>3, NatSet
  <2>2. PICK g : Good(g, n)
    <3> HIDE DEF Good
    <3> QED
      BY <2>1
  <2>3. flatten = [i \in 1 .. n |-> Next1(flatten, i)]
    <3>1. g = [i \in 1 .. n |-> Next1(g, i)]
      BY <2>2
    <3> QED
      BY <3>1
  <2>4. FlattenSeq(R) = flatten[n]
    BY <1>1, <1>3 DEF FlattenSeq
  <2> HIDE DEF flatten
  <2> DEFINE f == [k \in 0 .. n |-> IF k = 0 THEN <<>> ELSE flatten[k]]
  <2>5. ASSUME NEW k \in 1 .. n PROVE f[k] = f[k - 1] \o R[k]
    <3>1. k - 1 \in 0 .. n /\ k \in 0 .. n /\ k # 0 /\ (k # 1 => k - 1 # 0)
      OBVIOUS
    <3>2. R[k] \in Seq(S) /\ <<>> \o R[k] = R[k]
      BY ConcatEmptySeq
    <3>3. flatten[k] = Next1(flatten, k)
      BY <2>3
    <3>4. f[k] = flatten[k] /\ f[0] = <<>> /\ (k # 1 => f[k - 1] = flatten[k - 1])
      BY <3>1
    <3>5. 1 - 1 = 0
      OBVIOUS
    <3> HIDE DEF f
    <3>6. CASE k = 1
      BY <3>2, <3>3, <3>4, <3>5, <3>6
    <3>7. CASE k # 1
      BY <3>3, <3>4, <3>7
    <3> QED
      BY <3>6, <3>7
  <2>6. f[0] = <<>> /\ f[n] = flatten[n]
    BY <1>3
  <2> HIDE DEF f
  <2> QED
    BY <2>4, <2>5, <2>6 DEF Together
<1> QED
  BY <1>2, <1>3

LEMMA TogetherStep ==
  ASSUME NEW f, NEW R, NEW n, Together(f, R, n), NEW k \in 1 .. n
  PROVE  f[k] = f[k - 1] \o R[k]
BY DEF Together

\* Sequences over a set put together are one over that set.
LEMMA TogetherSeq ==
  ASSUME NEW S, NEW n \in Nat, NEW R \in [1 .. n -> Seq(S)], NEW f, Together(f, R, n),
         NEW k \in 0 .. n
  PROVE  f[k] \in Seq(S)
<1> DEFINE T == {i \in Nat : i <= n => f[i] \in Seq(S)}
<1>1. 0 \in T
  BY EmptySeq DEF Together
<1>2. ASSUME NEW i \in T PROVE i + 1 \in T
  <2> SUFFICES ASSUME i + 1 <= n PROVE f[i + 1] \in Seq(S)
    OBVIOUS
  <2> DEFINE j == i + 1
  <2>1. j \in 1 .. n /\ j - 1 = i /\ f[i] \in Seq(S)
    OBVIOUS
  <2> HIDE DEF j
  <2>2. f[j] = f[j - 1] \o R[j]
    BY ONLY <2>1, Together(f, R, n) DEF Together
  <2>3. R[j] \in Seq(S)
    BY ONLY <2>1, R \in [1 .. n -> Seq(S)]
  <2> QED
    BY ONLY <2>1, <2>2, <2>3, ConcatProperties DEF j
<1>3. T \subseteq Nat
  OBVIOUS
<1> HIDE DEF T
<1>4. k \in T
  <2>1. k \in Nat
    OBVIOUS
  <2> QED
    BY ONLY <1>1, <1>2, <1>3, <2>1, NatSet
<1> QED
  BY <1>4 DEF T

\* What is put together stays where it was put.
Stays(f, n) ==
  \A k \in 0 .. n : \A x \in 1 .. Len(f[k]) : Len(f[k]) <= Len(f[n]) /\ f[n][x] = f[k][x]

\* What is put together first stays where it is.
LEMMA TogetherStays ==
  ASSUME NEW S, NEW n \in Nat, NEW R \in [1 .. n -> Seq(S)], NEW f, Together(f, R, n)
  PROVE  Stays(f, n)
<1> SUFFICES ASSUME NEW k \in 0 .. n, NEW x \in 1 .. Len(f[k])
             PROVE  Len(f[k]) <= Len(f[n]) /\ f[n][x] = f[k][x]
  BY DEF Stays
<1> DEFINE T == {d \in Nat : k + d <= n => Len(f[k]) <= Len(f[k + d]) /\ f[k + d][x] = f[k][x]}
<1>1. f[k] \in Seq(S) /\ Len(f[k]) \in Nat /\ k \in Nat
  BY TogetherSeq, LenProperties
<1>2. 0 \in T
  BY <1>1
<1>3. ASSUME NEW d \in T PROVE d + 1 \in T
  <2> SUFFICES ASSUME k + (d + 1) <= n
               PROVE  Len(f[k]) <= Len(f[k + (d + 1)]) /\ f[k + (d + 1)][x] = f[k][x]
    OBVIOUS
  <2> DEFINE i == k + d
             j == k + (d + 1)
  <2>1. j \in 1 .. n /\ j - 1 = i /\ i \in 0 .. n
    BY <1>1
  <2>2. Len(f[k]) <= Len(f[i]) /\ f[i][x] = f[k][x]
    BY <1>1
  <2> HIDE DEF i, j, T
  <2>3. f[j] = f[j - 1] \o R[j] /\ R[j] \in Seq(S)
    <3>1. f[j] = f[j - 1] \o R[j]
      BY ONLY <2>1, Together(f, R, n) DEF Together
    <3> QED
      BY ONLY <2>1, <3>1, R \in [1 .. n -> Seq(S)]
  <2>4. f[i] \in Seq(S)
    BY <2>1, TogetherSeq
  <2>5. /\ Len(f[j]) = Len(f[i]) + Len(R[j]) /\ Len(f[i]) \in Nat /\ Len(R[j]) \in Nat
        /\ \A y \in 1 .. Len(f[i]) + Len(R[j]) :
             f[j][y] = IF y <= Len(f[i]) THEN f[i][y] ELSE R[j][y - Len(f[i])]
    <3>1. f[j] = f[i] \o R[j] /\ R[j] \in Seq(S)
      BY ONLY <2>1, <2>3
    <3>2. Len(f[i]) \in Nat /\ Len(R[j]) \in Nat
      BY ONLY <2>4, <3>1, LenProperties
    <3>3. /\ Len(f[i] \o R[j]) = Len(f[i]) + Len(R[j])
          /\ \A y \in 1 .. Len(f[i]) + Len(R[j]) :
               (f[i] \o R[j])[y] = IF y <= Len(f[i]) THEN f[i][y] ELSE R[j][y - Len(f[i])]
      BY ONLY <2>4, <3>1, ConcatProperties
    <3> QED
      BY ONLY <3>1, <3>2, <3>3
  <2> DEFINE a == Len(f[k])
             b == Len(f[i])
             c == Len(R[j])
  <2> HIDE DEF a, b, c
  <2>6. a \in Nat /\ b \in Nat /\ c \in Nat /\ a <= b /\ x \in 1 .. a
    BY ONLY <1>1, <2>2, <2>5, x \in 1 .. Len(f[k]) DEF a, b, c
  <2>10. x \in 1 .. b + c /\ x <= b
    BY ONLY <2>6
  <2>7. Len(f[k]) <= Len(f[j])
    <3>1. a <= b + c
      BY ONLY <2>6
    <3>2. Len(f[j]) = b + c
      BY ONLY <2>5 DEF b, c
    <3> QED
      BY ONLY <3>1, <3>2 DEF a
  <2>8. f[j][x] = f[k][x]
    BY ONLY <2>2, <2>5, <2>10 DEF b, c
  <2> QED
    BY <2>7, <2>8 DEF j
<1>4. T \subseteq Nat /\ n - k \in Nat /\ k + (n - k) = n
  OBVIOUS
<1> HIDE DEF T
<1>5. n - k \in T
  BY <1>2, <1>3, <1>4, NatSet
<1> QED
  BY <1>4, <1>5 DEF T

\* An item that can be printed: keys that are not empty, each with a line at least.
ItemsOf(K, L) == Seq([key : K \ {""}, lines : Seq(L) \ {<<>>}])
RowsOf(K, L) == {Row(cells) : cells \in (K \union {""}) \X L}

\* The rows of an item lie one field after the other.
Placed(K, L, item, n) ==
  \E place, F : /\ F = FlattenSeq([i \in DOMAIN item |-> Rows(item[i])])
                /\ F \in Seq(RowsOf(K, L)) /\ Len(F) = place[n]
                /\ Fills([x \in 1 .. Len(F) |-> F[x].cells], item, place, n)

\* The rows that are printed of an item lie one field after the other, none empty.
LEMMA RowsFill ==
  ASSUME NEW K, NEW L, NEW item, item \in ItemsOf(K, L), NEW n \in Nat, Len(item) = n
  PROVE  Placed(K, L, item, n)
<1> DEFINE S == RowsOf(K, L)
           R == [i \in 1 .. n |-> Rows(item[i])]
           q(i) == Len(item[i].lines)
<1>1. DOMAIN item = 1 .. n
  BY LenProperties DEF ItemsOf
<1>2. ASSUME NEW i \in 1 .. n
      PROVE  /\ item[i].key \in K \ {""} /\ item[i].lines \in Seq(L) \ {<<>>}
             /\ q(i) \in Nat \ {0} /\ DOMAIN item[i].lines = 1 .. q(i)
             /\ \A j \in 1 .. q(i) : item[i].lines[j] \in L
             /\ item[i].lines = First(item[i].lines, q(i))
  <2>1. item[i] \in [key : K \ {""}, lines : Seq(L) \ {<<>>}]
    BY <1>1, ElementOfSeq DEF ItemsOf
  <2>2. item[i].lines \in Seq(L) /\ item[i].lines # <<>>
    BY ONLY <2>1
  <2>3. q(i) \in Nat /\ DOMAIN item[i].lines = 1 .. q(i)
    BY ONLY <2>2, LenProperties
  <2>4. q(i) # 0
    BY ONLY <2>2, EmptySeq
  <2>5. \A j \in 1 .. q(i) : item[i].lines[j] \in L
    BY ONLY <2>2, <2>3, ElementOfSeq
  <2>6. item[i].lines = First(item[i].lines, q(i))
    <3> DEFINE ls == item[i].lines
    <3> HIDE DEF ls
    <3>1. ls \in Seq(L)
      BY ONLY <2>2 DEF ls
    <3>2. ls = First(ls, Len(ls))
      BY ONLY <3>1 DEF First
    <3> QED
      BY ONLY <3>2 DEF ls
  <2> QED
    BY <2>1, <2>2, <2>3, <2>4, <2>5, <2>6
<1>3. ASSUME NEW i \in 1 .. n
      PROVE  /\ Len(R[i]) = q(i)
             /\ R[i] \in Seq(S)
             /\ R[i][1].cells = <<item[i].key, item[i].lines[1]>>
             /\ \A j \in 2 .. q(i) : R[i][j].cells = <<"", item[i].lines[j]>>
  <2> DEFINE ls == item[i].lines
             key == item[i].key
  <2>1. R[i] = [j \in 1 .. q(i) |-> Row(<<IF j = 1 THEN key ELSE "", ls[j]>>)]
    BY <1>2 DEF Rows
  <2>2. /\ q(i) \in Nat \ {0} /\ key \in K /\ \A j \in 1 .. q(i) : ls[j] \in L
    BY <1>2
  <2> DEFINE m == q(i)
             r == R[i]
  <2> HIDE DEF m, r, ls, key
  <2>3. r = [j \in 1 .. m |-> Row(<<IF j = 1 THEN key ELSE "", ls[j]>>)]
    BY ONLY <2>1 DEF m, r
  <2>4. m \in Nat \ {0} /\ key \in K /\ \A j \in 1 .. m : ls[j] \in L
    BY ONLY <2>2 DEF m
  <2>5. ASSUME NEW j \in 1 .. m PROVE Row(<<IF j = 1 THEN key ELSE "", ls[j]>>) \in S
    <3> DEFINE first == IF j = 1 THEN key ELSE ""
               keys == K \union {""}
    <3>1. first \in keys
      BY ONLY <2>4
    <3> HIDE DEF first, keys
    <3>2. Row(<<first, ls[j]>>) \in {Row(cells) : cells \in keys \X L}
      BY ONLY <2>4, <3>1, j \in 1 .. m
    <3> HIDE DEF S
    <3>3. {Row(cells) : cells \in keys \X L} = S
      BY ONLY Zenon DEF RowsOf, S, keys
    <3>4. Row(<<first, ls[j]>>) \in S
      BY ONLY <3>2, <3>3
    <3> QED
      BY ONLY <3>4, Zenon DEF first
  <2>6. r \in Seq(S) /\ Len(r) = m
    <3> HIDE DEF S
    <3>1. r \in [1 .. m -> S] /\ m \in Nat
      BY ONLY <2>3, <2>4, <2>5
    <3> QED
      BY ONLY <3>1
  <2>7. r[1].cells = <<key, ls[1]>>
    <3>1. 1 \in 1 .. m
      BY ONLY <2>4
    <3>2. r[1] = Row(<<key, ls[1]>>)
      BY ONLY <2>3, <3>1
    <3> QED
      BY ONLY <3>2 DEF Row, Line
  <2>8. ASSUME NEW j \in 2 .. m PROVE r[j].cells = <<"", ls[j]>>
    <3>1. j \in 1 .. m /\ j # 1
      BY ONLY <2>4, j \in 2 .. m
    <3>2. r[j] = Row(<<"", ls[j]>>)
      BY ONLY <2>3, <3>1
    <3>3. ASSUME NEW x, NEW c, x = Row(c) PROVE x.cells = c
      BY ONLY <3>3 DEF Row, Line
    <3> QED
      BY ONLY <3>2, <3>3, Zenon
  <2> QED
    BY ONLY <2>6, <2>7, <2>8 DEF m, r, ls, key
<1>4. R \in [1 .. n -> Seq(S)] /\ R = [i \in DOMAIN item |-> Rows(item[i])]
  BY ONLY <1>1, <1>3
<1> HIDE DEF R, S
<1>5. PICK f : Together(f, R, n) /\ FlattenSeq(R) = f[n]
  BY <1>4, FlattenIs
<1> DEFINE F == f[n]
           place == [k \in 0 .. n |-> Len(f[k])]
           C == [x \in 1 .. Len(F) |-> F[x].cells]
<1>12. Stays(f, n)
  BY ONLY <1>4, <1>5, n \in Nat, TogetherStays
<1>6. ASSUME NEW k \in 0 .. n PROVE f[k] \in Seq(S) /\ place[k] = Len(f[k]) /\ place[k] \in Nat
  <2>1. f[k] \in Seq(S)
    BY <1>4, <1>5, TogetherSeq
  <2> QED
    BY <2>1, LenProperties
<1>7. ASSUME NEW i \in 1 .. n
      PROVE  /\ place[i] = place[i - 1] + q(i)
             /\ \A j \in 1 .. q(i) : C[place[i - 1] + j] = R[i][j].cells
  <2> DEFINE b == Len(f[i - 1])
             m == Len(R[i])
             w == Len(f[i])
  <2>1. i - 1 \in 0 .. n /\ i \in 0 .. n /\ n \in 0 .. n
    OBVIOUS
  <2>2. f[i] = f[i - 1] \o R[i]
    BY ONLY <1>5, i \in 1 .. n DEF Together
  <2>3. /\ f[i - 1] \in Seq(S) /\ R[i] \in Seq(S) /\ f[i] \in Seq(S) /\ f[n] \in Seq(S)
        /\ b \in Nat /\ m \in Nat /\ w \in Nat /\ Len(F) \in Nat
        /\ place[i] = w /\ place[i - 1] = b
    BY ONLY <1>6, <1>3, <2>1, LenProperties
  <2>4. /\ Len(f[i - 1] \o R[i]) = b + m
        /\ \A y \in 1 .. b + m : (f[i - 1] \o R[i])[y] = IF y <= b THEN f[i - 1][y] ELSE R[i][y - b]
    <3> DEFINE s1 == f[i - 1]
               s2 == R[i]
    <3> HIDE DEF s1, s2
    <3>1. s1 \in Seq(S) /\ s2 \in Seq(S)
      BY ONLY <2>3 DEF s1, s2
    <3>2. /\ Len(s1 \o s2) = Len(s1) + Len(s2)
          /\ \A y \in 1 .. Len(s1) + Len(s2) : (s1 \o s2)[y] = IF y <= Len(s1) THEN s1[y] ELSE s2[y - Len(s1)]
      BY ONLY <3>1, ConcatProperties
    <3> QED
      BY ONLY <3>2 DEF s1, s2
  <2>5. w = b + m /\ m = q(i)
    BY ONLY <1>3, <2>2, <2>4
  <2> HIDE DEF b, m, w, q
  <2>6. ASSUME NEW j \in 1 .. m PROVE C[b + j] = R[i][j].cells
    <3> DEFINE y == b + j
    <3>1. y \in 1 .. w /\ ~(y <= b) /\ y - b = j /\ y \in 1 .. b + m
      BY ONLY <2>3, <2>5, j \in 1 .. m
    <3> HIDE DEF y
    <3>2. f[i][y] = R[i][j]
      BY ONLY <2>2, <2>4, <3>1
    <3>3. w <= Len(f[n]) /\ f[n][y] = f[i][y]
      <4>1. y \in 1 .. Len(f[i])
        BY ONLY <3>1 DEF w
      <4> QED
        <5>1. R \in [1 .. n -> Seq(S)] /\ Together(f, R, n) /\ i \in 0 .. n
          BY ONLY <1>4, <1>5, <2>1
        <5>2. \A k \in 0 .. n : \A x \in 1 .. Len(f[k]) : Len(f[k]) <= Len(f[n]) /\ f[n][x] = f[k][x]
          BY ONLY <1>12 DEF Stays
        <5>3. Len(f[i]) <= Len(f[n]) /\ f[n][y] = f[i][y]
          BY ONLY <4>1, <5>1, <5>2
        <5> QED
          BY ONLY <5>3 DEF w
    <3>4. y \in 1 .. Len(F)
      BY ONLY <2>3, <3>1, <3>3
    <3>5. C[y] = F[y].cells
      BY ONLY <3>4
    <3> QED
      BY ONLY <3>2, <3>3, <3>5 DEF y
  <2> QED
    BY ONLY <2>3, <2>5, <2>6
<1> HIDE DEF C, place, q
<1>8. Fills(C, item, place, n)
  <2>1. place[0] = 0
    <3>1. f[0] = <<>>
      BY ONLY <1>5 DEF Together
    <3>2. 0 \in 0 .. n
      OBVIOUS
    <3> QED
      BY ONLY <1>6, <3>1, <3>2, EmptySeq
  <2>2. ASSUME NEW i \in 1 .. n
        PROVE  /\ C[place[i - 1] + 1] = <<item[i].key, item[i].lines[1]>>
               /\ \A j \in 2 .. q(i) : C[place[i - 1] + j] = <<"", item[i].lines[j]>>
    <3>1. q(i) \in Nat \ {0}
      BY ONLY <1>2, i \in 1 .. n
    <3>2. 1 \in 1 .. q(i) /\ \A j \in 2 .. q(i) : j \in 1 .. q(i)
      BY ONLY <3>1
    <3> QED
      BY ONLY <1>3, <1>7, <3>2, i \in 1 .. n
  <2>3. \A i \in 1 .. n : /\ item[i].key # "" /\ q(i) \in Nat \ {0} /\ item[i].lines = First(item[i].lines, q(i))
    BY ONLY <1>2
  <2> QED
    BY ONLY <1>6, <1>7, <2>1, <2>2, <2>3 DEF Fills, q
<1>9. F \in Seq(S) /\ Len(F) = place[n]
  <2>1. n \in 0 .. n
    OBVIOUS
  <2> QED
    BY ONLY <1>6, <2>1
<1>10. F = FlattenSeq([i \in DOMAIN item |-> Rows(item[i])])
  BY ONLY <1>4, <1>5
<1> HIDE DEF F
<1> QED
  BY ONLY <1>8, <1>9, <1>10 DEF C, S, Placed

-----------------------------------------------------------------------------
(* What is printed is read.                                                *)

\* A sequence of a + b values, of which s holds the first a and t the others.
Joined(r, s, t, a, b, S) ==
  /\ r \in Seq(S) /\ Len(r) = a + b
  /\ \A i \in 1 .. a + b : r[i] = IF i <= a THEN s[i] ELSE t[i - a]

\* Concatenation, by position.
LEMMA ConcatJoins ==
  ASSUME NEW S, NEW s, NEW t, NEW a, NEW b,
         s \in Seq(S), t \in Seq(S), Len(s) = a, Len(t) = b
  PROVE  Joined(s \o t, s, t, a, b, S)
<1>1. /\ s \o t \in Seq(S) /\ Len(s \o t) = Len(s) + Len(t)
      /\ \A i \in 1 .. Len(s) + Len(t) : (s \o t)[i] = IF i <= Len(s) THEN s[i] ELSE t[i - Len(s)]
  BY ConcatProperties
<1> DEFINE r == s \o t
<1> HIDE DEF r
<1>2. /\ r \in Seq(S) /\ Len(r) = Len(s) + Len(t)
      /\ \A i \in 1 .. Len(s) + Len(t) : r[i] = IF i <= Len(s) THEN s[i] ELSE t[i - Len(s)]
  BY ONLY <1>1 DEF r
<1>3. Joined(r, s, t, a, b, S)
  BY <1>2 DEF Joined
<1> QED
  BY ONLY <1>3 DEF r

\* Rows with the cells C, and the lines of a frame around n of them after p lines of text.
LEMMA FramedShows ==
  ASSUME NEW T, NEW rows \in Seq(T), NEW n \in Nat, Len(rows) = n, NEW C,
         \A i \in 1 .. n : rows[i] = Row(C[i]),
         NEW H, H # <<>>
  PROVE  /\ Shows(Framed(H, rows), 0, H, C, n)
         /\ Shows(<<Text>> \o Framed(H, rows), 1, H, C, n)
<1> DEFINE S == T \union {Delimiter, Row(H), Text}
           top == <<Delimiter, Row(H), Delimiter>>
           bottom == <<Delimiter, Text>>
           lines == Framed(H, rows)
<1>1. /\ top \in Seq(S) /\ Len(top) = 3
      /\ top[1] = Delimiter /\ top[2] = Row(H) /\ top[3] = Delimiter
  OBVIOUS
<1>2. bottom \in Seq(S) /\ Len(bottom) = 2 /\ bottom[1] = Delimiter /\ bottom[2] = Text
  OBVIOUS
<1>3. rows \in Seq(S)
  BY SeqMonotonic
<1>4. <<Text>> \in Seq(S) /\ Len(<<Text>>) = 1 /\ <<Text>>[1] = Text
  OBVIOUS
<1>5. lines = (top \o rows) \o bottom
  BY DEF Framed
<1> HIDE DEF S, top, bottom, lines
<1> DEFINE upper == top \o rows
<1>6. Joined(upper, top, rows, 3, n, S)
  BY ONLY <1>1, <1>3, Len(rows) = n, ConcatJoins
<1> HIDE DEF upper
<1>7. Joined(lines, upper, bottom, 3 + n, 2, S)
  <2>1. upper \in Seq(S) /\ Len(upper) = 3 + n
    BY ONLY <1>6 DEF Joined
  <2>2. lines = upper \o bottom
    BY ONLY <1>5 DEF upper
  <2>3. Joined(upper \o bottom, upper, bottom, 3 + n, 2, S)
    BY ONLY <1>2, <2>1, ConcatJoins
  <2> QED
    BY ONLY <2>2, <2>3
<1>8. /\ lines[1] = Delimiter /\ lines[2] = Row(H) /\ lines[3] = Delimiter
      /\ lines[n + 4] = Delimiter /\ lines[n + 5] = Text
  <2>1. /\ 1 \in 1 .. 3 + n /\ 2 \in 1 .. 3 + n /\ 3 \in 1 .. 3 + n
        /\ 1 \in 1 .. 3 + n + 2 /\ 2 \in 1 .. 3 + n + 2 /\ 3 \in 1 .. 3 + n + 2
        /\ 1 <= 3 + n /\ 2 <= 3 + n /\ 3 <= 3 + n
        /\ n + 4 \in 1 .. 3 + n + 2 /\ ~(n + 4 <= 3 + n) /\ n + 4 - (3 + n) = 1
        /\ n + 5 \in 1 .. 3 + n + 2 /\ ~(n + 5 <= 3 + n) /\ n + 5 - (3 + n) = 2
    BY ONLY n \in Nat
  <2>2. lines[1] = Delimiter /\ lines[2] = Row(H) /\ lines[3] = Delimiter
    <3>1. lines[1] = upper[1] /\ lines[2] = upper[2] /\ lines[3] = upper[3]
      BY ONLY <1>7, <2>1 DEF Joined
    <3>2. upper[1] = top[1] /\ upper[2] = top[2] /\ upper[3] = top[3]
      BY ONLY <1>6, <2>1 DEF Joined
    <3> QED
      BY ONLY <1>1, <3>1, <3>2
  <2>3. lines[n + 4] = bottom[n + 4 - (3 + n)]
    BY ONLY <1>7, <2>1 DEF Joined
  <2>4. lines[n + 5] = bottom[n + 5 - (3 + n)]
    BY ONLY <1>7, <2>1 DEF Joined
  <2> QED
    BY ONLY <1>2, <2>1, <2>2, <2>3, <2>4
<1>9. ASSUME NEW i \in 1 .. n PROVE lines[3 + i] = Row(C[i])
  <2> DEFINE k == 3 + i
  <2>1. k \in 1 .. 3 + n /\ k \in 1 .. 3 + n + 2 /\ k <= 3 + n /\ ~(k <= 3) /\ k - 3 = i
    BY ONLY i \in 1 .. n, n \in Nat
  <2> HIDE DEF k
  <2>2. lines[k] = rows[i]
    BY ONLY <1>6, <1>7, <2>1 DEF Joined
  <2>3. rows[i] = Row(C[i])
    OBVIOUS
  <2> QED
    BY ONLY <2>2, <2>3 DEF k
<1>10. DOMAIN lines = 1 .. n + 5
  <2>1. 3 + n + 2 = n + 5
    BY ONLY n \in Nat
  <2> QED
    BY ONLY <1>7, <2>1, LenProperties DEF Joined
<1>11. Shows(lines, 0, H, C, n)
  <2>1. /\ 0 + n + 5 = n + 5 /\ 0 + 1 = 1 /\ 0 + 2 = 2 /\ 0 + 3 = 3 /\ 0 + n + 4 = n + 4
        /\ \A i \in 1 .. n : 0 + 3 + i = 3 + i
    BY ONLY n \in Nat
  <2>2. \A i \in 1 .. 0 : lines[i] = Text
    OBVIOUS
  <2>3. \A i \in 1 .. n : lines[0 + 3 + i] = Row(C[i])
    BY ONLY <1>9, <2>1
  <2> QED
    BY ONLY <1>8, <1>10, <2>1, <2>2, <2>3, H # <<>> DEF Shows
<1>12. Shows(<<Text>> \o lines, 1, H, C, n)
  <2> DEFINE one == <<Text>>
             all == one \o lines
  <2>1. one \in Seq(S) /\ Len(one) = 1 /\ one[1] = Text
    BY <1>4
  <2> HIDE DEF one
  <2>2. Len(lines) = n + 5
    BY ONLY <1>7, n \in Nat DEF Joined
  <2>3. Joined(all, one, lines, 1, n + 5, S)
    <3>1. lines \in Seq(S)
      BY ONLY <1>7 DEF Joined
    <3> QED
      BY ONLY <2>1, <2>2, <3>1, ConcatJoins
  <2> HIDE DEF all
  <2>4. 1 + (n + 5) = 1 + n + 5
    BY ONLY n \in Nat
  <2>5. all \in Seq(S) /\ Len(all) = 1 + n + 5 /\ \A i \in 1 .. 1 + n + 5 : all[i] = IF i <= 1 THEN one[i] ELSE lines[i - 1]
    BY ONLY <2>3, <2>4 DEF Joined
  <2>6. DOMAIN all = 1 .. 1 + n + 5
    BY ONLY <2>5, LenProperties
  <2>7. ASSUME NEW i \in 1 .. n + 5 PROVE all[1 + i] = lines[i]
    <3> DEFINE k == 1 + i
    <3>1. k \in 1 .. 1 + n + 5 /\ ~(k <= 1) /\ k - 1 = i
      BY ONLY i \in 1 .. n + 5, n \in Nat
    <3> HIDE DEF k
    <3> QED
      BY ONLY <2>5, <3>1 DEF k
  <2>8. all[1] = Text
    <3>1. 1 \in 1 .. 1 + n + 5 /\ 1 <= 1
      BY ONLY n \in Nat
    <3> QED
      BY ONLY <2>1, <2>5, <3>1
  <2>9. \A i \in 1 .. 1 : all[i] = Text
    BY ONLY <2>8
  <2>10. /\ 1 + 1 \in Nat /\ 1 \in 1 .. n + 5 /\ 2 \in 1 .. n + 5 /\ 3 \in 1 .. n + 5
         /\ n + 4 \in 1 .. n + 5 /\ n + 5 \in 1 .. n + 5
         /\ 1 + n + 4 = 1 + (n + 4) /\ 1 + n + 5 = 1 + (n + 5)
    BY ONLY n \in Nat
  <2>11. /\ all[1 + 1] = Delimiter /\ all[1 + 2] = Row(H) /\ all[1 + 3] = Delimiter
         /\ all[1 + n + 4] = Delimiter /\ all[1 + n + 5] = Text
    BY ONLY <1>8, <2>7, <2>10
  <2>12. ASSUME NEW i \in 1 .. n PROVE all[1 + 3 + i] = Row(C[i])
    <3>1. 3 + i \in 1 .. n + 5 /\ 1 + 3 + i = 1 + (3 + i)
      BY ONLY i \in 1 .. n, n \in Nat
    <3>2. all[1 + (3 + i)] = lines[3 + i]
      BY ONLY <2>7, <3>1
    <3>3. lines[3 + i] = Row(C[i])
      BY ONLY <1>9
    <3> QED
      BY ONLY <3>1, <3>2, <3>3
  <2>13. Shows(all, 1, H, C, n)
    BY ONLY <2>6, <2>9, <2>11, <2>12, H # <<>> DEF Shows
  <2> QED
    BY ONLY <2>13 DEF all, one
<1> QED
  BY ONLY <1>11, <1>12 DEF lines

\* Rows start with a key.
LEMMA KeyComesFirst ==
  ASSUME NEW C, NEW item, NEW place, NEW n \in Nat, Fills(C, item, place, n),
         NEW m \in Nat, m = place[n], First(C, m) # <<>>
  PROVE  First(C, m)[1][1] # ""
<1>1. m # 0 /\ place[0] = 0
  <2>1. First(C, 0) = <<>>
    BY ONLY FirstNone
  <2>2. place[0] = 0
    BY Zenon DEF Fills
  <2> QED
    BY ONLY <2>1, <2>2, First(C, m) # <<>>
<1>2. 1 \in 1 .. n /\ 1 - 1 = 0 /\ place[0] + 1 = 1
  BY ONLY <1>1, n \in Nat, m = place[n]
<1>3. item[1].key # "" /\ C[place[1 - 1] + 1] = <<item[1].key, item[1].lines[1]>>
  BY <1>2, Zenon DEF Fills
<1>4. C[1] = <<item[1].key, item[1].lines[1]>>
  BY ONLY <1>2, <1>3
<1>5. First(C, m)[1] = C[1]
  BY ONLY <1>1, m \in Nat DEF First
<1>6. First(C, m)[1][1] = item[1].key
  BY ONLY <1>4, <1>5
<1> QED
  BY ONLY <1>3, <1>6, Zenon

\* details of lib/cli/output_parser.py returns what a command printed of an item, each
\* value with all its lines and in their order, also when text comes first: for every
\* item with distinct keys that are not empty and at least one line for each.
THEOREM DetailsRead ==
  ASSUME NEW K, NEW L, NEW item \in ItemsOf(K, L), Keyed(item, Len(item))
  PROVE  /\ Details(PrintDetails(item)) = [raised |-> "", item |-> About(item, Len(item))]
         /\ Details(<<Text>> \o PrintDetails(item)) = [raised |-> "", item |-> About(item, Len(item))]
<1> DEFINE n == Len(item)
           H == <<"Field", "Value">>
<1>1. n \in Nat
  BY LenProperties DEF ItemsOf
<1> HIDE DEF n
<1>2. PICK place, F : /\ F = FlattenSeq([i \in DOMAIN item |-> Rows(item[i])])
                      /\ F \in Seq(RowsOf(K, L)) /\ Len(F) = place[n]
                      /\ Fills([x \in 1 .. Len(F) |-> F[x].cells], item, place, n)
  <2>1. Len(item) = n
    BY ONLY DEF n
  <2>2. Placed(K, L, item, n)
    BY ONLY <1>1, <2>1, item \in ItemsOf(K, L), RowsFill
  <2> QED
    BY ONLY <2>2, Zenon DEF Placed
<1> DEFINE m == Len(F)
           C == [x \in 1 .. m |-> F[x].cells]
<1>3. m \in Nat /\ m = place[n] /\ Fills(C, item, place, n)
  BY <1>2, LenProperties
<1>4. \A i \in 1 .. m : F[i] = Row(C[i])
  <2> SUFFICES ASSUME NEW i \in 1 .. m PROVE F[i] = Row(C[i])
    OBVIOUS
  <2>1. F[i] \in RowsOf(K, L)
    BY <1>2, ElementOfSeq
  <2>2. PICK c \in (K \union {""}) \X L : F[i] = Row(c)
    BY ONLY <2>1, Zenon DEF RowsOf
  <2>3. C[i] = F[i].cells
    OBVIOUS
  <2>4. Row(c).cells = c
    BY DEF Row, Line
  <2> HIDE DEF C
  <2> QED
    BY ONLY <2>2, <2>3, <2>4
<1> HIDE DEF m, C
<1>5. H # <<>>
  OBVIOUS
<1>6. PrintDetails(item) = Framed(H, F)
  BY <1>2 DEF PrintDetails
<1> HIDE DEF H
<1>7. /\ Shows(PrintDetails(item), 0, H, C, m)
      /\ Shows(<<Text>> \o PrintDetails(item), 1, H, C, m)
  <2>1. F \in Seq(RowsOf(K, L)) /\ Len(F) = m
    BY ONLY <1>2 DEF m
  <2>2. Shows(Framed(H, F), 0, H, C, m) /\ Shows(<<Text>> \o Framed(H, F), 1, H, C, m)
    BY ONLY <1>3, <1>4, <1>5, <2>1, FramedShows
  <2> QED
    BY ONLY <1>6, <2>2
<1>8. Item(First(C, m)) = About(item, n)
  <2>1. Keyed(item, n)
    BY DEF n
  <2> QED
    BY ONLY <1>1, <1>3, <2>1, ItemRead
<1>9. ASSUME NEW lines, NEW p \in Nat, Shows(lines, p, H, C, m)
      PROVE  Details(lines) = [raised |-> "", item |-> About(item, n)]
  <2> DEFINE t == [headers |-> H, values |-> First(C, m)]
             found == Tables(lines)
  <2>1. found = <<t>>
    BY ONLY <1>3, <1>9, TablesRead
  <2>2. ~InvalidStructure(t)
    BY DEF InvalidStructure, Has, H
  <2>3. t.values = First(C, m)
    OBVIOUS
  <2>7. ~KeyError(t)
    <3> HIDE DEF t
    <3>1. First(C, m) # <<>> => First(C, m)[1][1] # ""
      BY ONLY <1>1, <1>3, KeyComesFirst
    <3> QED
      BY ONLY <2>3, <3>1, Zenon DEF KeyError
  <2> HIDE DEF found, t
  <2>4. found # <<>> /\ found[1] = t /\ DOMAIN found = {1}
    BY ONLY <2>1
  <2>5. ~\E i \in DOMAIN found : InvalidStructure(found[i])
    BY ONLY <2>2, <2>4
  <2>8. ~\E i \in DOMAIN found : KeyError(found[i])
    BY ONLY <2>4, <2>7
  <2>6. Details(lines) = [raised |-> "", item |-> Item(found[1].values)]
    BY ONLY <2>4, <2>5, <2>8, Zenon DEF Details, found
  <2> QED
    BY ONLY <1>8, <2>3, <2>4, <2>6, Zenon
<1> QED
  BY ONLY <1>7, <1>9 DEF n

\* A row of a list, under its headers.
Entry(H, cells) ==
  [key \in {H[j] : j \in DOMAIN H} |-> cells[CHOOSE j \in DOMAIN H : H[j] = key]]

\* The rows of a list that is not empty.
LEMMA ListShows ==
  ASSUME NEW T, NEW rows \in Seq(T), rows # <<>>, NEW H, H # <<>>
  PROVE  Shows(PrintList(H, rows), 0, H, rows, Len(rows)) /\ Len(rows) \in Nat
<1> DEFINE n == Len(rows)
           lines == [i \in DOMAIN rows |-> Row(rows[i])]
           S == {Row(r) : r \in T}
<1>1. n \in Nat /\ DOMAIN rows = 1 .. n /\ \A i \in 1 .. n : rows[i] \in T
  BY LenProperties, ElementOfSeq
<1> HIDE DEF n
<1>2. lines \in [1 .. n -> S] /\ \A i \in 1 .. n : lines[i] = Row(rows[i])
  BY ONLY <1>1
<1> HIDE DEF lines, S
<1>3. lines \in Seq(S) /\ Len(lines) = n
  BY ONLY <1>1, <1>2
<1>4. Shows(Framed(H, lines), 0, H, rows, n)
  BY ONLY <1>1, <1>2, <1>3, H # <<>>, FramedShows
<1>5. PrintList(H, rows) = Framed(H, lines)
  BY DEF PrintList, lines
<1> QED
  BY ONLY <1>1, <1>4, <1>5 DEF n

\* What shows a table is one.
LEMMA ShownIsTable ==
  ASSUME NEW lines, NEW H, NEW C, NEW n \in Nat, Shows(lines, 0, H, C, n)
  PROVE  IsTable(lines, H, C, n)
<1>1. /\ 0 + n + 5 = n + 5 /\ 0 + 1 = 1 /\ 0 + 2 = 2 /\ 0 + 3 = 3 /\ 0 + n + 4 = n + 4
      /\ \A i \in 1 .. n : 0 + 3 + i = i + 3
      /\ n + 5 \in Nat /\ n + 3 <= n + 5
  BY ONLY n \in Nat
<1>2. /\ H # <<>> /\ DOMAIN lines = 1 .. n + 5
      /\ lines[1] = Delimiter /\ lines[2] = Row(H) /\ lines[3] = Delimiter
      /\ lines[n + 4] = Delimiter /\ lines[n + 5] = Text
  BY ONLY <1>1, Shows(lines, 0, H, C, n) DEF Shows
<1>3. ASSUME NEW i \in 1 .. n PROVE lines[i + 3] = Row(C[i])
  <2>1. lines[0 + 3 + i] = Row(C[i])
    BY ONLY Shows(lines, 0, H, C, n), i \in 1 .. n DEF Shows
  <2>2. 0 + 3 + i = i + 3
    BY ONLY <1>1, i \in 1 .. n
  <2> QED
    BY ONLY <2>1, <2>2
<1>4. Delimiter.kind # "row" /\ Text.kind # "row"
  BY DEF Delimiter, Text, Line
<1>5. ASSUME NEW i \in DOMAIN lines, n + 4 <= i PROVE lines[i].kind # "row"
  <2>1. i \in 1 .. n + 5
    BY ONLY <1>2, i \in DOMAIN lines
  <2>2. i = n + 4 \/ i = n + 5
    BY ONLY <1>5, <2>1, n \in Nat
  <2> QED
    BY ONLY <1>2, <1>4, <2>2
<1>6. \E N \in Nat : n + 3 <= N /\ DOMAIN lines = 1 .. N
  BY ONLY <1>1, <1>2
<1> QED
  BY ONLY <1>2, <1>3, <1>4, <1>5, <1>6 DEF IsTable

\* A list without rows: a line of text.
LEMMA EmptyList ==
  /\ Table(<<Text>>) = [headers |-> <<>>, values |-> <<>>]
  /\ Tables(<<Text>>) = <<>>
<1> DEFINE lines == <<Text>>
<1>1. DOMAIN lines = 1 .. 1 /\ lines[1] = Text
  OBVIOUS
<1>2. 1 \in Nat /\ 1 \in 1 .. 1 /\ 1 - 1 = 0
  OBVIOUS
<1> HIDE DEF lines
<1>3. Text.kind # "row" /\ Text.kind # "delimiter"
  BY DEF Text, Line
<1>4. PICK h : /\ h[0] = [headers |-> <<>>, values |-> <<>>]
               /\ \A k \in 1 .. 1 : h[k] = TableLine(h[k - 1], lines[k])
               /\ Table(lines) = h[1]
  BY ONLY <1>1, <1>2, TableIs
<1>5. h[1] = TableLine(h[0], Text)
  BY ONLY <1>1, <1>2, <1>4
<1>6. Table(lines) = [headers |-> <<>>, values |-> <<>>]
  BY ONLY <1>3, <1>4, <1>5 DEF TableLine
<1>7. PICK g : /\ g[0] = [start |-> FALSE, header |-> FALSE, table |-> <<>>, tables |-> <<>>]
               /\ \A k \in 1 .. 1 : g[k] = TablesLine(g[k - 1], lines[k])
               /\ Tables(lines) = g[1].tables
  BY ONLY <1>1, <1>2, TablesAre
<1>8. g[1] = TablesLine(g[0], Text)
  BY ONLY <1>1, <1>2, <1>7
<1>9. Outside(g[0], <<>>)
  BY ONLY <1>7 DEF Outside
<1>10. Outside(g[1], <<>>)
  BY ONLY <1>3, <1>8, <1>9, TextSkipped
<1>11. Tables(lines) = <<>>
  BY ONLY <1>7, <1>10 DEF Outside
<1> QED
  BY ONLY <1>6, <1>11 DEF lines

\* listing of lib/cli/output_parser.py returns an entry for each row of a printed list,
\* in their order: for every list with at least one column, an empty list included.
THEOREM ListingRead ==
  ASSUME NEW T, NEW rows \in Seq(T), NEW H, H # <<>>
  PROVE  Listing(PrintList(H, rows)) = [i \in DOMAIN rows |-> Entry(H, rows[i])]
<1> DEFINE lines == PrintList(H, rows)
<1>1. CASE rows = <<>>
  <2>1. lines = <<Text>>
    BY <1>1 DEF PrintList
  <2>2. Table(lines) = [headers |-> <<>>, values |-> <<>>]
    BY ONLY <2>1, EmptyList
  <2>3. Table(lines).values = <<>> /\ DOMAIN <<>> = {}
    BY ONLY <2>2
  <2>4. DOMAIN rows = {}
    BY ONLY <1>1
  <2> HIDE DEF lines
  <2>5. Listing(lines) = [i \in {} |-> Entry(H, rows[i])]
    BY ONLY <2>3 DEF Listing
  <2> QED
    BY ONLY <2>4, <2>5 DEF lines
<1>2. CASE rows # <<>>
  <2> DEFINE n == Len(rows)
  <2>1. Shows(lines, 0, H, rows, n) /\ n \in Nat
    BY <1>2, ListShows
  <2>2. DOMAIN rows = 1 .. n
    BY LenProperties
  <2> HIDE DEF lines, n
  <2>3. IsTable(lines, H, rows, n)
    BY ONLY <2>1, ShownIsTable
  <2>4. Table(lines) = [headers |-> H, values |-> First(rows, n)]
    BY ONLY <2>1, <2>3, TableRead
  <2>5. DOMAIN First(rows, n) = 1 .. n /\ \A i \in 1 .. n : First(rows, n)[i] = rows[i]
    BY DEF First
  <2>6. Table(lines).headers = H /\ Table(lines).values = First(rows, n)
    BY ONLY <2>4
  <2>7. Listing(lines) = [i \in 1 .. n |-> Entry(H, First(rows, n)[i])]
    BY ONLY <2>5, <2>6 DEF Listing, Entry
  <2> QED
    BY ONLY <2>2, <2>5, <2>7 DEF lines
<1> QED
  BY <1>1, <1>2

\* details of lib/cli/output_parser.py raises on every list without a column Value, and on
\* every empty one; it never returns an item that was not printed.
THEOREM ListIsNoItem ==
  ASSUME NEW T, NEW rows \in Seq(T), NEW H, H # <<>>, \A j \in DOMAIN H : H[j] # "Value"
  PROVE  Details(PrintList(H, rows)).raised \in {"InvalidStructure", "IndexError"}
<1> DEFINE lines == PrintList(H, rows)
           found == Tables(lines)
           none == ""
           read == Item(found[1].values)
<1>1. CASE rows = <<>>
  <2>1. lines = <<Text>>
    BY <1>1 DEF PrintList
  <2>2. found = <<>>
    BY ONLY <2>1, EmptyList
  <2>3. DOMAIN found = {}
    BY ONLY <2>2
  <2> HIDE DEF lines
  <2>4. Details(lines) = [raised |-> "IndexError", item |-> <<>>]
    BY ONLY <2>2, <2>3, Zenon DEF Details
  <2>5. Details(lines).raised = "IndexError"
    BY ONLY <2>4
  <2> QED
    BY ONLY <2>5 DEF lines
<1>2. CASE rows # <<>>
  <2> DEFINE t == [headers |-> H, values |-> First(rows, Len(rows))]
  <2>1. Shows(lines, 0, H, rows, Len(rows)) /\ Len(rows) \in Nat
    BY <1>2, ListShows
  <2> HIDE DEF lines, found
  <2>2. found = <<t>>
    <3>1. 0 \in Nat
      OBVIOUS
    <3> QED
      BY ONLY <2>1, <3>1, TablesRead DEF found
  <2>3. InvalidStructure(t)
    BY DEF InvalidStructure, Has
  <2> HIDE DEF t
  <2>4. \E i \in DOMAIN found :
          InvalidStructure(found[i]) /\ \A j \in 1 .. i - 1 : ~KeyError(found[j])
    BY ONLY <2>2, <2>3
  <2>5. Details(lines) = [raised |-> "InvalidStructure", item |-> <<>>]
    BY ONLY <2>4, Zenon DEF Details, found
  <2>6. Details(lines).raised = "InvalidStructure"
    BY ONLY <2>5
  <2> QED
    BY ONLY <2>6 DEF lines
<1> QED
  BY <1>1, <1>2

-----------------------------------------------------------------------------
(* What a command prints of an object is read as what it says of it.       *)

\* A function on 1 .. n is a sequence of its values.
LEMMA ListedSeq ==
  ASSUME NEW n \in Nat, NEW f, f = [i \in 1 .. n |-> f[i]]
  PROVE  f \in Seq({f[i] : i \in 1 .. n})
OBVIOUS

\* The values of the model are sequences of lines, with a line at least.
IsValue(v) == \E n \in Nat : \E L : v \in Seq(L) \ {<<>>} /\ DOMAIN v = 1 .. n

LEMMA ValuesAre == \A value \in Values : IsValue(value)
<1>1. ASSUME NEW a PROVE IsValue(<<a>>)
  <2>1. <<a>> \in Seq({a}) \ {<<>>} /\ DOMAIN <<a>> = 1 .. 1 /\ 1 \in Nat
    OBVIOUS
  <2> QED
    BY <2>1 DEF IsValue
<1>2. ASSUME NEW a, NEW b PROVE IsValue(<<a, b>>)
  <2>1. <<a, b>> \in Seq({a, b}) \ {<<>>} /\ DOMAIN <<a, b>> = 1 .. 2 /\ 2 \in Nat
    OBVIOUS
  <2> QED
    BY <2>1 DEF IsValue
<1> QED
  BY <1>1, <1>2, Zenon DEF Values

\* The item of an object, and what it says.
LEMMA ItemPrints ==
  ASSUME NEW o, NEW value \in Values
  PROVE  /\ \E K, L : ItemOf(o, value) \in ItemsOf(K, L)
         /\ Len(ItemOf(o, value)) = 3
         /\ Keyed(ItemOf(o, value), 3)
         /\ About(ItemOf(o, value), 3) = AboutOf(o, value)
<1> DEFINE item == ItemOf(o, value)
           keys == {"id", "fixed_ips", "name"}
<1>1. PICK n \in Nat : \E L : value \in Seq(L) \ {<<>>} /\ DOMAIN value = 1 .. n
  BY ValuesAre DEF IsValue
<1>10. PICK L : value \in Seq(L) \ {<<>>}
  BY <1>1
<1>2. keys \ {""} = keys
  BY Zenon
<1> DEFINE M == L \union {o, "n"}
<1>3. value \in Seq(M) \ {<<>>}
  <2>1. Seq(L) \subseteq Seq(M)
    BY SeqMonotonic
  <2> QED
    BY ONLY <1>10, <2>1
<1>4. <<o>> \in Seq(M) \ {<<>>} /\ <<"n">> \in Seq(M) \ {<<>>}
  OBVIOUS
<1> HIDE DEF M
<1>5. /\ item[1] = [key |-> "id", lines |-> <<o>>] /\ item[2] = [key |-> "fixed_ips", lines |-> value]
      /\ item[3] = [key |-> "name", lines |-> <<"n">>] /\ Len(item) = 3
  BY DEF ItemOf
<1>6. item \in Seq([key : keys, lines : Seq(M) \ {<<>>}])
  <2> DEFINE S == [key : keys, lines : Seq(M) \ {<<>>}]
  <2>1. /\ [key |-> "id", lines |-> <<o>>] \in S /\ [key |-> "fixed_ips", lines |-> value] \in S
        /\ [key |-> "name", lines |-> <<"n">>] \in S
    BY ONLY <1>3, <1>4
  <2> HIDE DEF S
  <2> QED
    BY ONLY <2>1 DEF ItemOf, S
<1> HIDE DEF item
<1>7. item \in ItemsOf(keys, M)
  <2> HIDE DEF keys
  <2> DEFINE named == keys \ {""}
  <2>1. named = keys
    BY ONLY <1>2 DEF named
  <2> HIDE DEF named
  <2>2. item \in Seq([key : named, lines : Seq(M) \ {<<>>}])
    BY ONLY <1>6, <2>1
  <2> QED
    BY ONLY <2>2, Zenon DEF ItemsOf, named
<1>8. Keyed(item, 3)
  <2>1. 1 .. 3 = {1, 2, 3}
    OBVIOUS
  <2> QED
    BY ONLY <1>5, <2>1 DEF Keyed
<1>9. About(item, 3) = AboutOf(o, value)
  <2>1. 1 .. 3 = {1, 2, 3}
    OBVIOUS
  <2>2. {item[i].key : i \in 1 .. 3} = keys
    BY ONLY <1>5, <2>1
  <2>3. /\ (CHOOSE i \in 1 .. 3 : item[i].key = "id") = 1
        /\ (CHOOSE i \in 1 .. 3 : item[i].key = "fixed_ips") = 2
        /\ (CHOOSE i \in 1 .. 3 : item[i].key = "name") = 3
    BY ONLY <1>5, <2>1
  <2>4. About(item, 3) = [key \in keys |-> item[CHOOSE i \in 1 .. 3 : item[i].key = key].lines]
    BY ONLY <2>2 DEF About
  <2>5. /\ About(item, 3)["id"] = <<o>> /\ About(item, 3)["fixed_ips"] = value
        /\ About(item, 3)["name"] = <<"n">>
    BY ONLY <1>5, <2>3, <2>4
  <2>6. About(item, 3) = [key \in keys |-> About(item, 3)[key]]
    BY ONLY <2>4
  <2> HIDE DEF item
  <2> QED
    BY ONLY <2>5, <2>6 DEF AboutOf
<1> QED
  BY ONLY <1>5, <1>7, <1>8, <1>9 DEF item

\* What a command prints of an object is read as what it says of it.
LEMMA ObjectRead ==
  ASSUME NEW o, NEW value \in Values
  PROVE  /\ Details(PrintDetails(ItemOf(o, value))) = [raised |-> "", item |-> AboutOf(o, value)]
         /\ Details(<<Text>> \o PrintDetails(ItemOf(o, value)))
              = [raised |-> "", item |-> AboutOf(o, value)]
<1> DEFINE item == ItemOf(o, value)
<1>1. PICK K, L : item \in ItemsOf(K, L)
  BY ItemPrints
<1>2. Len(item) = 3 /\ Keyed(item, 3) /\ About(item, 3) = AboutOf(o, value)
  BY ItemPrints
<1> HIDE DEF item
<1>3. Keyed(item, Len(item))
  BY ONLY <1>2
<1>4. /\ Details(PrintDetails(item)) = [raised |-> "", item |-> About(item, Len(item))]
      /\ Details(<<Text>> \o PrintDetails(item)) = [raised |-> "", item |-> About(item, Len(item))]
  BY ONLY <1>1, <1>3, DetailsRead
<1>5. About(item, Len(item)) = AboutOf(o, value)
  BY ONLY <1>2
<1> QED
  BY ONLY <1>4, <1>5, Zenon DEF item

\* An output is read as printed when it raises or gives what was printed.
LEMMA AnswerRead ==
  ASSUME NEW printed, NEW read, NEW raised, raised # "" \/ read = printed
  PROVE  Answer(printed, read, raised).is_printed
<1>1. ASSUME NEW none, raised # none \/ read = printed
      PROVE  [raised |-> raised, is_printed |-> (raised = none => read = printed)].is_printed
  BY ONLY <1>1
<1> QED
  BY <1>1, Zenon DEF Answer

LEMMA SilenceRead == Silence.is_printed
BY AnswerRead DEF Silence

\* What is read of what a command prints of an object, or of a list of its rows.
LEMMA AskedRead ==
  ASSUME NEW c, NEW value \in Values
  PROVE  Asked(c, value).is_printed
<1> DEFINE H == <<"id", "fixed_ips">>
           row(i) == <<IF i = 1 THEN c.object ELSE "", value[i]>>
           rows == IF Sees(c.object, me) THEN [i \in DOMAIN value |-> row(i)] ELSE <<>>
           printed == [i \in DOMAIN rows |-> [id |-> rows[i][1], fixed_ips |-> rows[i][2]]]
           details == Details(IF c.prints = "details" THEN PrintDetails(ItemOf(c.object, value))
                              ELSE PrintList(H, rows))
<1>1. PICK n \in Nat : DOMAIN value = 1 .. n
  BY ValuesAre DEF IsValue
<1> HIDE DEF row
<1>2. \E T : rows \in Seq(T)
  <2>1. CASE Sees(c.object, me)
    <3> DEFINE all == [i \in 1 .. n |-> row(i)]
    <3>1. rows = all
      BY ONLY <1>1, <2>1
    <3>2. all \in Seq({row(i) : i \in 1 .. n})
      BY ONLY n \in Nat
    <3> HIDE DEF all, rows
    <3> QED
      BY ONLY <3>1, <3>2
  <2>2. CASE ~Sees(c.object, me)
    <3>1. rows = <<>>
      BY ONLY <2>2
    <3> QED
      BY ONLY <3>1, EmptySeq
  <2> QED
    BY ONLY <2>1, <2>2
<1>3. PICK T : rows \in Seq(T)
  BY ONLY <1>2
<1> HIDE DEF rows
<1>4. H # <<>> /\ (\A j \in DOMAIN H : H[j] # "Value")
  OBVIOUS
<1>5. Listing(PrintList(H, rows)) = printed
  <2>1. Listing(PrintList(H, rows)) = [i \in DOMAIN rows |-> Entry(H, rows[i])]
    BY ONLY <1>3, <1>4, ListingRead
  <2>2. ASSUME NEW cells PROVE Entry(H, cells) = [id |-> cells[1], fixed_ips |-> cells[2]]
    <3>1. DOMAIN H = {1, 2} /\ H[1] = "id" /\ H[2] = "fixed_ips"
      OBVIOUS
    <3> HIDE DEF H
    <3>2. {H[j] : j \in DOMAIN H} = {"id", "fixed_ips"}
      BY ONLY <3>1
    <3>3. /\ (CHOOSE j \in DOMAIN H : H[j] = "id") = 1
          /\ (CHOOSE j \in DOMAIN H : H[j] = "fixed_ips") = 2
      BY ONLY <3>1
    <3>4. Entry(H, cells) = [key \in {"id", "fixed_ips"} |-> cells[CHOOSE j \in DOMAIN H : H[j] = key]]
      BY ONLY <3>2 DEF Entry
    <3> QED
      BY ONLY <3>3, <3>4
  <2> HIDE DEF H
  <2> QED
    BY ONLY <2>1, <2>2
<1>6. \/ details.raised # ""
      \/ details.item = AboutOf(c.object, value)
  <2>1. CASE c.prints = "details"
    <3>1. Details(PrintDetails(ItemOf(c.object, value))) = [raised |-> "", item |-> AboutOf(c.object, value)]
      BY ObjectRead
    <3>2. ASSUME NEW none, NEW x, NEW about, x = [raised |-> none, item |-> about] PROVE x.item = about
      BY ONLY <3>2
    <3>3. Details(PrintDetails(ItemOf(c.object, value))).item = AboutOf(c.object, value)
      BY ONLY <3>1, <3>2, Zenon
    <3>4. details = Details(PrintDetails(ItemOf(c.object, value)))
      BY ONLY <2>1
    <3> HIDE DEF details
    <3> QED
      BY ONLY <3>3, <3>4, Zenon
  <2>2. CASE c.prints # "details"
    <3>1. Details(PrintList(H, rows)).raised \in {"InvalidStructure", "IndexError"}
      BY ONLY <1>3, <1>4, ListIsNoItem
    <3>2. details = Details(PrintList(H, rows))
      BY ONLY <2>2
    <3> HIDE DEF details, H
    <3> QED
      BY ONLY <3>1, <3>2, Zenon
  <2> QED
    BY ONLY <2>1, <2>2
<1>7. Asked(c, value) = IF c.reads = "listing"
                        THEN Answer(printed, Listing(PrintList(H, rows)), "")
                        ELSE Answer(AboutOf(c.object, value), details.item, details.raised)
  BY ONLY Zenon DEF Asked, rows, row
<1> HIDE DEF printed, details, H
<1>8. Answer(printed, Listing(PrintList(H, rows)), "").is_printed
  BY ONLY <1>5, AnswerRead, Zenon
<1>9. Answer(AboutOf(c.object, value), details.item, details.raised).is_printed
  BY ONLY <1>6, AnswerRead, Zenon
<1> QED
  BY ONLY <1>7, <1>8, <1>9, Zenon

\* No command's output is misread: created objects and what is asked for.
LEMMA PrintedIsReadNext == PrintedIsRead /\ [Next]_vars => PrintedIsRead'
<1> SUFFICES ASSUME PrintedIsRead, [Next]_vars PROVE PrintedIsRead'
  OBVIOUS
<1>1. ASSUME response' = response PROVE PrintedIsRead'
  BY <1>1 DEF PrintedIsRead
<1>2. ASSUME response' = Silence PROVE PrintedIsRead'
  BY <1>2, SilenceRead DEF PrintedIsRead
<1>3. ASSUME NEW c \in CreateCommands, Create(c) PROVE PrintedIsRead'
  <2>1. ASSUME NEW value \in Values,
               response' = Answer(AboutOf(c.object, value),
                                  Details(<<Text>> \o PrintDetails(ItemOf(c.object, value))).item,
                                  Details(<<Text>> \o PrintDetails(ItemOf(c.object, value))).raised)
        PROVE  PrintedIsRead'
    <3> DEFINE parsed == Details(<<Text>> \o PrintDetails(ItemOf(c.object, value)))
    <3>1. parsed = [raised |-> "", item |-> AboutOf(c.object, value)]
      BY ObjectRead
    <3>2. ASSUME NEW none, NEW x, NEW about, x = [raised |-> none, item |-> about] PROVE x.item = about
      BY ONLY <3>2
    <3>3. parsed.item = AboutOf(c.object, value)
      BY ONLY <3>1, <3>2, Zenon
    <3>4. Answer(AboutOf(c.object, value), parsed.item, parsed.raised).is_printed
      BY ONLY <3>3, AnswerRead
    <3> QED
      BY ONLY <2>1, <3>4 DEF PrintedIsRead
  <2> QED
    BY <1>2, <1>3, <2>1 DEF Create
<1>4. ASSUME NEW c \in AskCommands, Ask(c) PROVE PrintedIsRead'
  <2>1. ASSUME NEW value \in Values, response' = Asked(c, value) PROVE PrintedIsRead'
    BY <2>1, AskedRead DEF PrintedIsRead
  <2> QED
    BY <1>2, <1>4, <2>1 DEF Ask
<1>5. CASE \E o \in Made : DeleteInBody(o) \/ \E by \in {"me", "admin"} : HandOver(o, by)
  BY <1>2, <1>5 DEF DeleteInBody, HandOver
<1>6. CASE \E s \in Subnets : add_router_interface_with_args(s)
  BY <1>2, <1>6 DEF add_router_interface_with_args
<1>7. CASE CreateProject \/ CreateUser \/ AssignRole
  BY <1>1, <1>7 DEF CreateProject, CreateUser, AssignRole
<1>8. CASE SwitchRole \/ EndTest \/ NextTest \/ EndClass
  BY <1>2, <1>8 DEF SwitchRole, EndTest, NextTest, EndClass
<1>9. CASE RunCleanup \/ DeleteUser \/ DeleteProject \/ \E o \in Cleaned : CleanListed(o)
  BY <1>1, <1>9 DEF RunCleanup, DeleteUser, DeleteProject, CleanListed
<1>10. CASE UNCHANGED vars
  BY <1>1, <1>10 DEF vars
<1> QED
  BY <1>3, <1>4, <1>5, <1>6, <1>7, <1>8, <1>9, <1>10 DEF Next

-----------------------------------------------------------------------------
(* A tidy class.                                                           *)

\* What is listed or registered was made, is not both, and is registered once; what is
\* on a cleaned list is watched.
Accounted ==
  /\ listed \union Registered \subseteq made
  /\ listed \intersect Registered = {}
  /\ listed \intersect Cleaned \subseteq watched
  /\ \A i, j \in DOMAIN cleanups : cleanups[i].object = cleanups[j].object => i = j

\* What is on a cleaned list is there, and what is there of its kind is due.
ListedIsThere ==
  /\ listed \intersect Cleaned \subseteq live
  /\ live \intersect Cleaned \subseteq listed \union Registered

\* What a test's cleanups delete is seen, and nothing stands on it but what goes first.
Deletable(i) ==
  /\ Sees(cleanups[i].object, RunsAs(cleanups[i].by))
  /\ Users(cleanups[i].object) \subseteq RegisteredAfter(i)
InOrder == phase = "ending" => \A i \in DOMAIN cleanups : Deletable(i)

TidyInv ==
  /\ Accounted
  /\ reported => excused
  /\ ~excused => ListedIsThere /\ InOrder

LEMMA TidyInvInit == Init => TidyInv
<1> SUFFICES ASSUME Init PROVE TidyInv
  OBVIOUS
<1>1. cleanups = <<>> /\ Registered = {} /\ listed = {} /\ live = {} /\ ~reported
  BY DEF Init, Registered
<1> QED
  BY <1>1 DEF TidyInv, Accounted, ListedIsThere, InOrder

LEMMA CleanedAre == Cleaned = {"port", "router", "subnet4", "subnet6", "network"}
<1>1. 1 .. 4 = {1, 2, 3, 4}
  OBVIOUS
<1> QED
  BY <1>1 DEF Cleaned, CleanedLists, Subnets

\* An object of a cleaned list is put on it where it is made.
LEMMA CleanedOnList ==
  ASSUME NEW c \in CreateCommands
  PROVE  c.on_list \in BOOLEAN /\ (c.object \in Cleaned => c.on_list)
<1>1. ASSUME NEW S, NEW on_list \in BOOLEAN, S \intersect Cleaned = {} \/ on_list, c \in Creates(S, on_list)
      PROVE  c.on_list \in BOOLEAN /\ (c.object \in Cleaned => c.on_list)
  BY ONLY <1>1 DEF Creates
<1>2. ASSUME NEW S, c \in Creates(S, TRUE)
      PROVE  c.on_list \in BOOLEAN /\ (c.object \in Cleaned => c.on_list)
  BY ONLY <1>2 DEF Creates
<1>3. ASSUME NEW S, S \intersect Cleaned = {}, c \in Creates(S, FALSE)
      PROVE  c.on_list \in BOOLEAN /\ (c.object \in Cleaned => c.on_list)
  BY ONLY <1>3 DEF Creates
<1>4. \/ \E S \in {{"network"}, {"subnet4", "subnet6"}, {"router"}, {"port"}, {"floating_ip"},
                   {"security_group"}, {"rule"}, {"vm"}} : c \in Creates(S, TRUE)
      \/ \E S \in {{"l2bridge"}, {"redirect_target"}, {"rt_rule"}, {"netpartition"}, {"mapping"}} :
           c \in Creates(S, FALSE)
  BY Zenon DEF CreateCommands, create_network_with_args, create_subnet_with_args, create_router_with_args,
         create_port_with_args, create_floating_ip_with_args, create_security_group_with_args,
         create_security_group_rule_with_args, create_vm_with_args, create_nuage_l2bridge_cli,
         create_redirect_target_with_args, create_redirect_target_in_l2_subnet,
         create_redirect_target_in_l3_subnet, create_redirect_target_rule_with_args,
         create_nuage_netpartition_cli, create_nuage_project_netpartition_mapping_cli
<1>5. \A S \in {{"l2bridge"}, {"redirect_target"}, {"rt_rule"}, {"netpartition"}, {"mapping"}} :
        S \intersect Cleaned = {}
  BY CleanedAre
<1> QED
  BY <1>2, <1>3, <1>4, <1>5

\* A command that creates leaves its object on its list, or the test with an excuse.
LEMMA CreateLists ==
  ASSUME NEW c \in CreateCommands, Create(c)
  PROVE  /\ phase = "body" /\ phase' \in {"body", "raised"} /\ c.object \notin made
         /\ UNCHANGED <<me, cleanups, reported>>
         /\ \/ UNCHANGED <<made, live, listed, watched, excused>>
            \/ /\ made' = made \union {c.object} /\ live' = live \union {c.object}
               /\ \/ excused' /\ UNCHANGED <<listed, watched>>
                  \/ ~c.on_list /\ UNCHANGED <<listed, watched, excused>>
                  \/ /\ UNCHANGED excused
                     /\ listed' = listed \union IF c.on_list THEN {c.object} ELSE {}
                     /\ watched' = watched \union (listed' \intersect Cleaned)
<1>1. ASSUME NEW value \in Values
      PROVE  Details(<<Text>> \o PrintDetails(ItemOf(c.object, value))).item["id"][1] = c.object
  <2> DEFINE parsed == Details(<<Text>> \o PrintDetails(ItemOf(c.object, value)))
  <2>1. parsed = [raised |-> "", item |-> AboutOf(c.object, value)]
    BY ObjectRead
  <2>2. ASSUME NEW none, NEW x, NEW about, x = [raised |-> none, item |-> about] PROVE x.item = about
    BY ONLY <2>2
  <2>3. parsed.item = AboutOf(c.object, value)
    BY ONLY <2>1, <2>2, Zenon
  <2> HIDE DEF parsed
  <2>4. parsed.item["id"][1] = c.object
    BY ONLY <2>3 DEF AboutOf
  <2> QED
    BY ONLY <2>4 DEF parsed
<1> DEFINE id(value) == Details(<<Text>> \o PrintDetails(ItemOf(c.object, value))).item["id"][1]
<1>2. ASSUME NEW value \in Values PROVE id(value) = c.object
  BY ONLY <1>1
<1>3. /\ phase = "body" /\ phase' \in {"body", "raised"} /\ c.object \notin made
      /\ UNCHANGED <<me, cleanups, reported>>
  BY DEF Create
<1>4. \/ UNCHANGED <<made, live, listed, watched, excused>>
      \/ /\ made' = made \union {c.object} /\ live' = live \union {c.object}
         /\ \/ excused' = TRUE /\ UNCHANGED <<listed, watched>>
            \/ c \in create_nuage_l2bridge_cli /\ UNCHANGED <<listed, watched, excused>>
            \/ /\ UNCHANGED excused
               /\ \E value \in Values : listed' = listed \union IF c.on_list THEN {id(value)} ELSE {}
               /\ watched' = watched \union (listed' \intersect Cleaned)
  BY Zenon DEF Create, cloud
<1>5. c \in create_nuage_l2bridge_cli => ~c.on_list
  BY DEF create_nuage_l2bridge_cli, Creates
<1> HIDE DEF id
<1> QED
  BY ONLY <1>2, <1>3, <1>4, <1>5

LEMMA TidyInvCreate ==
  ASSUME CleanInv, TidyInv, NEW c \in CreateCommands, Create(c)
  PROVE  TidyInv'
<1>1. c.on_list \in BOOLEAN /\ (c.object \in Cleaned => c.on_list)
  BY CleanedOnList
<1> DEFINE o == c.object
           on == c.on_list
<1>2. /\ phase' # "ending" /\ o \notin made /\ cleanups' = cleanups /\ reported' = reported
      /\ \/ UNCHANGED <<made, live, listed, watched, excused>>
         \/ /\ made' = made \union {o} /\ live' = live \union {o}
            /\ \/ excused' /\ UNCHANGED <<listed, watched>>
               \/ ~on /\ UNCHANGED <<listed, watched, excused>>
               \/ /\ UNCHANGED excused
                  /\ listed' = listed \union IF on THEN {o} ELSE {}
                  /\ watched' = watched \union (listed' \intersect Cleaned)
  BY CreateLists
<1>3. on \in BOOLEAN /\ (o \in Cleaned => on)
  BY ONLY <1>1
<1> HIDE DEF o, on
<1>4. Registered' = Registered
  BY <1>2 DEF Registered
<1>5. Accounted'
  BY <1>2, <1>3, <1>4 DEF TidyInv, Accounted
<1>6. reported' => excused'
  <2>1. (reported => excused) /\ reported' = reported
    BY <1>2 DEF TidyInv
  <2>2. excused' \/ excused' = excused
    BY ONLY <1>2
  <2> QED
    BY ONLY <2>1, <2>2
<1>7. ~excused' => ListedIsThere'
  BY <1>2, <1>3, <1>4 DEF TidyInv, ListedIsThere
<1> QED
  BY <1>2, <1>5, <1>6, <1>7 DEF TidyInv, InOrder

LEMMA TidyInvHandOver ==
  ASSUME CleanInv, TidyInv, NEW o \in Made, NEW by \in {"me", "admin"}, HandOver(o, by)
  PROVE  TidyInv'
<1> DEFINE d == [object |-> o, by |-> by]
           n == Len(cleanups)
<1>1. /\ phase = "body" /\ phase' = phase /\ o \in live /\ o \notin Registered
      /\ cleanups' = Append(cleanups, d) /\ listed' = listed \ {o}
      /\ watched' = watched \union {o} /\ reported' = reported /\ excused' = excused
      /\ live' = live /\ made' = made
  BY DEF HandOver, cloud, Registered
<1>2. cleanups \in Seq(Deletions) /\ live \subseteq made /\ CleanInv'
  BY CleanInvHandOver DEF CleanInv
<1>3. cleanups' \in Seq(Deletions)
  BY <1>2 DEF CleanInv
<1>4. /\ n \in Nat /\ DOMAIN cleanups = 1 .. n /\ DOMAIN cleanups' = 1 .. n + 1
      /\ \A i \in 1 .. n : cleanups'[i] = cleanups[i]
      /\ cleanups'[n + 1] = d /\ d.object = o
  BY <1>1, <1>2
<1> HIDE DEF d, n
<1>5. Registered' = Registered \union {o}
  BY ONLY <1>4 DEF Registered
<1>6. ASSUME NEW i \in DOMAIN cleanups', NEW j \in DOMAIN cleanups',
             cleanups'[i].object = cleanups'[j].object
      PROVE  i = j
  <2>1. \A k \in 1 .. n : cleanups[k].object \in Registered /\ cleanups[k].object # o
    BY ONLY <1>1, <1>4 DEF Registered
  <2>2. \A k, l \in 1 .. n : cleanups[k].object = cleanups[l].object => k = l
    BY ONLY TidyInv, <1>4 DEF TidyInv, Accounted
  <2>3. (i \in 1 .. n \/ i = n + 1) /\ (j \in 1 .. n \/ j = n + 1)
    BY ONLY <1>4, i \in DOMAIN cleanups', j \in DOMAIN cleanups'
  <2> QED
    BY ONLY <1>4, <1>6, <2>1, <2>2, <2>3
<1>7. Accounted'
  BY <1>1, <1>2, <1>5, <1>6 DEF TidyInv, Accounted
<1>8. ~excused' => ListedIsThere'
  BY <1>1, <1>5 DEF TidyInv, ListedIsThere
<1> QED
  BY <1>1, <1>7, <1>8 DEF TidyInv, InOrder

LEMMA TidyInvDeleteInBody ==
  ASSUME CleanInv, TidyInv, NEW o \in Made, DeleteInBody(o)
  PROVE  TidyInv'
<1>1. PICK ok \in BOOLEAN : /\ live' = live \ Deleted(o, ok)
                            /\ ~excused' => ~excused /\ Deleted(o, ok) \intersect watched = {}
  BY DEF DeleteInBody, Delete
<1>2. /\ phase' # "ending"
      /\ UNCHANGED <<listed, cleanups, reported, watched, made>>
      /\ excused => excused'
  BY DEF DeleteInBody, Delete, lists
<1>3. Registered' = Registered
  BY <1>2 DEF Registered
<1>4. Accounted'
  BY <1>2, <1>3 DEF TidyInv, Accounted
<1>5. ~excused' => ListedIsThere'
  BY <1>1, <1>2, <1>3 DEF TidyInv, ListedIsThere, Accounted
<1> QED
  BY <1>2, <1>4, <1>5 DEF TidyInv, InOrder

\* The steps that leave the lists and the objects alone.
LEMMA TidyInvCalm ==
  ASSUME CleanInv, TidyInv, UNCHANGED <<listed, cleanups, made, live, watched>>,
         excused => excused', reported' => reported \/ excused', InOrder' \/ excused'
  PROVE  TidyInv'
<1>1. Registered' = Registered
  BY DEF Registered
<1>2. Accounted'
  BY <1>1 DEF TidyInv, Accounted
<1>3. ~excused' => ListedIsThere'
  BY <1>1 DEF TidyInv, ListedIsThere
<1> QED
  BY <1>2, <1>3 DEF TidyInv

LEMMA TidyInvQuiet ==
  ASSUME CleanInv, TidyInv,
         \/ CreateProject \/ CreateUser \/ AssignRole
         \/ \E s \in Subnets : add_router_interface_with_args(s)
         \/ \E c \in AskCommands : Ask(c)
         \/ SwitchRole \/ NextTest \/ EndClass \/ DeleteUser \/ DeleteProject
  PROVE  TidyInv'
<1>1. /\ UNCHANGED <<listed, cleanups, made, live, watched>>
      /\ (excused => excused') /\ (reported' => reported \/ excused')
      /\ phase' # "ending"
  <2>1. CASE CreateProject
    BY <2>1 DEF CreateProject, lists, cloud
  <2>2. CASE CreateUser
    BY <2>2 DEF CreateUser, lists, cloud
  <2>3. CASE AssignRole
    BY <2>3 DEF AssignRole, lists, cloud
  <2>4. CASE \E s \in Subnets : add_router_interface_with_args(s)
    BY <2>4 DEF add_router_interface_with_args, lists, history
  <2>5. CASE \E c \in AskCommands : Ask(c)
    <3>1. ASSUME NEW c \in AskCommands, Ask(c) PROVE phase' \in {"body", "raised"} /\ UNCHANGED <<lists, cloud, reported, history>>
      BY <3>1 DEF Ask
    <3> QED
      BY <2>5, <3>1 DEF lists, cloud, history
  <2>6. CASE SwitchRole \/ NextTest \/ EndClass
    BY <2>6 DEF SwitchRole, NextTest, EndClass, lists, cloud, history
  <2>7. CASE DeleteUser
    BY <2>7 DEF DeleteUser, lists, cloud
  <2>8. CASE DeleteProject
    BY <2>8 DEF DeleteProject, lists, cloud
  <2> QED
    BY <2>1, <2>2, <2>3, <2>4, <2>5, <2>6, <2>7, <2>8
<1> QED
  BY <1>1, TidyInvCalm DEF InOrder

LEMMA TidyInvEndTest ==
  ASSUME CleanInv, TidyInv, EndTest
  PROVE  TidyInv'
<1>1. /\ UNCHANGED <<listed, cleanups, made, live, watched, me, admins, addressed, interfaces>>
      /\ (excused => excused') /\ (reported' => reported) /\ (OutOfOrder => excused')
  BY DEF EndTest, lists, cloud
<1>2. ~OutOfOrder => InOrder'
  <2>1. ASSUME ~OutOfOrder, NEW i \in DOMAIN cleanups PROVE Deletable(i)'
    <3>1. Deletable(i)
      BY <2>1 DEF OutOfOrder, Deletable
    <3> QED
      BY ONLY <1>1, <3>1 DEF Deletable, Sees, RunsAs, Users, InUse, RegisteredAfter
  <2> QED
    BY <1>1, <2>1 DEF InOrder
<1> QED
  BY <1>1, <1>2, TidyInvCalm

\* What is used has a user that is there, or a router.
LEMMA UsedHasUsers ==
  ASSUME NEW o, InUse(o)
  PROVE  Users(o) # {}
BY DEF InUse, Users

LEMMA TidyInvRunCleanup ==
  ASSUME CleanInv, TidyInv, RunCleanup
  PROVE  TidyInv'
<1> DEFINE n == Len(cleanups)
           c == cleanups[n]
           o == c.object
<1>1. /\ phase = "ending" /\ cleanups # <<>> /\ cleanups' = Front(cleanups)
      /\ UNCHANGED <<phase, me, listed, watched, made, admins, addressed, interfaces>>
  BY DEF RunCleanup, Delete
<1>2. /\ cleanups \in Seq(Deletions) /\ n \in Nat \ {0} /\ DOMAIN cleanups = 1 .. n
      /\ n \in DOMAIN cleanups /\ Last(cleanups) = c /\ c \in Deletions
  BY <1>1, EmptySeq, LenProperties, ElementOfSeq DEF CleanInv, Last
<1>3. /\ DOMAIN cleanups' = 1 .. n - 1 /\ Len(cleanups') = n - 1
      /\ \A i \in 1 .. n - 1 : cleanups'[i] = cleanups[i]
  BY <1>1, <1>2, SubSeqProperties, LenProperties, SubSeqEmpty DEF Front
<1>4. PICK ok \in BOOLEAN : /\ ok \in Answers(o, RunsAs(c.by))
                            /\ live' = live \ Deleted(o, ok)
                            /\ excused' = (excused \/ (~ok /\ TRUE \in Answers(o, RunsAs(c.by))))
                            /\ reported' = (reported \/ ~ok)
  BY <1>2 DEF RunCleanup, Delete, CommandFailed
<1> HIDE DEF n, c, o
<1>5. \A i, j \in 1 .. n : cleanups[i].object = cleanups[j].object => i = j
  BY ONLY TidyInv, <1>2 DEF TidyInv, Accounted
<1>6. /\ Registered' \subseteq Registered /\ Registered \subseteq Registered' \union {o}
      /\ o \in Registered /\ o # "router"
  <2>1. cleanups[n] = c /\ c.object = o
    BY DEF c, o
  <2>2. \A i \in 1 .. n : i = n \/ i \in 1 .. n - 1
    BY ONLY <1>2
  <2>3. 1 .. n - 1 \subseteq 1 .. n
    BY ONLY <1>2
  <2>4. o # "router"
    BY ONLY <1>2, <2>1, Companions
  <2> QED
    BY ONLY <1>2, <1>3, <2>1, <2>2, <2>3, <2>4 DEF Registered
<1>7. Accounted'
  <2>1. \A i, j \in 1 .. n - 1 : cleanups'[i].object = cleanups'[j].object => i = j
    <3>1. 1 .. n - 1 \subseteq 1 .. n
      BY ONLY <1>2
    <3> QED
      BY ONLY <1>3, <1>5, <3>1
  <2>2. DOMAIN cleanups' = 1 .. n - 1
    BY ONLY <1>3
  <2>3. /\ listed' \union Registered' \subseteq made' /\ listed' \intersect Registered' = {}
        /\ listed' \intersect Cleaned \subseteq watched'
    BY ONLY TidyInv, <1>1, <1>6 DEF TidyInv, Accounted
  <2> QED
    BY ONLY <2>1, <2>2, <2>3 DEF Accounted
<1>8. ASSUME ~excused'
      PROVE  /\ ok /\ ListedIsThere' /\ InOrder'
  <2>1. ~excused /\ ListedIsThere /\ \A i \in DOMAIN cleanups : Deletable(i)
    BY ONLY TidyInv, <1>1, <1>4, <1>8 DEF TidyInv, InOrder
  <2>2. RegisteredAfter(n) = {}
    BY ONLY <1>2 DEF RegisteredAfter, n
  <2>3. Sees(o, RunsAs(c.by)) /\ Users(o) = {}
    BY ONLY <1>2, <2>1, <2>2 DEF Deletable, c, o
  <2>4. ~InUse(o) /\ GoesWith(o) \intersect live = {}
    BY ONLY <2>3, UsedHasUsers DEF Users
  <2>5. ok
    BY ONLY <1>4, <1>8, <2>3, <2>4 DEF Answers
  <2>6. live' = live \ {o}
    BY ONLY <1>4, <2>4, <2>5 DEF Deleted
  <2>7. o \notin listed
    BY ONLY TidyInv, <1>6 DEF TidyInv, Accounted
  <2>8. ListedIsThere'
    BY ONLY <1>1, <1>6, <2>1, <2>6, <2>7 DEF ListedIsThere
  <2>9. ASSUME NEW i \in 1 .. n - 1 PROVE Deletable(i)'
    <3> DEFINE x == cleanups[i].object
               by == RunsAs(cleanups[i].by)
    <3>1. i \in 1 .. n /\ i # n
      BY ONLY <1>2, i \in 1 .. n - 1
    <3>2. x # o
      BY ONLY <1>2, <1>5, <3>1 DEF o, c
    <3>3. Deletable(i)
      BY ONLY <1>2, <2>1, <3>1
    <3>4. cleanups'[i] = cleanups[i]
      BY ONLY <1>3, i \in 1 .. n - 1
    <3>5. Sees(x, by)'
      BY ONLY <1>1, <2>6, <3>2, <3>3, <3>4 DEF Deletable, Sees, RunsAs
    <3> HIDE DEF x, by
    <3>6. Users(x)' \subseteq Users(x) \ {o}
      <4>1. x' = x
        BY ONLY <3>4 DEF x
      <4>2. InUse(x)' => InUse(x)
        BY ONLY <1>1, <2>6, <4>1 DEF InUse
      <4>3. (GoesWith(x) \intersect live)' \subseteq (GoesWith(x) \intersect live) \ {o}
        BY ONLY <2>6, <4>1 DEF GoesWith
      <4> QED
        BY ONLY <1>1, <1>6, <2>6, <4>1, <4>2, <4>3 DEF Users
    <3>7. RegisteredAfter(i) \subseteq RegisteredAfter(i)' \union {o}
      <4>1. \A j \in i + 1 .. n : j = n \/ (j \in i + 1 .. n - 1 /\ j \in 1 .. n - 1)
        BY ONLY <1>2, i \in 1 .. n - 1
      <4>2. Len(cleanups) = n /\ cleanups[n].object = o
        BY ONLY DEF n, o, c
      <4> QED
        BY ONLY <1>3, <4>1, <4>2 DEF RegisteredAfter
    <3>8. Users(x) \subseteq RegisteredAfter(i)
      BY ONLY <3>3 DEF Deletable, x
    <3>9. Users(x)' \subseteq RegisteredAfter(i)'
      BY ONLY <3>6, <3>7, <3>8
    <3> QED
      BY ONLY <3>5, <3>9 DEF Deletable, x, by
  <2>10. InOrder'
    BY ONLY <1>3, <2>9 DEF InOrder
  <2> QED
    BY ONLY <2>5, <2>8, <2>10
<1>9. reported' => excused'
  BY ONLY TidyInv, <1>4, <1>8 DEF TidyInv
<1> QED
  BY ONLY <1>7, <1>8, <1>9 DEF TidyInv

\* What the next list holds: its object is the last of its users to be there.
LEMMA NextIsFree ==
  ASSUME CleanInv, TidyInv, ~excused, phase = "cleanup", ~NothingListed,
         NEW o \in Cleaned, o \in NextList
  PROVE  /\ o \in listed /\ o \in live
         /\ ~InUse(o) \/ o = "router"
         /\ GoesWith(o) \intersect listed = {}
<1>1. Registered = {}
  BY DEF CleanInv, Ordered, Registered
<1>2. listed \intersect Cleaned \subseteq live /\ live \intersect Cleaned \subseteq listed
  BY <1>1 DEF TidyInv, ListedIsThere
<1> DEFINE first(n) == /\ CleanedLists[n] \intersect listed # {}
                       /\ \A m \in 1 .. n - 1 : CleanedLists[m] \intersect listed = {}
<1>3. /\ CleanedLists[1] = {"port"} /\ CleanedLists[2] = {"router"}
      /\ CleanedLists[3] = {"subnet4", "subnet6"} /\ CleanedLists[4] = {"network"}
      /\ 1 .. 4 = {1, 2, 3, 4}
  BY DEF CleanedLists, Subnets
<1>4. /\ 1 .. 1 - 1 = {} /\ 1 .. 2 - 1 = {1} /\ 1 .. 3 - 1 = {1, 2} /\ 1 .. 4 - 1 = {1, 2, 3}
  OBVIOUS
<1>5. \E n \in 1 .. 4 : first(n)
  <2>1. "port" \in listed \/ "router" \in listed \/ "subnet4" \in listed \/ "subnet6" \in listed
        \/ "network" \in listed
    BY CleanedAre DEF NothingListed
  <2> QED
    BY ONLY <1>3, <1>4, <2>1
<1>6. PICK i \in 1 .. 4 : NextList = CleanedLists[i] \intersect listed /\ first(i)
  <2> DEFINE i == CHOOSE n \in 1 .. 4 : first(n)
  <2>1. i \in 1 .. 4 /\ first(i)
    <3> HIDE DEF first
    <3> QED
      BY ONLY <1>5
  <2>2. NextList = CleanedLists[i] \intersect listed
    BY DEF NextList
  <2> HIDE DEF i, first
  <2> QED
    BY ONLY <2>1, <2>2
<1>7. o \in listed /\ o \in live /\ o \in CleanedLists[i]
  BY <1>2, <1>6
<1>8. interfaces # {} => "router" \in live
  BY DEF CleanInv, Attached
<1>9. /\ "port" \in live => "port" \in listed
      /\ "router" \in live => "router" \in listed
  BY <1>2, CleanedAre
<1>10. CASE i = 1
  BY ONLY <1>3, <1>7, <1>10 DEF InUse, GoesWith, Subnets
<1>11. CASE i = 2
  BY ONLY <1>3, <1>7, <1>11 DEF InUse, GoesWith, Subnets
<1>12. CASE i = 3
  <2>1. "port" \notin listed /\ "router" \notin listed
    BY ONLY <1>3, <1>4, <1>6, <1>12
  <2>2. interfaces = {} /\ "port" \notin live
    BY ONLY <1>8, <1>9, <2>1
  <2> QED
    BY ONLY <1>3, <1>7, <1>12, <2>2 DEF InUse, GoesWith, Subnets
<1>13. CASE i = 4
  <2>1. "port" \notin listed /\ "router" \notin listed /\ "subnet4" \notin listed /\ "subnet6" \notin listed
    BY ONLY <1>3, <1>4, <1>6, <1>13
  <2>2. interfaces = {} /\ "port" \notin live
    BY ONLY <1>8, <1>9, <2>1
  <2> QED
    BY ONLY <1>3, <1>7, <1>13, <2>1, <2>2 DEF InUse, GoesWith, Subnets
<1> QED
  BY ONLY <1>3, <1>7, <1>10, <1>11, <1>12, <1>13

LEMMA TidyInvCleanListed ==
  ASSUME CleanInv, TidyInv, NEW o \in Cleaned, CleanListed(o)
  PROVE  TidyInv'
<1>1. PICK ok \in BOOLEAN :
         /\ \/ o = "port" /\ _delete_port(ok)
            \/ o = "router" /\ delete_router(ok)
            \/ o \in Subnets /\ _delete_subnet(o, ok)
            \/ o = "network" /\ _delete_network(ok)
         /\ listed' = IF ~ok THEN listed ELSE listed \ {o}
         /\ phase' = IF ~ok THEN "over" ELSE phase
         /\ reported' = (reported \/ ~ok)
  BY DEF CleanListed, CommandFailed
<1>2. /\ phase = "cleanup" /\ ~NothingListed /\ o \in NextList
      /\ cleanups' = cleanups /\ watched' = watched
  BY DEF CleanListed
<1>3. /\ live' \subseteq live /\ made' = made
      /\ \A x \in live \ live' : ok /\ (x = o \/ x \in GoesWith(o))
      /\ (excused => excused')
      /\ (ok => o \notin live')
      /\ o \in live /\ (~InUse(o) \/ o = "router") /\ ~ok => excused'
  <2>1. ASSUME Delete(o, "admin", ok, FALSE)
        PROVE  /\ live' \subseteq live /\ made' = made
               /\ \A x \in live \ live' : ok /\ (x = o \/ x \in GoesWith(o))
               /\ (excused => excused') /\ (ok => o \notin live')
               /\ o \in live /\ ~InUse(o) /\ ~ok => excused'
    <3>1. /\ live' = live \ Deleted(o, ok) /\ made' = made
          /\ excused' = (excused \/ (~ok /\ TRUE \in Answers(o, "admin")) \/ FALSE)
      BY <2>1 DEF Delete
    <3>2. o \in live /\ ~InUse(o) => TRUE \in Answers(o, "admin")
      BY DEF Answers, Sees
    <3> QED
      BY ONLY <3>1, <3>2 DEF Deleted
  <2>2. RunsAs("admin") = "admin"
    BY DEF RunsAs
  <2>3. ~InUse("port")
    BY DEF InUse, Subnets
  <2>4. CASE o = "port" /\ _delete_port(ok)
    BY <2>1, <2>2, <2>4 DEF _delete_port
  <2>5. CASE o = "router" /\ delete_router(ok)
    BY <2>5 DEF delete_router
  <2>6. CASE o \in Subnets /\ _delete_subnet(o, ok)
    BY <2>1, <2>2, <2>6 DEF _delete_subnet, Subnets
  <2>7. CASE o = "network" /\ _delete_network(ok)
    BY <2>1, <2>2, <2>7 DEF _delete_network
  <2> QED
    BY ONLY <1>1, <2>4, <2>5, <2>6, <2>7
<1>4. Registered' = Registered
  BY <1>2 DEF Registered
<1>5. Accounted'
  BY <1>1, <1>2, <1>3, <1>4 DEF TidyInv, Accounted
<1>6. ASSUME ~excused'
      PROVE  ok /\ ListedIsThere'
  <2>1. ~excused
    BY ONLY <1>3, <1>6
  <2>2. o \in live /\ (~InUse(o) \/ o = "router") /\ GoesWith(o) \intersect listed = {}
    BY ONLY CleanInv, TidyInv, <1>2, <2>1, o \in Cleaned, NextIsFree
  <2>3. ok
    BY ONLY <1>3, <1>6, <2>2
  <2>4. ListedIsThere
    BY ONLY TidyInv, <2>1 DEF TidyInv
  <2> QED
    BY ONLY <1>1, <1>3, <1>4, <2>2, <2>3, <2>4 DEF ListedIsThere
<1>7. reported' => excused'
  BY ONLY TidyInv, <1>1, <1>3, <1>6 DEF TidyInv
<1>8. InOrder'
  BY ONLY <1>1, <1>2 DEF InOrder
<1> QED
  BY ONLY <1>5, <1>6, <1>7, <1>8 DEF TidyInv

LEMMA TidyInvNext == CleanInv /\ TidyInv /\ [Next]_vars => TidyInv'
<1> SUFFICES ASSUME CleanInv, TidyInv, [Next]_vars PROVE TidyInv'
  OBVIOUS
<1>1. ASSUME NEW o \in Made, NEW by \in {"me", "admin"}, HandOver(o, by) PROVE TidyInv'
  BY <1>1, TidyInvHandOver
<1>2. CASE \E o \in Made : DeleteInBody(o) \/ \E by \in {"me", "admin"} : HandOver(o, by)
  BY <1>1, <1>2, TidyInvDeleteInBody
<1>3. CASE \E c \in CreateCommands : Create(c)
  BY <1>3, TidyInvCreate
<1>4. CASE \E o \in Cleaned : CleanListed(o)
  BY <1>4, TidyInvCleanListed
<1>5. CASE UNCHANGED vars
  <2>1. UNCHANGED <<phase, me, listed, cleanups, made, live, admins, addressed, interfaces,
                    reported, watched, excused>>
    BY <1>5 DEF vars, lists, cloud, history
  <2>2. InOrder' <=> InOrder
    BY ONLY <2>1 DEF InOrder, Deletable, Sees, RunsAs, Users, InUse, RegisteredAfter
  <2> QED
    BY <2>1, <2>2, TidyInvCalm DEF TidyInv
<1> QED
  BY <1>2, <1>3, <1>4, <1>5, TidyInvQuiet, TidyInvEndTest, TidyInvRunCleanup DEF Next

-----------------------------------------------------------------------------
(* Properties.                                                             *)

\* In every state of every class, whatever its commands print and whichever of them
\* fail, the cleanup invariant holds: what was watched and may be there is due.
THEOREM WatchedIsDue == Spec => []CleanInv
<1> QED
  BY CleanInvInit, CleanInvNext, PTL DEF Spec

\* Unless a cleanup raised, the user and the project go last, after every object that
\* was listed for cleanup or registered and the interfaces of a listed router
\* (resource_cleanup).
THEOREM CleanGoes == Spec => []CleanMeansGone
<1>1. CleanInv => CleanMeansGone
  <2> SUFFICES ASSUME CleanInv PROVE CleanMeansGone
    OBVIOUS
  <2>1. ASSUME user = "gone", ~reported
        PROVE  watched \intersect live = {} /\ ("router" \in watched => interfaces = {})
    <3>1. Due = {}
      BY <2>1 DEF CleanInv, Ordered, Due, Registered, NothingListed
    <3> QED
      BY <2>1, <3>1 DEF CleanInv, Watching, Attached
  <2> QED
    BY <2>1 DEF CleanMeansGone, CleanInv, Ordered
<1> QED
  BY <1>1, WatchedIsDue, PTL

\* What a test reads of a command's output is what was printed, whatever was printed:
\* every line of every value of an object, every row of a list; and a list that is
\* read as an object raises (lib/cli/output_parser.py).
THEOREM PrintedIsAlwaysRead == Spec => []PrintedIsRead
<1>1. Init => PrintedIsRead
  BY SilenceRead DEF Init, PrintedIsRead
<1> QED
  BY <1>1, PrintedIsReadNext, PTL DEF Spec

\* If no command fails of itself, no test deletes what it leaves on a list, and tests
\* register deletions in an order and a role that can work, no cleanup raises
\* (resource_cleanup and the tests' cleanups).
THEOREM TidyGoes == Spec => []TidyIsClean
<1>1. Init => TidyInv
  BY TidyInvInit
<1>2. TidyInv => TidyIsClean
  BY DEF TidyInv, TidyIsClean
<1> QED
  BY <1>1, <1>2, WatchedIsDue, TidyInvNext, PTL DEF Spec
=============================================================================
