--------------------------- MODULE FixturesProofs ---------------------------
(***************************************************************************)
(* Theorems about Fixtures, for any number of objects and any timeout.     *)
(*                                                                         *)
(* Cleanups run last in, first out.  That this order is right is an        *)
(* invariant of the stack: what a live object uses is registered before    *)
(* the object (Ordered).  It says nothing of a test whose body deleted or  *)
(* kept objects; for those only Accounted holds: whatever is alive was     *)
(* kept, is still registered, or has been reported.                        *)
(***************************************************************************)
EXTENDS Fixtures, SequenceTheorems, TLAPS

Conflicts == {e.object : e \in {d \in errors : d.exception = "Conflict"}}

\* A subnet that is not registered goes with its network.
Covered(o) == Registered(o) \/ (o \in Subnets /\ Registered(inside[o].network))

Ordered ==
  /\ errors = {}
  /\ \A i \in DOMAIN stack : stack[i] \in live
  /\ \A i, j \in DOMAIN stack : stack[i] = stack[j] => i = j
  /\ \A i \in DOMAIN stack : stack[i] \in Subnets =>
       \E j \in DOMAIN stack : j < i /\ stack[j] = inside[stack[i]].network
  /\ \A u \in uses : Outlived(u)
  /\ \A o \in live : Covered(o)

UsesLive == \A u \in uses : u.used \in live

\* The subnet create_subnet waits for is nobody's yet.
WaitsForNew ==
  phase = "waiting" =>
    /\ waitFor.subnet \in live
    /\ ~Registered(waitFor.subnet)
    /\ ~InUse(waitFor.subnet)

Accounted ==
  \A o \in live : \/ o \in kept \union Conflicts
                  \/ Registered(o)
                  \/ phase = "waiting" /\ o = waitFor.subnet

NoErrorsYet == phase \in {"body", "waiting"} => errors = {}

DoneIsEmpty == phase = "done" => stack = <<>>

Inv ==
  /\ TypeOK /\ UsesLive /\ WaitsForNew /\ NoErrorsYet /\ DoneIsEmpty
  /\ (inOrder => Ordered)

USE KindsAssumption, TimeoutAssumption, CidrsAssumption

-----------------------------------------------------------------------------
(* The stack.                                                              *)

\* Appending to a sequence leaves its elements where they are.
LEMMA AppendProperties1 ==
  ASSUME NEW S, NEW seq \in Seq(S), NEW o \in S
  PROVE  /\ Append(seq, o) \in Seq(S)
         /\ DOMAIN seq = 1 .. Len(seq) /\ Len(seq) \in Nat
         /\ DOMAIN Append(seq, o) = 1 .. Len(seq) + 1
         /\ \A i \in 1 .. Len(seq) : Append(seq, o)[i] = seq[i]
         /\ Append(seq, o)[Len(seq) + 1] = o
BY AppendProperties, LenProperties

\* So does dropping the last.
LEMMA PopProperties ==
  ASSUME NEW S, NEW seq \in Seq(S), seq # <<>>
  PROVE  /\ SubSeq(seq, 1, Len(seq) - 1) \in Seq(S)
         /\ DOMAIN seq = 1 .. Len(seq) /\ Len(seq) \in Nat \ {0}
         /\ DOMAIN SubSeq(seq, 1, Len(seq) - 1) = 1 .. Len(seq) - 1
         /\ \A i \in 1 .. Len(seq) - 1 : SubSeq(seq, 1, Len(seq) - 1)[i] = seq[i]
         /\ seq[Len(seq)] \in S
<1>1. Len(seq) \in Nat \ {0} /\ DOMAIN seq = 1 .. Len(seq)
  BY EmptySeq, LenProperties
<1>2. \A i \in 1 .. Len(seq) : seq[i] \in S
  BY ElementOfSeq
<1>3. SubSeq(seq, 1, Len(seq) - 1) \in Seq(S)
      /\ Len(SubSeq(seq, 1, Len(seq) - 1)) = Len(seq) - 1
      /\ \A i \in 1 .. Len(seq) - 1 : SubSeq(seq, 1, Len(seq) - 1)[i] = seq[i]
  <2> DEFINE m == Len(seq) - 1
  <2>1. m \in Int /\ \A i \in 1 .. m : seq[i] \in S
    BY <1>1, <1>2
  <2>2. /\ SubSeq(seq, 1, m) \in Seq(S)
        /\ Len(SubSeq(seq, 1, m)) = IF 1 <= m THEN m - 1 + 1 ELSE 0
        /\ \A i \in 1 .. m - 1 + 1 : SubSeq(seq, 1, m)[i] = seq[1 + i - 1]
    <3> HIDE DEF m
    <3> QED
      BY <2>1, SubSeqProperties
  <2>3. m - 1 + 1 = m /\ m >= 0
    BY <1>1
  <2>4. \A i \in 1 .. m : SubSeq(seq, 1, m)[i] = seq[i]
    BY <2>2, <2>3
  <2> QED
    BY <2>2, <2>3, <2>4
<1>4. DOMAIN SubSeq(seq, 1, Len(seq) - 1) = 1 .. Len(seq) - 1
  BY <1>3, LenProperties
<1> QED
  BY <1>1, <1>2, <1>3, <1>4

\* An object that nothing uses may be put on top of an ordered stack.
LEMMA Enlist ==
  ASSUME stack \in Seq(Objects), Ordered,
         NEW o \in Objects, ~Registered(o), ~InUse(o),
         stack' = Append(stack, o), live' = live \union {o}, errors' = errors,
         \A u \in uses' : u \in uses \/ (u.user = o /\ u.used # o),
         \A s \in Subnets : s # o => inside'[s] = inside[s],
         o \in Subnets => Registered(inside'[o].network)
  PROVE  Ordered'
<1>1. /\ DOMAIN stack = 1 .. Len(stack) /\ Len(stack) \in Nat
      /\ DOMAIN stack' = 1 .. Len(stack) + 1
      /\ \A i \in 1 .. Len(stack) : stack'[i] = stack[i]
      /\ stack'[Len(stack) + 1] = o
  BY AppendProperties1
<1>2. \A i \in 1 .. Len(stack) : stack[i] # o
  BY <1>1 DEF Registered
<1>3. errors' = {} /\ \A i \in DOMAIN stack' : stack'[i] \in live'
  BY <1>1 DEF Ordered
<1>4. \A i, j \in DOMAIN stack' : stack'[i] = stack'[j] => i = j
  BY <1>1, <1>2 DEF Ordered
<1>5. ASSUME NEW i \in DOMAIN stack', stack'[i] \in Subnets
      PROVE  \E j \in DOMAIN stack' : j < i /\ stack'[j] = inside'[stack'[i]].network
  <2>1. CASE i = Len(stack) + 1
    BY <1>1, <1>5, <2>1 DEF Registered
  <2>2. CASE i # Len(stack) + 1
    <3>1. i \in 1 .. Len(stack) /\ stack'[i] = stack[i] /\ inside'[stack[i]] = inside[stack[i]]
      BY <1>1, <1>2, <1>5, <2>2
    <3>2. PICK j \in DOMAIN stack : j < i /\ stack[j] = inside[stack[i]].network
      BY <1>1, <1>5, <3>1 DEF Ordered
    <3> QED
      BY <1>1, <3>1, <3>2
  <2> QED
    BY <2>1, <2>2
<1>6. ASSUME NEW u \in uses' PROVE Outlived(u)'
  <2>1. CASE u \in uses
    <3>1. PICK j \in DOMAIN stack : /\ stack[j] \in {u.user, u.via}
                                    /\ \A i \in DOMAIN stack : stack[i] = u.used => i < j
      BY <2>1 DEF Ordered, Outlived
    <3>2. u.used # o
      BY <2>1 DEF InUse
    <3>3. j \in DOMAIN stack' /\ stack'[j] \in {u.user, u.via}
      BY <1>1, <3>1
    <3>4. \A i \in DOMAIN stack' : stack'[i] = u.used => i < j
      BY <1>1, <3>1, <3>2
    <3> QED
      BY <3>3, <3>4 DEF Outlived
  <2>2. CASE u.user = o /\ u.used # o
    <3>1. Len(stack) + 1 \in DOMAIN stack' /\ stack'[Len(stack) + 1] \in {u.user, u.via}
      BY <1>1, <2>2
    <3>2. \A i \in DOMAIN stack' : stack'[i] = u.used => i < Len(stack) + 1
      BY <1>1, <2>2
    <3> QED
      BY <3>1, <3>2 DEF Outlived
  <2> QED
    BY <2>1, <2>2
<1>7. ASSUME NEW x \in live' PROVE Covered(x)'
  <2>1. CASE x = o
    BY <1>1, <2>1 DEF Covered, Registered
  <2>2. CASE x # o
    <3>1. Covered(x)
      BY <2>2 DEF Ordered
    <3>2. x \in Subnets => inside'[x] = inside[x]
      BY <2>2
    <3>3. \A y : Registered(y) => Registered(y)'
      BY <1>1 DEF Registered
    <3> QED
      BY <3>1, <3>2, <3>3 DEF Covered
  <2> QED
    BY <2>1, <2>2
<1> QED
  BY <1>3, <1>4, <1>5, <1>6, <1>7 DEF Ordered

-----------------------------------------------------------------------------
(* What the steps have in common: creating, registering, removing.         *)

\* Registering, or not, keeps the types.
LEMMA RegisterTypes ==
  ASSUME stack \in Seq(Objects), kept \subseteq live, inOrder \in BOOLEAN,
         NEW o \in Objects, NEW cleanup \in BOOLEAN, Register(o, cleanup),
         live' = live \union {o}
  PROVE  stack' \in Seq(Objects) /\ kept' \subseteq live' /\ inOrder' \in BOOLEAN
<1>1. Append(stack, o) \in Seq(Objects)
  BY AppendProperties1
<1> QED
  BY <1>1 DEF Register

\* Registering accounts for the object.
LEMMA RegisterAccounted ==
  ASSUME stack \in Seq(Objects), NEW o \in Objects, NEW cleanup \in BOOLEAN,
         Register(o, cleanup), errors' = errors, live' = live \union {o},
         \A x \in live : x = o \/ x \in kept \union Conflicts \/ Registered(x)
  PROVE  \A x \in live' : x \in (kept \union Conflicts)' \/ Registered(x)'
<1>1. Conflicts' = Conflicts
  BY DEF Conflicts
<1>2. ASSUME NEW x, Registered(x) PROVE Registered(x)'
  BY <1>2, AppendProperties1 DEF Register, Registered
<1>3. o \in kept' \/ Registered(o)'
  BY AppendProperties1 DEF Register, Registered
<1>4. kept \subseteq kept'
  BY DEF Register
<1> QED
  BY <1>1, <1>2, <1>3, <1>4

LEMMA CreateInv ==
  ASSUME Inv, NEW o \in Others, NEW used, NEW cleanup \in BOOLEAN,
         Create(o, used), Register(o, cleanup), inside' = inside
  PROVE  Inv'
<1> USE DEF Create
<1>1. o \in Objects /\ o \notin Subnets
  BY DEF Objects
<1>2. live \subseteq Objects /\ used \subseteq live /\ o \notin live
  BY DEF Inv, TypeOK, Fresh
<1>3. TypeOK'
  <2>1. stack' \in Seq(Objects) /\ kept' \subseteq live' /\ inOrder' \in BOOLEAN
    BY <1>1, RegisterTypes DEF Inv, TypeOK
  <2>2. uses' \subseteq [user : Objects, used : Objects, via : Objects]
    BY <1>1, <1>2 DEF Inv, TypeOK, Uses
  <2>3. served' \subseteq Subnets \intersect live'
    BY DEF Inv, TypeOK, dhcp
  <2> QED
    BY <1>1, <1>2, <2>1, <2>2, <2>3 DEF Inv, TypeOK, dhcp, waiting
<1>4. UsesLive'
  BY <1>2 DEF Inv, UsesLive, Uses
<1>5. WaitsForNew' /\ NoErrorsYet' /\ DoneIsEmpty'
  BY DEF Inv, WaitsForNew, NoErrorsYet, DoneIsEmpty
<1>6. ASSUME inOrder' PROVE Ordered'
  <2>1. inOrder /\ cleanup /\ stack' = Append(stack, o)
    BY <1>6 DEF Register, Inv, TypeOK
  <2>2. Ordered /\ stack \in Seq(Objects)
    BY <2>1 DEF Inv, TypeOK
  <2>3. ~Registered(o) /\ ~InUse(o)
    BY <1>2 DEF Fresh, InUse, Inv, UsesLive
  <2>4. \A u \in uses' : u \in uses \/ (u.user = o /\ u.used # o)
    BY <1>2 DEF Uses
  <2> QED
    BY <1>1, <2>1, <2>2, <2>3, <2>4, Enlist
<1> QED
  BY <1>3, <1>4, <1>5, <1>6 DEF Inv

LEMMA RemoveTypes ==
  ASSUME TypeOK, UsesLive, NEW o \in Objects, ~InUse(o), Remove(o), inside' = inside
  PROVE  /\ live' \subseteq Objects /\ live' \subseteq live /\ uses' \subseteq uses
         /\ served' \subseteq Subnets \intersect live'
         /\ UsesLive'
<1>1. live' \subseteq live /\ uses' \subseteq uses
  BY DEF Remove
<1>2. \A u \in uses' : u.used \in live'
  BY DEF Remove, UsesLive
<1> QED
  BY <1>1, <1>2 DEF TypeOK, Remove, UsesLive

\* Taking the last object off an ordered stack and deleting it leaves an
\* ordered stack: nothing below it uses it, and no subnet below it is its own.
LEMMA Retire ==
  ASSUME stack \in Seq(Objects), stack # <<>>, Ordered,
         inside \in [Subnets -> [network : Networks, awaited : BOOLEAN]],
         Pop, Remove(Last), inside' = inside, errors' = errors
  PROVE  Ordered'
<1>1. /\ DOMAIN stack = 1 .. Len(stack) /\ Len(stack) \in Nat \ {0}
      /\ DOMAIN stack' = 1 .. Len(stack) - 1
      /\ \A i \in 1 .. Len(stack) - 1 : stack'[i] = stack[i]
  BY PopProperties DEF Pop
<1>2. Len(stack) \in DOMAIN stack /\ Last = stack[Len(stack)]
  BY <1>1 DEF Last
<1>3. \A i \in 1 .. Len(stack) - 1 : stack[i] # Last
  BY <1>1, <1>2 DEF Ordered
<1>4. ASSUME NEW i \in DOMAIN stack' PROVE stack'[i] \in live'
  <2>1. stack'[i] = stack[i] /\ stack[i] \in live /\ stack[i] # Last /\ i \in DOMAIN stack
    BY <1>1, <1>3, <1>4 DEF Ordered
  <2>2. stack[i] \notin SubnetsIn(Last)
    <3>1. SUFFICES ASSUME stack[i] \in SubnetsIn(Last) PROVE FALSE
      OBVIOUS
    <3>2. PICK j \in DOMAIN stack : j < i /\ stack[j] = inside[stack[i]].network
      BY <2>1, <3>1 DEF Ordered, SubnetsIn
    <3>3. stack[j] = Last /\ j \in 1 .. Len(stack) - 1
      BY <1>1, <1>4, <3>1, <3>2 DEF SubnetsIn
    <3> QED
      BY <1>3, <3>3
  <2> QED
    BY <2>1, <2>2 DEF Remove, Removed
<1>5. ASSUME NEW i \in DOMAIN stack', stack'[i] \in Subnets
      PROVE  \E j \in DOMAIN stack' : j < i /\ stack'[j] = inside'[stack'[i]].network
  <2>1. PICK j \in DOMAIN stack : j < i /\ stack[j] = inside[stack[i]].network
    BY <1>1, <1>5 DEF Ordered
  <2> QED
    BY <1>1, <1>5, <2>1
<1>6. ASSUME NEW u \in uses' PROVE Outlived(u)'
  <2>1. u \in uses /\ u.user # Last /\ u.via # Last
    BY DEF Remove, Removed
  <2>2. PICK j \in DOMAIN stack : /\ stack[j] \in {u.user, u.via}
                                  /\ \A i \in DOMAIN stack : stack[i] = u.used => i < j
    BY <2>1 DEF Ordered, Outlived
  <2>3. j \in DOMAIN stack' /\ stack'[j] = stack[j]
    BY <1>1, <1>2, <2>1, <2>2
  <2>4. \A i \in DOMAIN stack' : stack'[i] = u.used => i < j
    BY <1>1, <2>2
  <2> QED
    BY <2>2, <2>3, <2>4 DEF Outlived
<1>7. ASSUME NEW x \in live' PROVE Covered(x)'
  <2>1. x \in live /\ x # Last /\ (Last \in Networks => x \notin SubnetsIn(Last))
    BY DEF Remove, Removed
  <2>2. ASSUME NEW y, y # Last, Registered(y) PROVE Registered(y)'
    BY <1>1, <1>2, <2>2 DEF Registered
  <2>3. CASE Registered(x)
    BY <2>1, <2>2, <2>3 DEF Covered
  <2>4. CASE x \in Subnets /\ Registered(inside[x].network)
    <3>1. inside[x].network \in Networks
      BY <2>4
    <3>2. inside[x].network # Last
      BY <2>1, <2>4, <3>1 DEF SubnetsIn
    <3> QED
      BY <2>2, <2>4, <3>2 DEF Covered
  <2> QED
    BY <2>1, <2>3, <2>4 DEF Ordered, Covered
<1>8. \A i, j \in DOMAIN stack' : stack'[i] = stack'[j] => i = j
  BY <1>1 DEF Ordered
<1> QED
  BY <1>4, <1>5, <1>6, <1>7, <1>8 DEF Ordered

-----------------------------------------------------------------------------
(* The invariant, one lemma for each kind of action.                       *)

LEMMA InvInit == Init => Inv
<1> SUFFICES ASSUME Init PROVE Inv
  OBVIOUS
<1>1. stack \in Seq(Objects)
  BY EmptySeq DEF Init
<1>2. TypeOK
  <2>1. inside \in [Subnets -> [network : Networks, awaited : BOOLEAN]]
    <3> DEFINE Unset == [network : Networks, awaited : {FALSE}]
               Any == [network : Networks, awaited : BOOLEAN]
    <3>1. Unset \subseteq Any
      <4> SUFFICES ASSUME NEW r \in Unset PROVE r \in Any
        OBVIOUS
      <4>1. r = [network |-> r.network, awaited |-> r.awaited] /\ r.network \in Networks /\ r.awaited = FALSE
        OBVIOUS
      <4>2. r.awaited \in BOOLEAN
        BY <4>1
      <4> QED
        BY <4>1, <4>2
    <3>2. inside \in [Subnets -> Unset]
      BY DEF Init
    <3> HIDE DEF Unset, Any
    <3>3. inside \in [Subnets -> Any]
      BY ONLY <3>1, <3>2
    <3> QED
      BY ONLY <3>3 DEF Any
  <2>2. waitFor \in [subnet : Subnets, cleanup : BOOLEAN] /\ polls \in 0 .. Timeout + 1
    <3>1. /\ waitFor = [subnet |-> waitFor.subnet, cleanup |-> waitFor.cleanup]
          /\ waitFor.subnet \in Subnets /\ waitFor.cleanup = TRUE
      BY DEF Init
    <3>2. waitFor.cleanup \in BOOLEAN
      BY <3>1
    <3> QED
      BY <3>1, <3>2 DEF Init
  <2>3. agent \in BOOLEAN /\ cached \in SUBSET BOOLEAN /\ inOrder \in BOOLEAN
    BY DEF Init
  <2>4. /\ phase \in {"body", "waiting", "cleanup", "done"} /\ live \subseteq Objects
        /\ uses \subseteq [user : Objects, used : Objects, via : Objects]
        /\ served \subseteq Subnets \intersect live /\ kept \subseteq live
        /\ errors \subseteq [object : Objects, exception : {"NotFound", "Conflict"}]
    BY DEF Init
  <2> QED
    BY ONLY <1>1, <2>1, <2>2, <2>3, <2>4 DEF TypeOK
<1>3. UsesLive /\ WaitsForNew /\ NoErrorsYet /\ DoneIsEmpty
  BY DEF Init, UsesLive, WaitsForNew, NoErrorsYet, DoneIsEmpty
<1>4. Ordered
  BY DEF Init, Ordered
<1> QED
  BY <1>2, <1>3, <1>4 DEF Inv

LEMMA CreatesInv ==
  ASSUME Inv, NEW cleanup \in BOOLEAN,
         \/ \E n \in Networks : CreateNetwork(n, cleanup)
         \/ \E p \in Ports, n \in Networks : CreatePort(p, n, cleanup)
         \/ \E r \in Routers : CreateRouter(r, cleanup)
         \/ \E r \in Routers, s \in Subnets : CreateRouterInterface(r, s, cleanup)
         \/ \E f \in Fips : CreateFloatingip(f, cleanup)
  PROVE  Inv'
<1>1. PICK o \in Others : \E used : Create(o, used) /\ Register(o, cleanup) /\ inside' = inside
  <2>1. ASSUME NEW n \in Networks, CreateNetwork(n, cleanup)
        PROVE  \E o \in Others : \E used : Create(o, used) /\ Register(o, cleanup) /\ inside' = inside
    BY <2>1 DEF CreateNetwork, Others
  <2>2. ASSUME NEW p \in Ports, NEW n \in Networks, CreatePort(p, n, cleanup)
        PROVE  \E o \in Others : \E used : Create(o, used) /\ Register(o, cleanup) /\ inside' = inside
    BY <2>2 DEF CreatePort, Others
  <2>3. ASSUME NEW r \in Routers, CreateRouter(r, cleanup)
        PROVE  \E o \in Others : \E used : Create(o, used) /\ Register(o, cleanup) /\ inside' = inside
    BY <2>3 DEF CreateRouter, Others
  <2>4. ASSUME NEW r \in Routers, NEW s \in Subnets, CreateRouterInterface(r, s, cleanup)
        PROVE  \E o \in Others : \E used : Create(o, used) /\ Register(o, cleanup) /\ inside' = inside
    <3>1. [router |-> r, subnet |-> s] \in Others
      BY DEF Others, Interfaces
    <3> QED
      BY <2>4, <3>1 DEF CreateRouterInterface
  <2>5. ASSUME NEW f \in Fips, CreateFloatingip(f, cleanup)
        PROVE  \E o \in Others : \E used : Create(o, used) /\ Register(o, cleanup) /\ inside' = inside
    BY <2>5 DEF CreateFloatingip, Others
  <2> QED
    BY <2>1, <2>2, <2>3, <2>4, <2>5
<1> QED
  BY <1>1, CreateInv

LEMMA CreateSubnetInv ==
  ASSUME Inv, NEW s \in Subnets, NEW n \in Networks, NEW enable_dhcp \in BOOLEAN, NEW external \in BOOLEAN,
         NEW cleanup \in BOOLEAN, CreateSubnet(s, n, enable_dhcp, external, cleanup)
  PROVE  Inv'
<1> USE DEF CreateSubnet
<1>1. s \in Objects /\ s \notin live /\ ~Registered(s) /\ ~InUse(s)
  BY DEF Objects, Fresh, InUse, Inv, UsesLive
<1>2. /\ inside' \in [Subnets -> [network : Networks, awaited : BOOLEAN]]
      /\ inside'[s].network = n
      /\ \A t \in Subnets : t # s => inside'[t] = inside[t]
  BY DEF Inv, TypeOK
<1>3. stack' \in Seq(Objects) /\ kept' \subseteq live' /\ inOrder' \in BOOLEAN
  <2>1. CASE Register(s, cleanup)
    BY <1>1, <2>1, RegisterTypes DEF Inv, TypeOK
  <2>2. CASE UNCHANGED <<stack, history>>
    BY <2>2 DEF Inv, TypeOK, history
  <2> QED
    BY <2>1, <2>2
<1>4. TypeOK'
  <2>1. phase' \in {"body", "waiting"} /\ polls' \in 0 .. Timeout + 1
    BY DEF waiting, Inv, TypeOK
  <2>2. waitFor' \in [subnet : Subnets, cleanup : BOOLEAN]
    BY DEF waiting, Inv, TypeOK
  <2>3. cached' \in SUBSET BOOLEAN
    BY DEF Present, Inv, TypeOK
  <2>4. live' \subseteq Objects /\ served' \subseteq Subnets \intersect live'
    BY <1>1 DEF Inv, TypeOK
  <2> QED
    BY <1>2, <1>3, <2>1, <2>2, <2>3, <2>4 DEF Inv, TypeOK
<1>5. UsesLive' /\ NoErrorsYet' /\ DoneIsEmpty'
  BY DEF Inv, UsesLive, NoErrorsYet, DoneIsEmpty
<1>6. WaitsForNew'
  <2>1. SUFFICES ASSUME phase' = "waiting"
                 PROVE  (/\ waitFor.subnet \in live
                         /\ ~Registered(waitFor.subnet)
                         /\ ~InUse(waitFor.subnet))'
    BY DEF WaitsForNew
  <2>2. waitFor' = [subnet |-> s, cleanup |-> cleanup] /\ stack' = stack /\ uses' = uses
    BY <2>1
  <2> QED
    BY <1>1, <2>2 DEF Registered, InUse
<1>7. ASSUME inOrder' PROVE Ordered'
  <2>1. inOrder /\ Ordered /\ stack \in Seq(Objects)
    BY <1>7 DEF Register, history, Inv, TypeOK
  <2>2. Registered(n)
    BY <2>1 DEF Ordered, Covered, Others
  <2>3. CASE Register(s, cleanup)
    <3>1. cleanup /\ stack' = Append(stack, s)
      BY <1>7, <2>3 DEF Register
    <3> QED
      BY <1>1, <1>2, <2>1, <2>2, <3>1, Enlist
  <2>4. CASE stack' = stack
    <3>1. \A i \in DOMAIN stack : stack[i] # s
      BY <1>1 DEF Registered
    <3>2. \A i \in DOMAIN stack' : stack'[i] \in Subnets =>
            \E j \in DOMAIN stack' : j < i /\ stack'[j] = inside'[stack'[i]].network
      BY <1>2, <2>1, <2>4, <3>1 DEF Ordered
    <3>3. ASSUME NEW x \in live' PROVE Covered(x)'
      <4>1. CASE x = s
        BY <1>2, <2>2, <2>4, <4>1 DEF Covered, Registered
      <4>2. CASE x # s
        <5>1. Covered(x) /\ (x \in Subnets => inside'[x] = inside[x])
          BY <1>2, <2>1, <4>2 DEF Ordered
        <5> QED
          BY <2>4, <5>1 DEF Covered, Registered
      <4> QED
        BY <4>1, <4>2
    <3>4. \A u \in uses' : Outlived(u)'
      BY <2>1, <2>4 DEF Ordered, Outlived
    <3> QED
      BY <2>1, <2>4, <3>2, <3>3, <3>4 DEF Ordered
  <2> QED
    BY <2>3, <2>4
<1> QED
  BY <1>4, <1>5, <1>6, <1>7 DEF Inv

\* What create_subnet leaves of its wait has the types it had.
LEMMA LeaveWaitTypes ==
  ASSUME TypeOK, LeaveWait
  PROVE  /\ waitFor' \in [subnet : Subnets, cleanup : BOOLEAN]
         /\ waitFor'.subnet = waitFor.subnet
         /\ polls' \in 0 .. Timeout + 1
<1>1. waitFor.subnet \in Subnets
  BY DEF TypeOK
<1>2. waitFor' = [subnet |-> waitFor.subnet, cleanup |-> TRUE] /\ polls' = 0
  BY DEF LeaveWait, TypeOK
<1>3. polls' \in 0 .. Timeout + 1
  BY <1>2, TimeoutAssumption
<1> QED
  BY <1>1, <1>2, <1>3

LEMMA PollInv == Inv /\ PollDhcpPort => Inv'
<1> SUFFICES ASSUME Inv, PollDhcpPort PROVE Inv'
  OBVIOUS
<1> USE DEF PollDhcpPort, neutron, dhcp, waiting, history
<1>1. CASE waitFor.subnet \in served
  <2> DEFINE s == waitFor.subnet
  <2>1. /\ Register(s, waitFor.cleanup) /\ waitFor.cleanup \in BOOLEAN /\ s \in Subnets
        /\ s \in live /\ ~Registered(s) /\ ~InUse(s) /\ s \in Objects /\ phase' = "body"
    BY <1>1 DEF Inv, TypeOK, WaitsForNew, Objects
  <2>2. live' = live \union {s} /\ live' = live
    BY <2>1
  <2>3. stack' \in Seq(Objects) /\ kept' \subseteq live' /\ inOrder' \in BOOLEAN
    BY <2>1, <2>2, RegisterTypes DEF Inv, TypeOK
  <2> waitFor' \in [subnet : Subnets, cleanup : BOOLEAN] /\ polls' \in 0 .. Timeout + 1
    BY <1>1, LeaveWaitTypes DEF Inv
  <2>4. TypeOK'
    BY <1>1, <2>2, <2>3 DEF Inv, TypeOK
  <2>5. UsesLive' /\ WaitsForNew' /\ NoErrorsYet' /\ DoneIsEmpty'
    BY <2>1 DEF Inv, UsesLive, WaitsForNew, NoErrorsYet, DoneIsEmpty
  <2>6. ASSUME inOrder' PROVE Ordered'
    <3>1. Ordered /\ stack \in Seq(Objects) /\ stack' = Append(stack, s)
      BY <2>1, <2>6 DEF Register, Inv, TypeOK
    <3>2. Registered(inside[s].network)
      BY <2>1, <3>1 DEF Ordered, Covered
    <3>3. inside' = inside /\ uses' = uses /\ errors' = errors
      BY <2>1
    <3> HIDE DEF s
    <3> QED
      BY <2>1, <2>2, <3>1, <3>2, <3>3, Enlist
  <2> QED
    BY <2>4, <2>5, <2>6 DEF Inv
<1>2. CASE waitFor.subnet \notin served
  <2>1. UNCHANGED <<phase, stack, live, inside, uses, waitFor, agent, cached, served,
                    errors, kept, inOrder>> /\ polls' = polls + 1 /\ polls <= Timeout
    BY <1>2 DEF NextPoll, InTime
  <2>2. TypeOK'
    BY <2>1 DEF Inv, TypeOK
  <2>3. UsesLive' /\ WaitsForNew' /\ NoErrorsYet' /\ DoneIsEmpty'
    BY <2>1 DEF Inv, UsesLive, WaitsForNew, NoErrorsYet, DoneIsEmpty, Registered, InUse
  <2>4. inOrder' => Ordered'
    BY <2>1 DEF Inv, Ordered, Outlived, Covered, Registered
  <2> QED
    BY <2>2, <2>3, <2>4 DEF Inv
<1> QED
  BY <1>1, <1>2

LEMMA NoFixtureInv ==
  ASSUME Inv, stack' = stack, UNCHANGED neutron, errors' = errors,
         waitFor' \in [subnet : Subnets, cleanup : BOOLEAN],
         waitFor'.subnet = waitFor.subnet, polls' \in 0 .. Timeout + 1,
         inOrder' = inOrder, kept' \subseteq live, phase' \in {phase, "cleanup", "done"},
         phase' = "done" => stack = <<>>,
         agent' \in BOOLEAN, cached' = cached, served' \subseteq Subnets \intersect live
  PROVE  Inv'
<1> USE DEF neutron, waiting
<1>1. TypeOK'
  BY DEF Inv, TypeOK
<1>2. UsesLive' /\ NoErrorsYet' /\ DoneIsEmpty'
  BY DEF Inv, TypeOK, UsesLive, NoErrorsYet, DoneIsEmpty
<1>3. WaitsForNew'
  BY DEF Inv, WaitsForNew, Registered, InUse
<1>4. inOrder' => Ordered'
  BY DEF Inv, Ordered, Outlived, Covered, Registered
<1> QED
  BY <1>1, <1>2, <1>3, <1>4 DEF Inv

LEMMA PhaseInv ==
  ASSUME Inv, \/ \E n \in Networks : NoCidrLeft(n)
              \/ DhcpNotResolved \/ EndBody \/ Done \/ Agent
  PROVE  Inv'
<1> USE DEF neutron, waiting, dhcp, history
<1>1. /\ agent \in BOOLEAN /\ kept \subseteq live /\ served \subseteq Subnets \intersect live
      /\ waitFor \in [subnet : Subnets, cleanup : BOOLEAN] /\ polls \in 0 .. Timeout + 1
  BY DEF Inv, TypeOK
<1>2. ASSUME NEW n \in Networks, NoCidrLeft(n) PROVE Inv'
  BY <1>1, <1>2, NoFixtureInv DEF NoCidrLeft
<1>3. ASSUME DhcpNotResolved PROVE Inv'
  <2>1. waitFor.subnet \in live
    BY <1>3 DEF DhcpNotResolved, Inv, WaitsForNew
  <2> QED
    BY <1>1, <1>3, <2>1, LeaveWaitTypes, NoFixtureInv
    DEF DhcpNotResolved, RaiseNotFound, Inv
<1>4. ASSUME EndBody PROVE Inv'
  BY <1>1, <1>4, NoFixtureInv DEF EndBody
<1>5. ASSUME Done PROVE Inv'
  BY <1>1, <1>5, NoFixtureInv DEF Done, EndOfCleanups
<1>6. phase = "done" => stack = <<>>
  BY DEF Inv, DoneIsEmpty
<1>7. ASSUME AgentToggle PROVE Inv'
  <2>1. agent' \in BOOLEAN
    BY <1>7 DEF AgentToggle
  <2> QED
    BY <1>1, <1>6, <1>7, <2>1, NoFixtureInv DEF AgentToggle
<1>8. ASSUME NEW s \in Subnets, AgentServe(s) PROVE Inv'
  BY <1>1, <1>6, <1>8, NoFixtureInv DEF AgentServe
<1> QED
  BY <1>2, <1>3, <1>4, <1>5, <1>7, <1>8 DEF Agent

LEMMA AddUseInv ==
  ASSUME Inv, phase = "body", phase' = phase, NEW u, AddUse(u),
         u \in [user : Objects, used : live, via : Objects],
         UNCHANGED <<stack, live, inside, waiting, dhcp, errors, kept>>
  PROVE  Inv'
<1> USE DEF waiting, dhcp
<1>1. uses' = uses \union {u} /\ u.used \in live /\ inOrder' = (inOrder /\ Outlived(u))
  BY DEF AddUse
<1>2. TypeOK'
  <2>1. uses' \subseteq [user : Objects, used : Objects, via : Objects]
    BY <1>1 DEF Inv, TypeOK
  <2>2. inOrder' \in BOOLEAN
    BY <1>1 DEF Inv, TypeOK
  <2> QED
    BY <2>1, <2>2 DEF Inv, TypeOK
<1>3. UsesLive' /\ WaitsForNew' /\ NoErrorsYet' /\ DoneIsEmpty'
  BY <1>1 DEF Inv, UsesLive, WaitsForNew, NoErrorsYet, DoneIsEmpty
<1>4. ASSUME inOrder' PROVE Ordered'
  <2>1. Ordered /\ Outlived(u)
    BY <1>1, <1>4 DEF Inv, TypeOK
  <2> QED
    BY <1>1, <2>1 DEF Ordered, Outlived, Covered, Registered
<1> QED
  BY <1>2, <1>3, <1>4 DEF Inv

LEMMA UpdatesInv ==
  ASSUME Inv, \/ \E p \in Ports, s \in Subnets : UpdatePort(p, s)
              \/ \E f \in Fips, p \in Ports, i \in Interfaces : AssociateFloatingip(f, p, i)
  PROVE  Inv'
<1>1. Ports \union Fips \union Subnets \union Interfaces \subseteq Objects
  BY DEF Objects, Others
<1>2. ASSUME NEW p \in Ports, NEW s \in Subnets, UpdatePort(p, s) PROVE Inv'
  BY <1>1, <1>2, AddUseInv DEF UpdatePort
<1>3. ASSUME NEW f \in Fips, NEW p \in Ports, NEW i \in Interfaces, AssociateFloatingip(f, p, i)
      PROVE  Inv'
  BY <1>1, <1>3, AddUseInv DEF AssociateFloatingip
<1> QED
  BY <1>2, <1>3

LEMMA DeleteInBodyInv ==
  ASSUME Inv, NEW o \in Objects, DeleteInBody(o)
  PROVE  Inv'
<1> USE DEF DeleteInBody, waiting
<1>1. /\ live' \subseteq Objects /\ live' \subseteq live
      /\ uses' \subseteq [user : Objects, used : Objects, via : Objects]
      /\ served' \subseteq Subnets \intersect live' /\ UsesLive'
  BY RemoveTypes DEF Inv, TypeOK
<1>2. kept' \subseteq live'
  BY DEF Remove, Inv, TypeOK
<1>3. TypeOK'
  BY <1>1, <1>2 DEF Inv, TypeOK
<1>4. WaitsForNew' /\ NoErrorsYet' /\ DoneIsEmpty'
  BY DEF Inv, WaitsForNew, NoErrorsYet, DoneIsEmpty
<1> QED
  BY <1>1, <1>3, <1>4 DEF Inv

LEMMA RunCleanupInv == Inv /\ RunCleanup => Inv'
<1> SUFFICES ASSUME Inv, RunCleanup PROVE Inv'
  OBVIOUS
<1> USE DEF RunCleanup, waiting
<1>1. stack \in Seq(Objects) /\ stack # <<>>
  BY DEF Inv, TypeOK
<1>2. stack' \in Seq(Objects) /\ Last \in Objects
  BY <1>1, PopProperties DEF Pop, Last
<1>3. WaitsForNew' /\ NoErrorsYet' /\ DoneIsEmpty'
  BY DEF Inv, WaitsForNew, NoErrorsYet, DoneIsEmpty
<1>4. CASE Last \in live /\ ~InUse(Last)
  <2>1. Remove(Last) /\ errors' = errors /\ kept' = kept \ Removed(Last)
    BY <1>4
  <2>2. /\ live' \subseteq Objects /\ live' \subseteq live
        /\ uses' \subseteq [user : Objects, used : Objects, via : Objects]
        /\ served' \subseteq Subnets \intersect live' /\ UsesLive'
    BY <1>2, <1>4, <2>1, RemoveTypes DEF Inv, TypeOK
  <2>3. kept' \subseteq live'
    BY <2>1 DEF Remove, Inv, TypeOK
  <2>4. TypeOK'
    BY <1>2, <2>1, <2>2, <2>3 DEF Inv, TypeOK
  <2>5. inOrder' => Ordered'
    BY <1>1, <2>1, Retire DEF Inv, TypeOK
  <2> QED
    BY <1>3, <2>2, <2>4, <2>5 DEF Inv
<1>5. CASE ~(Last \in live /\ ~InUse(Last))
  <2>1. PICK exception \in {"NotFound", "Conflict"} :
          /\ Raise(Last, exception)
          /\ UNCHANGED <<live, uses, served, kept>>
    BY <1>5
  <2>2. errors' \subseteq [object : Objects, exception : {"NotFound", "Conflict"}]
    BY <1>2, <2>1 DEF Raise, Inv, TypeOK
  <2>3. TypeOK' /\ UsesLive'
    BY <1>2, <2>1, <2>2 DEF Inv, TypeOK, UsesLive
  <2>4. ~inOrder'
    <3>1. SUFFICES ASSUME Ordered PROVE FALSE
      BY DEF Inv
    <3>2. Len(stack) \in DOMAIN stack /\ DOMAIN stack = 1 .. Len(stack) /\ Len(stack) \in Nat
      BY <1>1, PopProperties
    <3>3. Last \in live
      BY <3>1, <3>2 DEF Ordered, Last
    <3>4. PICK u \in uses : u.used = Last
      BY <1>5, <3>3 DEF InUse
    <3>5. PICK j \in DOMAIN stack : \A i \in DOMAIN stack : stack[i] = Last => i < j
      BY <3>1, <3>4 DEF Ordered, Outlived
    <3> QED
      BY <3>2, <3>5 DEF Last
  <2> QED
    BY <1>3, <2>3, <2>4 DEF Inv
<1> QED
  BY <1>4, <1>5

LEMMA InvNext == Inv /\ [Next]_vars => Inv'
<1> SUFFICES ASSUME Inv, [Next]_vars PROVE Inv'
  OBVIOUS
<1>1. ASSUME Body PROVE Inv'
  <2>1. ASSUME NEW cleanup \in BOOLEAN,
               \/ \E n \in Networks : CreateNetwork(n, cleanup)
               \/ \E p \in Ports, n \in Networks : CreatePort(p, n, cleanup)
               \/ \E r \in Routers : CreateRouter(r, cleanup)
               \/ \E r \in Routers, s \in Subnets : CreateRouterInterface(r, s, cleanup)
               \/ \E f \in Fips : CreateFloatingip(f, cleanup)
        PROVE  Inv'
    BY ONLY Inv, <2>1, CreatesInv
  <2>2. ASSUME NEW cleanup \in BOOLEAN, NEW n \in Networks, NEW s \in Subnets,
               NEW enable_dhcp \in BOOLEAN, NEW external \in BOOLEAN, CreateSubnet(s, n, enable_dhcp, external, cleanup)
        PROVE  Inv'
    BY <2>2, CreateSubnetInv
  <2>3. ASSUME NEW n \in Networks, NoCidrLeft(n) PROVE Inv'
    BY <2>3, PhaseInv
  <2>4. ASSUME \/ \E p \in Ports, s \in Subnets : UpdatePort(p, s)
               \/ \E f \in Fips, p \in Ports, i \in Interfaces : AssociateFloatingip(f, p, i)
        PROVE  Inv'
    BY <2>4, UpdatesInv
  <2>5. ASSUME NEW o \in Objects, DeleteInBody(o) PROVE Inv'
    BY <2>5, DeleteInBodyInv
  <2>6. ASSUME EndBody PROVE Inv'
    BY <2>6, PhaseInv
  <2> QED
    BY ONLY <1>1, <2>1, <2>2, <2>3, <2>4, <2>5, <2>6 DEF Body
<1>2. ASSUME Wait PROVE Inv'
  BY <1>2, PollInv, PhaseInv DEF Wait
<1>3. ASSUME RunCleanup PROVE Inv'
  BY <1>3, RunCleanupInv
<1>4. ASSUME Done PROVE Inv'
  BY <1>4, PhaseInv
<1>5. ASSUME Agent PROVE Inv'
  BY <1>5, PhaseInv
<1>6. ASSUME UNCHANGED vars PROVE Inv'
  <2>1. UNCHANGED <<phase, stack, live, inside, uses, waitFor, polls, agent, cached,
                    served, errors, kept, inOrder>>
    BY <1>6 DEF vars, neutron, waiting, dhcp, history
  <2>2. TypeOK' /\ UsesLive' /\ NoErrorsYet' /\ DoneIsEmpty'
    BY <2>1 DEF Inv, TypeOK, UsesLive, NoErrorsYet, DoneIsEmpty
  <2>3. WaitsForNew'
    BY <2>1 DEF Inv, WaitsForNew, Registered, InUse
  <2>4. inOrder' => Ordered'
    BY <2>1 DEF Inv, Ordered, Outlived, Covered, Registered
  <2> QED
    BY <2>2, <2>3, <2>4 DEF Inv
<1> QED
  BY <1>1, <1>2, <1>3, <1>4, <1>5, <1>6 DEF Next

\* Nothing that is alive is forgotten: it was kept, it will be deleted, its
\* deletion has failed, or create_subnet is still waiting for it.
LEMMA AccountedNext == Inv /\ Inv' /\ Accounted /\ [Next]_vars => Accounted'
<1> SUFFICES ASSUME Inv, Inv', Accounted, [Next]_vars PROVE Accounted'
  OBVIOUS
<1> USE DEF neutron, waiting, dhcp, history
<1>1. stack \in Seq(Objects) /\ Conflicts \in SUBSET Objects
  BY DEF Inv, TypeOK, Conflicts
<1>2. phase = "body" => \A x \in live : x \in kept \union Conflicts \/ Registered(x)
  BY DEF Accounted
<1>3. ASSUME NEW o \in Objects, NEW cleanup \in BOOLEAN, Register(o, cleanup), errors' = errors,
             live' = live \union {o},
             \A x \in live : x = o \/ x \in kept \union Conflicts \/ Registered(x)
      PROVE  Accounted'
  <2>1. \A x \in live' : x \in (kept \union Conflicts)' \/ Registered(x)'
    BY <1>1, <1>3, RegisterAccounted
  <2> QED
    BY <2>1 DEF Accounted
<1>4. ASSUME phase' # "waiting", phase # "waiting", UNCHANGED <<stack, live, errors, kept>>
      PROVE  Accounted'
  BY <1>4 DEF Accounted, Conflicts, Registered
<1>5. ASSUME Body PROVE Accounted'
  <2>1. ASSUME NEW o \in Others, NEW used, NEW cleanup \in BOOLEAN, Create(o, used), Register(o, cleanup)
        PROVE  Accounted'
    BY <1>2, <1>3, <2>1 DEF Create, Objects
  <2>2. ASSUME NEW s \in Subnets, NEW n \in Networks, NEW enable_dhcp \in BOOLEAN, NEW external \in BOOLEAN,
               NEW cleanup \in BOOLEAN, CreateSubnet(s, n, enable_dhcp, external, cleanup)
        PROVE  Accounted'
    <3> USE DEF CreateSubnet
    <3>1. CASE Register(s, cleanup)
      BY <1>2, <1>3, <2>2, <3>1 DEF Objects
    <3>2. CASE /\ phase' = "waiting" /\ UNCHANGED <<stack, history>>
               /\ waitFor' = [subnet |-> s, cleanup |-> cleanup]
      BY <1>2, <2>2, <3>2 DEF Accounted, Conflicts, Registered
    <3> QED
      BY <2>2, <3>1, <3>2
  <2>3. ASSUME NEW n \in Networks, NoCidrLeft(n) PROVE Accounted'
    BY <1>4, <2>3 DEF NoCidrLeft
  <2>4. ASSUME NEW p \in Ports, NEW s \in Subnets, UpdatePort(p, s) PROVE Accounted'
    BY <1>4, <2>4 DEF UpdatePort
  <2>5. ASSUME NEW f \in Fips, NEW p \in Ports, NEW i \in Interfaces, AssociateFloatingip(f, p, i)
        PROVE  Accounted'
    BY <1>4, <2>5 DEF AssociateFloatingip
  <2>6. ASSUME NEW o \in Objects, DeleteInBody(o) PROVE Accounted'
    BY <1>2, <2>6 DEF DeleteInBody, Remove, Accounted, Conflicts, Registered
  <2>7. ASSUME EndBody PROVE Accounted'
    BY <1>4, <2>7 DEF EndBody
  <2>8. ASSUME NEW cleanup \in BOOLEAN, NEW n \in Networks, CreateNetwork(n, cleanup) PROVE Accounted'
    BY <2>1, <2>8 DEF CreateNetwork, Others
  <2>9. ASSUME NEW cleanup \in BOOLEAN, NEW p \in Ports, NEW n \in Networks, CreatePort(p, n, cleanup)
        PROVE  Accounted'
    BY <2>1, <2>9 DEF CreatePort, Others
  <2>10. ASSUME NEW cleanup \in BOOLEAN, NEW r \in Routers, CreateRouter(r, cleanup) PROVE Accounted'
    BY <2>1, <2>10 DEF CreateRouter, Others
  <2>11. ASSUME NEW cleanup \in BOOLEAN, NEW r \in Routers, NEW s \in Subnets,
                CreateRouterInterface(r, s, cleanup)
         PROVE  Accounted'
    <3>1. [router |-> r, subnet |-> s] \in Others
      BY DEF Others, Interfaces
    <3> QED
      BY <2>1, <2>11, <3>1 DEF CreateRouterInterface
  <2>12. ASSUME NEW cleanup \in BOOLEAN, NEW f \in Fips, CreateFloatingip(f, cleanup) PROVE Accounted'
    BY <2>1, <2>12 DEF CreateFloatingip, Others
  <2> QED
    BY ONLY <1>5, <2>2, <2>3, <2>4, <2>5, <2>6, <2>7, <2>8, <2>9, <2>10, <2>11, <2>12 DEF Body
<1>6. ASSUME PollDhcpPort PROVE Accounted'
  <2> USE DEF PollDhcpPort
  <2>1. CASE waitFor.subnet \in served
    <3>1. /\ waitFor.subnet \in Objects /\ waitFor.cleanup \in BOOLEAN
          /\ live' = live \union {waitFor.subnet}
      BY <1>6, <2>1 DEF Inv, TypeOK, Objects
    <3>2. Register(waitFor.subnet, waitFor.cleanup) /\ errors' = errors
      BY <1>6, <2>1
    <3> QED
      BY <1>3, <3>1, <3>2 DEF Accounted
  <2>2. CASE waitFor.subnet \notin served
    BY <1>6, <2>2 DEF Accounted, Conflicts, Registered
  <2> QED
    BY <2>1, <2>2
<1>7. ASSUME DhcpNotResolved PROVE Accounted'
  BY <1>7 DEF DhcpNotResolved, RaiseNotFound, Accounted, Conflicts, Registered
<1>8. ASSUME RunCleanup PROVE Accounted'
  <2>1. SUFFICES ASSUME NEW x \in live'
                 PROVE  x \in (kept \union Conflicts)' \/ Registered(x)'
    BY DEF Accounted
  <2>2. /\ DOMAIN stack = 1 .. Len(stack) /\ Len(stack) \in Nat \ {0}
        /\ DOMAIN stack' = 1 .. Len(stack) - 1
        /\ \A i \in 1 .. Len(stack) - 1 : stack'[i] = stack[i]
    BY <1>1, <1>8, PopProperties DEF RunCleanup, Pop
  <2>3. x \in live /\ (x \in kept => x \in kept')
    BY <1>8 DEF RunCleanup, Remove
  <2>4. x \in Conflicts => x \in Conflicts'
    BY <1>8 DEF RunCleanup, Raise, Conflicts
  <2>5. x = Last => x \in Conflicts'
    <3>1. ASSUME x = Last PROVE Raise(x, "Conflict")
      BY <1>8, <2>1, <2>3, <3>1 DEF RunCleanup, Remove, Removed
    <3> QED
      BY <3>1 DEF Raise, Conflicts
  <2>6. Registered(x) /\ x # Last => Registered(x)'
    BY <2>2 DEF Registered, Last
  <2>7. x \in kept \union Conflicts \/ Registered(x)
    BY <1>8, <2>3 DEF Accounted, RunCleanup
  <2> QED
    BY <2>3, <2>4, <2>5, <2>6, <2>7
<1>9. ASSUME Done PROVE Accounted'
  BY <1>4, <1>9 DEF Done
<1>10. ASSUME Agent \/ UNCHANGED vars PROVE Accounted'
  <2>1. UNCHANGED <<phase, stack, live, waitFor, errors, kept>>
    BY <1>10 DEF Agent, AgentToggle, AgentServe, vars
  <2> QED
    BY <2>1 DEF Accounted, Conflicts, Registered
<1> QED
  BY <1>5, <1>6, <1>7, <1>8, <1>9, <1>10 DEF Next, Wait

\* The class asks for the agent no later than at its first subnet; then only
\* the subnet that create_subnet waits for may lack its DHCP port.
Served ==
  /\ cached = {} => Subnets \intersect live = {}
  /\ phase \in {"body", "waiting"} /\ cached = {TRUE} =>
       \A s \in Subnets \intersect live :
         inside[s].awaited => s \in served \/ (phase = "waiting" /\ s = waitFor.subnet)

LEMMA ServedNext == Inv /\ Served /\ [Next]_vars => Served'
<1> SUFFICES ASSUME Inv, Served, [Next]_vars PROVE Served'
  OBVIOUS
<1> USE DEF neutron, waiting, dhcp, history
\* The steps that make and serve no subnet, and begin no wait.
<1>1. ASSUME phase' \in {phase, "cleanup", "done"}, UNCHANGED <<inside, waitFor, cached>>,
             Subnets \intersect live' \subseteq Subnets \intersect live,
             \A s \in Subnets \intersect live' : s \in served => s \in served'
      PROVE  Served'
  BY <1>1 DEF Served
<1>2. ASSUME NEW o \in Others, NEW used, Create(o, used), UNCHANGED inside PROVE Served'
  <2>1. Subnets \intersect live' = Subnets \intersect live
    BY <1>2, KindsAssumption DEF Create
  <2> QED
    BY <1>1, <1>2, <2>1 DEF Create
<1>3. ASSUME NEW o, Remove(o), UNCHANGED <<phase, inside, waitFor, cached>> PROVE Served'
  BY <1>1, <1>3 DEF Remove
<1>4. ASSUME NEW n \in Networks, NEW s \in Subnets, NEW enable_dhcp \in BOOLEAN, NEW external \in BOOLEAN,
             NEW cleanup \in BOOLEAN, CreateSubnet(s, n, enable_dhcp, external, cleanup)
      PROVE  Served'
  <2>1. /\ live' = live \union {s} /\ served' = served /\ cached' = Present
        /\ inside'[s].awaited = (enable_dhcp /\ ~external)
        /\ \A q \in Subnets : q # s => inside'[q] = inside[q]
        /\ phase = "body"
    BY <1>4 DEF CreateSubnet, Inv, TypeOK
  <2>2. cached' # {}
    BY <2>1 DEF Present
  <2>3. \A q \in Subnets \intersect live : cached' = {TRUE} /\ inside[q].awaited => q \in served
    BY <2>1 DEF Present, Served
  <2>4. CASE MustWait(enable_dhcp, external) /\ phase' = "waiting" /\ waitFor'.subnet = s
    BY <2>1, <2>2, <2>3, <2>4 DEF Served
  <2>5. CASE ~MustWait(enable_dhcp, external) /\ UNCHANGED phase
    BY <2>1, <2>2, <2>3, <2>5 DEF Served, MustWait
  <2> QED
    BY <1>4, <2>4, <2>5 DEF CreateSubnet
<1>5. CASE Body
  <2>1. ASSUME NEW cleanup \in BOOLEAN,
               \/ \E n \in Networks : CreateNetwork(n, cleanup)
               \/ \E p \in Ports, n \in Networks : CreatePort(p, n, cleanup)
               \/ \E r \in Routers : CreateRouter(r, cleanup)
               \/ \E r \in Routers, s \in Subnets : CreateRouterInterface(r, s, cleanup)
               \/ \E f \in Fips : CreateFloatingip(f, cleanup)
        PROVE  Served'
    <3>1. PICK o \in Others : \E used : Create(o, used) /\ UNCHANGED inside
      BY <2>1 DEF CreateNetwork, CreatePort, CreateRouter, CreateRouterInterface, CreateFloatingip,
                  Others, Interfaces
    <3> QED
      BY <1>2, <3>1
  <2>2. ASSUME NEW o \in Objects, DeleteInBody(o) PROVE Served'
    BY <1>3, <2>2 DEF DeleteInBody
  <2>3. ASSUME \/ EndBody \/ \E n \in Networks : NoCidrLeft(n)
               \/ \E p \in Ports, s \in Subnets : UpdatePort(p, s)
               \/ \E f \in Fips, p \in Ports, i \in Interfaces : AssociateFloatingip(f, p, i)
        PROVE  Served'
    <3>1. phase' \in {phase, "cleanup"} /\ UNCHANGED <<live, inside, waitFor, cached, served>>
      BY <2>3 DEF EndBody, NoCidrLeft, UpdatePort, AssociateFloatingip
    <3> QED
      BY <1>1, <3>1
  <2> QED
    BY <1>4, <1>5, <2>1, <2>2, <2>3 DEF Body
<1>6. CASE PollDhcpPort
  <2>1. CASE waitFor.subnet \in served /\ phase' = "body"
    BY <1>6, <2>1 DEF PollDhcpPort, Served
  <2>2. CASE UNCHANGED <<phase, waitFor>>
    BY <1>1, <1>6, <2>2 DEF PollDhcpPort
  <2> QED
    BY <1>6, <2>1, <2>2 DEF PollDhcpPort
<1>7. CASE DhcpNotResolved \/ Done
  <2>1. phase' \in {"cleanup", "done"} /\ UNCHANGED <<live, cached>>
    BY <1>7 DEF DhcpNotResolved, RaiseNotFound, Done
  <2> QED
    BY <2>1 DEF Served
<1>8. CASE RunCleanup
  <2>1. phase' = "cleanup" /\ UNCHANGED cached /\ live' \subseteq live
    BY <1>8 DEF RunCleanup, Remove
  <2> QED
    BY <2>1 DEF Served
<1>9. CASE Agent
  BY <1>1, <1>9 DEF Agent, AgentToggle, AgentServe
<1>10. CASE UNCHANGED vars
  BY <1>1, <1>10 DEF vars
<1> QED
  BY <1>5, <1>6, <1>7, <1>8, <1>9, <1>10 DEF Next, Wait

-----------------------------------------------------------------------------
(* The theorems.                                                           *)

\* The inductive invariant holds of every behaviour.
LEMMA Invariance == Spec => []Inv
<1>1. Inv /\ [Next]_vars => Inv'
  BY InvNext
<1> QED
  BY <1>1, InvInit, PTL DEF Spec

\* The state of a test and of Neutron is what the declarations say.
THEOREM FixturesTypeCorrect == Spec => []TypeOK
<1>1. Inv => TypeOK
  BY DEF Inv
<1> QED
  BY <1>1, Invariance, PTL

\* Registering each deletion right after the creation, and running the
\* deletions in reverse, is enough: a body that stayed in order is torn down
\* without an error and without a leftover, wherever it stopped.
THEOREM LifoTeardown == Spec => []TeardownIsClean
<1>1. Inv => TeardownIsClean
  <2> SUFFICES ASSUME Inv, phase = "done", inOrder PROVE errors = {} /\ live = {}
    BY DEF TeardownIsClean
  <2>1. stack = <<>> /\ Ordered
    BY DEF Inv, DoneIsEmpty
  <2>2. DOMAIN stack = {}
    BY <2>1, LenProperties, EmptySeq DEF Inv, TypeOK
  <2> QED
    BY <2>1, <2>2 DEF Ordered, Covered, Registered
<1> QED
  BY <1>1, Invariance, PTL

\* Whatever the body did, what the cleanups leave behind was kept on purpose,
\* or a failed deletion was reported for it.
THEOREM LeftoversAreReported == Spec => []NothingLeftSilently
<1>1. Init => Accounted
  BY DEF Init, Accounted
<1>2. Inv /\ Inv' /\ Accounted /\ [Next]_vars => Accounted'
  BY AccountedNext
<1>3. Inv /\ Accounted => NothingLeftSilently
  <2> SUFFICES ASSUME Inv, Accounted, phase = "done", NEW x \in live
               PROVE  x \in kept \union Conflicts
    BY DEF NothingLeftSilently, Conflicts
  <2>1. stack = <<>>
    BY DEF Inv, DoneIsEmpty
  <2>2. DOMAIN stack = {}
    BY <2>1, LenProperties, EmptySeq DEF Inv, TypeOK
  <2> QED
    BY <2>2 DEF Accounted, Registered
<1> QED
  BY <1>1, <1>2, <1>3, Invariance, PTL DEF Spec

\* What the class has cached of the agent never lets create_subnet hand over a
\* subnet without its DHCP port (dhcp_agent_present, nuage_test.py:227).
THEOREM SubnetsAreServed == Spec => []BodySeesServedSubnets
<1>1. Init => Served
  BY DEF Init, Served
<1>2. Inv /\ Served /\ [Next]_vars => Served'
  BY ServedNext
<1>3. Served => BodySeesServedSubnets
  BY DEF Served, BodySeesServedSubnets
<1> QED
  BY <1>1, <1>2, <1>3, Invariance, PTL DEF Spec
=============================================================================
