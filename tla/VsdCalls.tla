------------------------------ MODULE VsdCalls ------------------------------
(***************************************************************************)
(* What a caller of RESTProxyServer.rest_call may rely on, whatever the    *)
(* network does: an operation takes effect only while its call is open, a  *)
(* call that answers "ok" has taken effect, an answer is final, and a call *)
(* that is closed never takes effect any more.  A call may close late: a   *)
(* request that was given up by the client can still reach the VSD.        *)
(***************************************************************************)
EXTENDS Naturals

CONSTANTS
  MaxCalls,     \* bound on the calls of one client
  Operations,   \* the HTTP methods callers use
  Outcomes      \* what a finished call can have returned or raised

VARIABLES
  calls,     \* number of the latest call
  operation, \* the method of each call
  results,   \* what each call returned or raised; "pending" until then
  resource,  \* 0, or the number of the call that wrote the VSD object last
  applied,   \* the calls that have taken effect on the VSD
  open       \* the calls that may still take effect

vars == <<calls, operation, results, resource, applied, open>>

Calls == 1..MaxCalls

Init ==
  /\ calls = 0
  /\ operation = [c \in Calls |-> "none"]
  /\ results = [c \in Calls |-> "pending"]
  /\ resource = 0
  /\ applied = {}
  /\ open = {}

\* A caller issues its next operation once the previous call is over.
Invoke(op) ==
  /\ calls < MaxCalls
  /\ calls > 0 => results[calls] # "pending"
  /\ calls' = calls + 1
  /\ operation' = [operation EXCEPT ![calls + 1] = op]
  /\ open' = open \union {calls + 1}
  /\ UNCHANGED <<results, resource, applied>>

\* The VSD carries out the operation of an open call: a POST needs the
\* object to be absent, every other method needs it to be there.
Apply(c) ==
  /\ c \in open
  /\ (operation[c] = "POST") <=> (resource = 0)
  /\ resource' = IF operation[c] = "GET" THEN resource
                 ELSE IF operation[c] = "DELETE" THEN 0 ELSE c
  /\ applied' = applied \union {c}
  /\ open' \in {open, open \ {c}}
  /\ UNCHANGED <<calls, operation, results>>

\* The call comes back with a result.
Return(res) ==
  /\ calls > 0
  /\ results[calls] = "pending"
  /\ res = "ok" => calls \in applied
  /\ results' = [results EXCEPT ![calls] = res]
  /\ open' \in {open, open \ {calls}}
  /\ UNCHANGED <<calls, operation, resource, applied>>

\* A request that was given up never arrives, or arrives without effect.
Close(c) ==
  /\ results[c] # "pending"
  /\ open' = open \ {c}
  /\ UNCHANGED <<calls, operation, results, resource, applied>>

Next ==
  \/ \E op \in Operations : Invoke(op)
  \/ \E c \in open : Apply(c) \/ Close(c)
  \/ \E res \in Outcomes : Return(res)

Spec == Init /\ [][Next]_vars
=============================================================================
