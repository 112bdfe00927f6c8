----------------------------- MODULE RestProxy -----------------------------
(***************************************************************************)
(* RESTProxyServer (lib/utils/restproxy.py): one client object, the VSD it *)
(* talks to and the network between them.                                  *)
(*                                                                         *)
(* rest_call runs _rest_call, a loop of MaxRetries attempts that retries   *)
(* after a socket error and after a 503.  When the answer is a 401 it runs *)
(* generate_nuage_auth, which replaces self.auth by the user's password,   *)
(* asks for an API key with a nested rest_call, stores the key, and the    *)
(* operation is sent a second time.  The nested call follows the same      *)
(* rule, so rest_call and generate_nuage_auth are mutually recursive:      *)
(* depth counts the open rest_call frames above the caller's.  Every frame *)
(* below the top one waits for its generate_nuage_auth, hence depth and    *)
(* the round of the top frame are the whole stack.                         *)
(*                                                                         *)
(* Call 0 is the construction of the client, NuageRestClient.__init__,     *)
(* which runs generate_nuage_auth without a caller's operation.            *)
(***************************************************************************)
EXTENDS Naturals

CONSTANTS
  MaxRetries,   \* attempts of one _rest_call (max_retries)
  MaxDepth,     \* nested rest_calls the interpreter's stack can hold
  MaxCalls,     \* bound: operations issued by the client
  MaxKeys,      \* bound: API keys the VSD issues, one per expiry
  Operations    \* the HTTP methods callers use

ASSUME RetriesAssumption == MaxRetries \in Nat \ {0}
ASSUME DepthAssumption == MaxDepth \in Nat \ {0}
ASSUME CallsAssumption == MaxCalls \in Nat \ {0}
ASSUME KeysAssumption == MaxKeys \in Nat \ {0}
ASSUME OperationsAssumption == Operations \subseteq {"POST", "PUT", "DELETE", "GET"}

VARIABLES
  \* the client
  pc,         \* "idle", "waiting" for an answer, or "answered": a _rest_call is over
  auth,       \* self.auth: NoAuth, Password, or the number of an API key
  depth,      \* rest_call frames above the caller's operation
  round,      \* which _rest_call of the top frame runs: the first or the second
  attempt,    \* attempts of this _rest_call that are over
  ret,        \* ret of _rest_call: the last answer the loop kept
  calls,      \* number of the latest operation; 0 during construction
  operation,  \* the method of each operation
  results,    \* what each call returned or raised, "pending" until then
  \* the network and the VSD
  reply,      \* the VSD's answer to the current request, NoReply before
  abandoned,  \* requests the client has given up and the VSD may still get
  serverKey,  \* the API key the VSD accepts; earlier ones have expired
  resource,   \* 0, or the number of the operation that wrote the object last
  \* history
  effects,    \* the requests that have taken effect on the VSD
  lost,       \* the requests whose answer never reached the client
  rejected,   \* the credentials with which the current operation met a 401
  troubled    \* something other than an old key disturbed the current call

connection == <<pc, depth, round, attempt, ret, reply>>
caller == <<calls, operation>>
vsd == <<abandoned, serverKey, resource, effects>>
vars == <<connection, caller, vsd, auth, results, lost, rejected, troubled>>

NoAuth == 0
Password == 1
Keys == 2..(MaxKeys + 1)

Statuses == {"ok", "unauthorized", "denied", "missing", "conflict", "error", "unavailable"}
Exceptions == {"AttributeError", "AssertionError", "IndexError", "RecursionError",
               "HTTPException"}
Outcomes == Statuses \union {"none"} \union Exceptions

Answer(status, key) == [status |-> status, key |-> key]
NoReply == Answer("none", NoAuth)

\* An attempt of the caller's operation, with the Authorization header it carries.
Request == [call |-> calls, round |-> round, attempt |-> attempt, auth |-> auth]

\* A NuageRestClient exists only if the generate_nuage_auth of its constructor returned.
Constructed == results[0] = "ok"

-----------------------------------------------------------------------------
(* The client.                                                             *)

\* Entering _rest_call: ret = None, the header is computed, the loop starts.
StartAttempts(r) ==
  /\ pc' = "waiting"
  /\ round' = r
  /\ attempt' = 0
  /\ ret' = NoReply
  /\ reply' = NoReply

\* NuageRestClient.__init__ -> generate_nuage_auth -> rest_call.  The object of
\* an earlier construction that failed is gone.
Connect ==
  /\ pc = "idle"
  /\ ~Constructed
  /\ auth' = Password
  /\ depth' = 1
  /\ StartAttempts(1)
  /\ results' = [results EXCEPT ![0] = "pending"]
  /\ troubled' = FALSE
  /\ UNCHANGED <<caller, vsd, lost, rejected>>

\* A caller issues rest_call(op, ...).
Call(op) ==
  /\ pc = "idle"
  /\ Constructed
  /\ calls < MaxCalls
  /\ calls' = calls + 1
  /\ operation' = [operation EXCEPT ![calls + 1] = op]
  /\ depth' = 0
  /\ StartAttempts(1)
  /\ rejected' = NoAuth
  /\ troubled' = FALSE
  /\ UNCHANGED <<vsd, auth, results, lost>>

\* for attempt in range(self.max_retries).  A slip: one attempt more.
OneMoreAttempt(n) == n <= MaxRetries
MoreAttempts(n) == n < MaxRetries

\* The end of a pass of the loop: another attempt, or "return ret or None".
\* A slip: trying until the VSD answers.
RetryForever ==
  /\ attempt' = attempt
  /\ pc' = "waiting"
  /\ reply' = NoReply
NextAttempt ==
  /\ attempt' = attempt + 1
  /\ pc' = IF MoreAttempts(attempt + 1) THEN "waiting" ELSE "answered"
  /\ reply' = NoReply

\* The answers after which the loop goes on.  A slip: every server error.
RetryServerErrors == {"unavailable", "error"}
Retried == {"unavailable"}

\* An answer other than a 503 ends the loop.
Receive ==
  /\ pc = "waiting"
  /\ reply.status \notin {"none"} \union Retried
  /\ ret' = reply
  /\ pc' = "answered"
  /\ reply' = NoReply
  /\ UNCHANGED <<caller, vsd, auth, depth, round, attempt, results, lost, rejected, troubled>>

\* A 503 is kept in ret and the loop goes on.
ReceiveUnavailable ==
  /\ pc = "waiting"
  /\ reply.status \in Retried
  /\ ret' = reply
  /\ NextAttempt
  /\ UNCHANGED <<caller, vsd, auth, depth, round, results, lost, rejected, troubled>>

\* The answer does not arrive.  If the VSD has not served the request yet, it
\* never will (the connection failed) or it still may (the client timed out).
LoseAnswer ==
  /\ pc = "waiting"
  /\ troubled' = TRUE
  /\ lost' = IF depth = 0 THEN lost \union {Request} ELSE lost
  /\ \/ UNCHANGED abandoned
     \/ /\ depth = 0
        /\ reply.status = "none"
        /\ abandoned' = abandoned \union {Request}
  /\ UNCHANGED <<caller, serverKey, resource, effects, rejected>>

\* socket.timeout or socket.error: close, sleep, next attempt; ret keeps an
\* older 503.
SocketError ==
  /\ LoseAnswer
  /\ NextAttempt
  /\ UNCHANGED <<auth, depth, round, ret, results>>

\* The outermost call is over, the caller has its result.
Finish(outcome) ==
  /\ pc' = "idle"
  /\ depth' = 0
  /\ round' = 1
  /\ attempt' = 0
  /\ ret' = NoReply
  /\ reply' = NoReply
  /\ results' = [results EXCEPT ![calls] = outcome]

\* No frame handles exceptions.  One that escapes the constructor leaves no
\* client behind, any other leaves self.auth as it is at that moment.
Raise(exception) ==
  /\ Finish(exception)
  /\ auth' = IF Constructed THEN auth ELSE NoAuth

\* A malformed answer: httplib's HTTPException is not a socket.error.
BreakProtocol ==
  /\ LoseAnswer
  /\ Raise("HTTPException")

\* A 401 to the first _rest_call of a frame starts generate_nuage_auth.  A slip:
\* only if the credentials refused were an API key.
ReauthenticateKeyOnly == round = 1 /\ ret.status = "unauthorized" /\ auth # Password
MustReauthenticate == round = 1 /\ ret.status = "unauthorized"

\* generate_nuage_auth, entered because the first answer of a frame is a 401;
\* its request for the key runs in a frame of its own.
Reauthenticate ==
  /\ pc = "answered"
  /\ MustReauthenticate
  /\ rejected' = IF depth = 0 THEN auth ELSE rejected
  /\ \/ /\ depth < MaxDepth
        /\ auth' = Password
        /\ depth' = depth + 1
        /\ StartAttempts(1)
        /\ UNCHANGED results
     \/ /\ depth = MaxDepth
        /\ Raise("RecursionError")
  /\ UNCHANGED <<caller, vsd, lost, troubled>>

\* A frame that waits for the key below the nested rest_call: an outer nested
\* one, or the caller's.  A slip: the caller's own operation is forgotten.
NestedFrameBelow == depth > 1
FrameBelow == depth > 1 \/ Constructed

\* self.auth after the answer with the key.  A slip: the key is not stored.
KeepPassword == auth
NewAuth == ret.key

\* The nested rest_call has returned the key: self.auth carries it from now on,
\* and the frame below sends its request again, unless there is none.
StoreKey ==
  /\ pc = "answered"
  /\ depth > 0
  /\ ret.status = "ok"
  /\ auth' = NewAuth
  /\ \/ /\ FrameBelow
        /\ depth' = depth - 1
        /\ StartAttempts(2)
        /\ UNCHANGED results
     \/ /\ ~FrameBelow
        /\ Finish("ok")
  /\ UNCHANGED <<caller, vsd, lost, rejected, troubled>>

\* Any other answer to the request for the key: "Could not authenticate to REST
\* server. Abort"; an answer without a body already fails at data[0].
AuthenticationAborts ==
  /\ pc = "answered"
  /\ depth > 0
  /\ ret.status \notin {"none", "ok"}
  /\ ~MustReauthenticate
  /\ \E exception \in {"AssertionError", "IndexError"} : Raise(exception)
  /\ UNCHANGED <<caller, vsd, lost, rejected, troubled>>

\* Every attempt met a socket error and _rest_call returned None.  rest_call
\* reads status off the first _rest_call, generate_nuage_auth reads data off
\* what rest_call returned; only the caller's second None gets through.
NoAnswer ==
  /\ pc = "answered"
  /\ ret.status = "none"
  /\ \/ /\ round = 1 \/ depth > 0
        /\ Raise("AttributeError")
     \/ /\ round = 2 /\ depth = 0
        /\ Finish("none")
        /\ UNCHANGED auth
  /\ UNCHANGED <<caller, vsd, lost, rejected, troubled>>

\* rest_call hands the answer to the caller; the second one is not looked at.
Return ==
  /\ pc = "answered"
  /\ depth = 0
  /\ ret.status # "none"
  /\ ~MustReauthenticate
  /\ Finish(ret.status)
  /\ UNCHANGED <<caller, vsd, auth, lost, rejected, troubled>>

-----------------------------------------------------------------------------
(* The VSD, as the client uses it: the resource that hands out the API key *)
(* takes the password, every other resource takes the current API key.     *)

Accepted == IF auth = Password THEN depth > 0 ELSE auth = serverKey

\* POST needs the object to be absent, the other methods need it to be there.
Possible(c) == operation[c] = "POST" <=> resource = 0

\* The effect of operation c.
TakesEffect(c) ==
  resource' = IF operation[c] = "GET" THEN resource
              ELSE IF operation[c] = "DELETE" THEN 0 ELSE c

Serve(status, key) ==
  /\ pc = "waiting"
  /\ reply = NoReply
  /\ reply' = Answer(status, key)
  /\ UNCHANGED <<pc, auth, depth, round, attempt, ret, caller, results,
                 abandoned, serverKey, lost, rejected>>

\* 503: too busy to look at the request.
ServeUnavailable ==
  /\ Serve("unavailable", NoAuth)
  /\ troubled' = TRUE
  /\ UNCHANGED <<resource, effects>>

\* 401 to a key that has expired, to the password on an ordinary resource, or,
\* when the VSD cannot verify it (wrong or locked account), to the password.
ServeUnauthorized ==
  /\ Serve("unauthorized", NoAuth)
  /\ ~Accepted \/ auth = Password
  /\ troubled' = (troubled \/ Accepted)
  /\ UNCHANGED <<resource, effects>>

\* 403, a 401 with another reason, or a 4xx about the request itself.
ServeDenied ==
  /\ Serve("denied", NoAuth)
  /\ Accepted
  /\ troubled' = TRUE
  /\ UNCHANGED <<resource, effects>>

\* The API key.
ServeKey ==
  /\ Serve("ok", serverKey)
  /\ Accepted
  /\ depth > 0
  /\ UNCHANGED <<resource, effects, troubled>>

\* The caller's operation.
ServeOperation ==
  /\ Serve("ok", NoAuth)
  /\ Accepted
  /\ depth = 0
  /\ Possible(calls)
  /\ TakesEffect(calls)
  /\ effects' = effects \union {Request}
  /\ UNCHANGED troubled

\* 409 for a second POST, 404 for the other methods on an absent object.
ServeRefusal ==
  /\ pc = "waiting"
  /\ depth = 0
  /\ Accepted
  /\ ~Possible(calls)
  /\ Serve(IF operation[calls] = "POST" THEN "conflict" ELSE "missing", NoAuth)
  /\ UNCHANGED <<resource, effects, troubled>>

\* 500, before or after the operation took effect.
ServeError ==
  /\ Serve("error", NoAuth)
  /\ Accepted
  /\ troubled' = TRUE
  /\ \/ UNCHANGED <<resource, effects>>
     \/ /\ depth = 0
        /\ Possible(calls)
        /\ TakesEffect(calls)
        /\ effects' = effects \union {Request}

\* A request the client gave up arrives after all, perhaps during a later
\* operation; it takes effect if its key is still good.
ServeAbandoned(r) ==
  /\ abandoned' = abandoned \ {r}
  /\ \/ /\ r.auth = serverKey
        /\ Possible(r.call)
        /\ TakesEffect(r.call)
        /\ effects' = effects \union {r}
     \/ /\ ~(r.auth = serverKey /\ Possible(r.call))
        /\ UNCHANGED <<resource, effects>>
  /\ UNCHANGED <<connection, caller, serverKey, auth, results, lost, rejected, troubled>>

\* An API key has a lifetime; the next one is another.
ExpireKey ==
  /\ serverKey < MaxKeys + 1
  /\ serverKey' = serverKey + 1
  /\ troubled' = (troubled \/ pc # "idle")
  /\ UNCHANGED <<connection, caller, auth, results, abandoned, resource, effects, lost, rejected>>

-----------------------------------------------------------------------------

Init ==
  /\ pc = "idle"
  /\ auth = NoAuth
  /\ depth = 0
  /\ round = 1
  /\ attempt = 0
  /\ ret = NoReply
  /\ reply = NoReply
  /\ calls = 0
  /\ operation = [c \in 1..MaxCalls |-> "none"]
  /\ results = [c \in 0..MaxCalls |-> "pending"]
  /\ abandoned = {}
  /\ serverKey = 2
  /\ resource = 0
  /\ effects = {}
  /\ lost = {}
  /\ rejected = NoAuth
  /\ troubled = FALSE

\* What the client does with the answers it gets.
Proceed ==
  \/ Receive
  \/ ReceiveUnavailable
  \/ Reauthenticate
  \/ StoreKey
  \/ AuthenticationAborts
  \/ NoAnswer
  \/ Return

ServeCurrent ==
  \/ ServeUnavailable
  \/ ServeUnauthorized
  \/ ServeDenied
  \/ ServeKey
  \/ ServeOperation
  \/ ServeRefusal
  \/ ServeError

Next ==
  \/ Connect
  \/ \E op \in Operations : Call(op)
  \/ Proceed
  \/ SocketError
  \/ BreakProtocol
  \/ ServeCurrent
  \/ \E r \in abandoned : ServeAbandoned(r)
  \/ ExpireKey

\* The process keeps running, and the socket's timeout ends every wait.
Fairness ==
  /\ WF_vars(Proceed)
  /\ WF_vars(SocketError)

Spec == Init /\ [][Next]_vars /\ Fairness

-----------------------------------------------------------------------------
(* Properties.                                                             *)

Requests == [call : 1..MaxCalls, round : 1..2, attempt : Nat, auth : {Password} \union Keys]
Replies == [status : Statuses \union {"none"}, key : {NoAuth} \union Keys]

ClientTypeOK ==
  /\ pc \in {"idle", "waiting", "answered"}
  /\ auth \in {NoAuth, Password} \union Keys
  /\ depth \in 0..MaxDepth
  /\ round \in 1..2
  /\ attempt \in 0..MaxRetries
  /\ ret \in Replies
  /\ reply \in Replies

CallsTypeOK ==
  /\ calls \in 0..MaxCalls
  /\ operation \in [1..MaxCalls -> Operations \union {"none"}]
  /\ results \in [0..MaxCalls -> Outcomes \union {"pending"}]
  /\ rejected \in {NoAuth, Password} \union Keys
  /\ troubled \in BOOLEAN

VsdTypeOK ==
  /\ serverKey \in Keys
  /\ resource \in 0..MaxCalls
  /\ abandoned \subseteq Requests
  /\ effects \subseteq Requests
  /\ lost \subseteq Requests

\* Every variable has its type: attempts stay within max_retries, a request of
\* the caller's operation always carries credentials.
TypeOK == ClientTypeOK /\ CallsTypeOK /\ VsdTypeOK

\* An operation that was retried, whether after a 503 or after a 401 with a new
\* key, takes effect once: a second effect is always that of a request whose
\* answer was lost on the way.
RepeatedOnlyAfterLoss ==
  \A r, s \in effects \ lost : r.call = s.call => r = s

\* A caller that is told "ok" has its operation carried out by a request whose
\* answer it has seen; a caller that is told anything but "ok" or a 500 knows
\* that nothing happened, unless an answer was lost.  An old answer of the loop,
\* a 503 kept in ret or the answer of the first round, never stands in for a
\* later one.
TruthfulResult ==
  \A c \in 1..calls :
    /\ results[c] = "ok" => \E r \in effects \ lost : r.call = c
    /\ results[c] \notin {"ok", "error", "pending"} => \A r \in effects : r.call = c => r \in lost

\* The second round of an operation never goes out with the credentials the VSD
\* has just refused, nor with the password that generate_nuage_auth puts into
\* self.auth meanwhile: whatever the depth the nested calls reached, the key in
\* use is newer.
SecondRoundHasNewKey ==
  pc # "idle" /\ depth = 0 /\ round = 2 => auth \in Keys /\ auth > rejected

\* An expired key, or a password left in self.auth by an earlier failure, is
\* invisible to the caller: unless something else goes wrong during the call,
\* it gets the VSD's verdict on its operation.
ReauthenticationIsInvisible ==
  pc = "idle" /\ calls > 0 /\ ~troubled => results[calls] \in {"ok", "conflict", "missing"}

\* Every call comes back, with a result or an exception, whatever the VSD and
\* the network do.
EveryCallReturns == (pc # "idle") ~> (pc = "idle")

\* rest_call keeps the promises of the abstract service, where a call stays open
\* until it is over and none of its requests is still on the way.
AppliedCalls == {r.call : r \in effects}
OpenCalls == {r.call : r \in abandoned} \union {c \in {calls} : calls > 0 /\ pc # "idle"}
CallResults == [c \in 1..MaxCalls |-> results[c]]

Service == INSTANCE VsdCalls WITH
  results <- CallResults, applied <- AppliedCalls, open <- OpenCalls

ImplementsService == Service!Spec

\* generate_nuage_auth asserts "Could not authenticate to REST server. Abort"
\* when the VSD does not accept the user's credentials.
RejectedCredentialsAbort == results[calls] # "RecursionError"

\* generate_nuage_auth asserts "Could not establish conn with REST server.
\* Abort" when the VSD cannot be reached.
UnreachableServerAborts == results[0] # "AttributeError"
=============================================================================
