-------------------------- MODULE RestProxyProofs --------------------------
(***************************************************************************)
(* Theorems about RestProxy, for every number of retries, depth of the     *)
(* stack, number of operations and of keys.                                *)
(***************************************************************************)
EXTENDS RestProxy, TLAPS

\* What TypeOK rests on.  A request only leaves with credentials in self.auth,
\* on behalf of the construction or of an operation.
CredentialsOK ==
  /\ pc = "waiting" => attempt < MaxRetries
  /\ calls > 0 => Constructed
  /\ Constructed \/ pc # "idle" => auth # NoAuth
  /\ pc # "idle" /\ ~Constructed => depth > 0
  /\ pc # "idle" /\ Constructed => calls > 0

\* A call has a result once it is over, and not before.
ResultsOK ==
  /\ pc # "idle" => results[calls] = "pending"
  /\ pc = "idle" /\ calls > 0 => results[calls] # "pending"
  /\ \A c \in 1..MaxCalls : c < calls => results[c] # "pending"
  /\ \A c \in 0..MaxCalls : c > calls => results[c] = "pending"

\* The loop keeps nothing but a 503, and the answer to the request for the key
\* carries one.
AnswersOK ==
  /\ pc = "waiting" => ret.status \in {"none"} \union Retried
  /\ pc = "answered" => reply = NoReply
  /\ depth > 0 /\ reply.status = "ok" => reply.key \in Keys
  /\ depth > 0 /\ ret.status = "ok" => ret.key \in Keys

TypeInv == TypeOK /\ CredentialsOK /\ ResultsOK /\ AnswersOK

USE RetriesAssumption, DepthAssumption, CallsAssumption, KeysAssumption,
    OperationsAssumption
USE DEF NoAuth, Password, Keys, Statuses, Exceptions, Outcomes, Replies,
        Answer, NoReply, Constructed

LEMMA TypeInvInit == Init => TypeInv
<1> SUFFICES ASSUME Init PROVE TypeInv
  OBVIOUS
<1> USE DEF Init
<1>1. TypeOK
  <2>1. ClientTypeOK
    BY DEF ClientTypeOK
  <2>2. CallsTypeOK
    <3>1. operation \in [1..MaxCalls -> Operations \union {"none"}]
      OBVIOUS
    <3>2. results \in [0..MaxCalls -> Outcomes \union {"pending"}]
      OBVIOUS
    <3>3. calls \in 0..MaxCalls /\ rejected = NoAuth /\ troubled = FALSE
      OBVIOUS
    <3>4. QED
      BY ONLY <3>1, <3>2, <3>3 DEF CallsTypeOK
  <2>3. VsdTypeOK
    BY DEF VsdTypeOK
  <2>4. QED
    BY <2>1, <2>2, <2>3 DEF TypeOK
<1>2. CredentialsOK
  BY DEF CredentialsOK
<1>3. ResultsOK
  BY DEF ResultsOK
<1>4. AnswersOK
  BY DEF AnswersOK
<1>5. QED
  BY <1>1, <1>2, <1>3, <1>4 DEF TypeInv

\* The current request is a well-formed one whenever an attempt of the caller's
\* operation is under way.
LEMMA RequestType ==
  ASSUME TypeInv, pc = "waiting", depth = 0
  PROVE  Request \in Requests
  BY DEF TypeInv, TypeOK, ClientTypeOK, CallsTypeOK, VsdTypeOK, CredentialsOK, Request, Requests

LEMMA TypeInvStep == TypeInv /\ [Next]_vars => TypeInv'
<1> SUFFICES ASSUME TypeInv, [Next]_vars PROVE TypeInv'
  OBVIOUS
<1> USE DEF TypeInv, TypeOK, ClientTypeOK, CallsTypeOK, VsdTypeOK, caller, vsd, Retried
<1>1. CASE Connect
  <2>1. TypeOK'
    <3>1. ClientTypeOK'
      BY <1>1 DEF CredentialsOK, AnswersOK, Connect, StartAttempts
    <3>2. CallsTypeOK'
      BY <1>1 DEF CredentialsOK, AnswersOK, Connect, StartAttempts
    <3>3. VsdTypeOK'
      BY <1>1 DEF CredentialsOK, AnswersOK, Connect, StartAttempts
    <3>4. QED
      BY <3>1, <3>2, <3>3
  <2>2. CredentialsOK'
    BY <1>1 DEF CredentialsOK, AnswersOK, Connect, StartAttempts
  <2>3. ResultsOK'
    BY <1>1 DEF CredentialsOK, ResultsOK, Connect, StartAttempts
  <2>4. AnswersOK'
    BY <1>1 DEF AnswersOK, Connect, StartAttempts
  <2>5. QED
    BY <2>1, <2>2, <2>3, <2>4
<1>2. ASSUME NEW op \in Operations, Call(op) PROVE TypeInv'
  <2>1. TypeOK'
    <3>1. ClientTypeOK'
      BY <1>2 DEF CredentialsOK, AnswersOK, Call, StartAttempts
    <3>2. CallsTypeOK'
      <4>1. calls + 1 \in 1..MaxCalls /\ calls' = calls + 1
        BY <1>2 DEF Call
      <4>2. operation' \in [1..MaxCalls -> Operations \union {"none"}]
        BY <1>2, <4>1 DEF Call
      <4>3. rejected' = NoAuth /\ troubled' = FALSE /\ results' = results
        BY <1>2 DEF Call
      <4>4. results' \in [0..MaxCalls -> Outcomes \union {"pending"}]
        BY <4>3
      <4>5. calls' \in 0..MaxCalls
        BY <4>1
      <4>6. rejected' \in {NoAuth, Password} \union Keys /\ troubled' \in BOOLEAN
        BY <4>3
      <4>7. QED
        BY ONLY <4>2, <4>4, <4>5, <4>6 DEF CallsTypeOK
    <3>3. VsdTypeOK'
      BY <1>2 DEF CredentialsOK, AnswersOK, Call, StartAttempts
    <3>4. QED
      BY <3>1, <3>2, <3>3
  <2>2. CredentialsOK'
    BY <1>2 DEF CredentialsOK, AnswersOK, Call, StartAttempts
  <2>3. ResultsOK'
    BY <1>2 DEF CredentialsOK, ResultsOK, Call, StartAttempts
  <2>4. AnswersOK'
    BY <1>2 DEF AnswersOK, Call, StartAttempts
  <2>5. QED
    BY <2>1, <2>2, <2>3, <2>4
<1>3. CASE Receive
  <2>1. TypeOK'
    BY <1>3 DEF CredentialsOK, AnswersOK, Receive
  <2>2. CredentialsOK'
    BY <1>3 DEF CredentialsOK, AnswersOK, Receive
  <2>3. ResultsOK'
    BY <1>3 DEF CredentialsOK, ResultsOK, Receive
  <2>4. AnswersOK'
    BY <1>3 DEF AnswersOK, Receive
  <2>5. QED
    BY <2>1, <2>2, <2>3, <2>4
<1>4. CASE ReceiveUnavailable
  <2>1. TypeOK'
    BY <1>4 DEF CredentialsOK, AnswersOK, ReceiveUnavailable, NextAttempt, MoreAttempts
  <2>2. CredentialsOK'
    BY <1>4 DEF CredentialsOK, AnswersOK, ReceiveUnavailable, NextAttempt, MoreAttempts
  <2>3. ResultsOK'
    BY <1>4 DEF CredentialsOK, ResultsOK, ReceiveUnavailable, NextAttempt, MoreAttempts
  <2>4. AnswersOK'
    BY <1>4 DEF AnswersOK, ReceiveUnavailable, NextAttempt, MoreAttempts
  <2>5. QED
    BY <2>1, <2>2, <2>3, <2>4
<1>5. CASE Reauthenticate
  <2>1. TypeOK'
    BY <1>5 DEF CredentialsOK, AnswersOK, Reauthenticate, MustReauthenticate, StartAttempts, Raise, Finish
  <2>2. CredentialsOK'
    BY <1>5 DEF CredentialsOK, AnswersOK, Reauthenticate, MustReauthenticate, StartAttempts, Raise, Finish
  <2>3. ResultsOK'
    BY <1>5 DEF CredentialsOK, ResultsOK, Reauthenticate, MustReauthenticate, StartAttempts, Raise, Finish
  <2>4. AnswersOK'
    BY <1>5 DEF AnswersOK, Reauthenticate, MustReauthenticate, StartAttempts, Raise, Finish
  <2>5. QED
    BY <2>1, <2>2, <2>3, <2>4
<1>6. CASE StoreKey
  <2>1. TypeOK'
    BY <1>6 DEF CredentialsOK, AnswersOK, StoreKey, FrameBelow, NewAuth, StartAttempts, Finish
  <2>2. CredentialsOK'
    BY <1>6 DEF CredentialsOK, AnswersOK, StoreKey, FrameBelow, NewAuth, StartAttempts, Finish
  <2>3. ResultsOK'
    BY <1>6 DEF CredentialsOK, ResultsOK, StoreKey, FrameBelow, NewAuth, StartAttempts, Finish
  <2>4. AnswersOK'
    BY <1>6 DEF AnswersOK, StoreKey, FrameBelow, NewAuth, StartAttempts, Finish
  <2>5. QED
    BY <2>1, <2>2, <2>3, <2>4
<1>7. CASE AuthenticationAborts
  <2>1. TypeOK'
    BY <1>7 DEF CredentialsOK, AnswersOK, AuthenticationAborts, MustReauthenticate, Raise, Finish
  <2>2. CredentialsOK'
    BY <1>7 DEF CredentialsOK, AnswersOK, AuthenticationAborts, MustReauthenticate, Raise, Finish
  <2>3. ResultsOK'
    BY <1>7 DEF CredentialsOK, ResultsOK, AuthenticationAborts, MustReauthenticate, Raise, Finish
  <2>4. AnswersOK'
    BY <1>7 DEF AnswersOK, AuthenticationAborts, MustReauthenticate, Raise, Finish
  <2>5. QED
    BY <2>1, <2>2, <2>3, <2>4
<1>8. CASE NoAnswer
  <2>1. TypeOK'
    BY <1>8 DEF CredentialsOK, AnswersOK, NoAnswer, Raise, Finish
  <2>2. CredentialsOK'
    BY <1>8 DEF CredentialsOK, AnswersOK, NoAnswer, Raise, Finish
  <2>3. ResultsOK'
    BY <1>8 DEF CredentialsOK, ResultsOK, NoAnswer, Raise, Finish
  <2>4. AnswersOK'
    BY <1>8 DEF AnswersOK, NoAnswer, Raise, Finish
  <2>5. QED
    BY <2>1, <2>2, <2>3, <2>4
<1>9. CASE Return
  <2>1. TypeOK'
    BY <1>9 DEF CredentialsOK, AnswersOK, Return, MustReauthenticate, Finish
  <2>2. CredentialsOK'
    BY <1>9 DEF CredentialsOK, AnswersOK, Return, MustReauthenticate, Finish
  <2>3. ResultsOK'
    BY <1>9 DEF CredentialsOK, ResultsOK, Return, MustReauthenticate, Finish
  <2>4. AnswersOK'
    BY <1>9 DEF AnswersOK, Return, MustReauthenticate, Finish
  <2>5. QED
    BY <2>1, <2>2, <2>3, <2>4
<1>10. CASE SocketError
  <2>1. TypeOK'
    BY <1>10, RequestType DEF CredentialsOK, AnswersOK, SocketError, LoseAnswer, NextAttempt, MoreAttempts
  <2>2. CredentialsOK'
    BY <1>10 DEF CredentialsOK, AnswersOK, SocketError, LoseAnswer, NextAttempt, MoreAttempts
  <2>3. ResultsOK'
    BY <1>10 DEF CredentialsOK, ResultsOK, SocketError, LoseAnswer, NextAttempt, MoreAttempts
  <2>4. AnswersOK'
    BY <1>10 DEF AnswersOK, SocketError, LoseAnswer, NextAttempt, MoreAttempts
  <2>5. QED
    BY <2>1, <2>2, <2>3, <2>4
<1>11. CASE BreakProtocol
  <2>1. TypeOK'
    BY <1>11, RequestType DEF CredentialsOK, AnswersOK, BreakProtocol, LoseAnswer, Raise, Finish
  <2>2. CredentialsOK'
    BY <1>11 DEF CredentialsOK, AnswersOK, BreakProtocol, LoseAnswer, Raise, Finish
  <2>3. ResultsOK'
    BY <1>11 DEF CredentialsOK, ResultsOK, BreakProtocol, LoseAnswer, Raise, Finish
  <2>4. AnswersOK'
    BY <1>11 DEF AnswersOK, BreakProtocol, LoseAnswer, Raise, Finish
  <2>5. QED
    BY <2>1, <2>2, <2>3, <2>4
<1>12. CASE ServeCurrent
  <2>1. TypeOK'
    <3>1. ClientTypeOK'
      <4>1. UNCHANGED <<pc, auth, depth, round, attempt, ret>>
        BY <1>12 DEF ServeCurrent, Serve, ServeUnavailable, ServeUnauthorized, ServeDenied,
             ServeKey, ServeOperation, ServeRefusal, ServeError
      <4>2. reply' \in Replies
        BY <1>12 DEF ServeCurrent, Serve, ServeUnavailable, ServeUnauthorized, ServeDenied,
             ServeKey, ServeOperation, ServeRefusal, ServeError
      <4>3. QED
        BY <4>1, <4>2
    <3>2. CallsTypeOK'
      BY <1>12, RequestType DEF CredentialsOK, AnswersOK, ServeCurrent, Serve, ServeUnavailable, ServeUnauthorized, ServeDenied,
         ServeKey, ServeOperation, ServeRefusal, ServeError, TakesEffect, Accepted
    <3>3. VsdTypeOK'
      BY <1>12, RequestType DEF CredentialsOK, AnswersOK, ServeCurrent, Serve, ServeUnavailable, ServeUnauthorized, ServeDenied,
         ServeKey, ServeOperation, ServeRefusal, ServeError, TakesEffect, Accepted
    <3>4. QED
      BY <3>1, <3>2, <3>3
  <2>2. CredentialsOK'
    BY <1>12 DEF CredentialsOK, AnswersOK, ServeCurrent, Serve, ServeUnavailable, ServeUnauthorized, ServeDenied,
         ServeKey, ServeOperation, ServeRefusal, ServeError, TakesEffect, Accepted
  <2>3. ResultsOK'
    BY <1>12 DEF CredentialsOK, ResultsOK, ServeCurrent, Serve, ServeUnavailable, ServeUnauthorized, ServeDenied,
         ServeKey, ServeOperation, ServeRefusal, ServeError, TakesEffect, Accepted
  <2>4. AnswersOK'
    BY <1>12 DEF AnswersOK, ServeCurrent, Serve, ServeUnavailable, ServeUnauthorized, ServeDenied,
         ServeKey, ServeOperation, ServeRefusal, ServeError, TakesEffect, Accepted
  <2>5. QED
    BY <2>1, <2>2, <2>3, <2>4
<1>13. ASSUME NEW r \in abandoned, ServeAbandoned(r) PROVE TypeInv'
  <2>1. TypeOK'
    BY <1>13 DEF CredentialsOK, AnswersOK, ServeAbandoned, TakesEffect, connection, Requests
  <2>2. CredentialsOK'
    BY <1>13 DEF CredentialsOK, AnswersOK, ServeAbandoned, TakesEffect, connection
  <2>3. ResultsOK'
    BY <1>13 DEF CredentialsOK, ResultsOK, ServeAbandoned, TakesEffect, connection
  <2>4. AnswersOK'
    BY <1>13 DEF AnswersOK, ServeAbandoned, TakesEffect, connection
  <2>5. QED
    BY <2>1, <2>2, <2>3, <2>4
<1>14. CASE ExpireKey
  <2>1. TypeOK'
    BY <1>14 DEF CredentialsOK, AnswersOK, ExpireKey, connection
  <2>2. CredentialsOK'
    BY <1>14 DEF CredentialsOK, AnswersOK, ExpireKey, connection
  <2>3. ResultsOK'
    BY <1>14 DEF CredentialsOK, ResultsOK, ExpireKey, connection
  <2>4. AnswersOK'
    BY <1>14 DEF AnswersOK, ExpireKey, connection
  <2>5. QED
    BY <2>1, <2>2, <2>3, <2>4
<1>15. CASE UNCHANGED vars
  <2>1. TypeOK'
    BY <1>15 DEF CredentialsOK, AnswersOK, vars, connection
  <2>2. CredentialsOK'
    BY <1>15 DEF CredentialsOK, AnswersOK, vars, connection
  <2>3. ResultsOK'
    BY <1>15 DEF CredentialsOK, ResultsOK, vars, connection
  <2>4. AnswersOK'
    BY <1>15 DEF AnswersOK, vars, connection
  <2>5. QED
    BY <2>1, <2>2, <2>3, <2>4
<1>16. QED
  BY <1>1, <1>2, <1>3, <1>4, <1>5, <1>6, <1>7, <1>8, <1>9, <1>10, <1>11, <1>12, <1>13, <1>14, <1>15 DEF Next, Proceed

\* Type correctness: every variable keeps its type, for every instance.
THEOREM TypeCorrect == Spec => []TypeOK
<1>1. Spec => []TypeInv
  BY TypeInvInit, TypeInvStep, PTL DEF Spec
<1>2. TypeInv => TypeOK
  BY DEF TypeInv
<1>3. QED
  BY <1>1, <1>2, PTL

-----------------------------------------------------------------------------
(* Effects and lost answers.                                               *)

Unlost == effects \ lost

\* A request of the current operation that an earlier attempt has sent.
Earlier(r) == r.round < round \/ (r.round = round /\ r.attempt < attempt)

\* Where the requests of the past can come from: the current attempt is not among
\* them until the VSD serves it, and it is not lost as long as the client waits.
PastRequests ==
  /\ abandoned \subseteq lost
  /\ \A r \in effects \union lost : r.call <= calls
  /\ pc # "idle" => \A r \in effects \union lost :
       r.call = calls => r.round <= IF depth > 0 THEN 1 ELSE round
  /\ pc = "waiting" /\ depth = 0 => \A r \in effects \union lost :
       r.call = calls => Earlier(r) \/ (r = Request /\ r \notin lost)

\* While an operation is under way, an effect whose request is not lost is that of
\* the answer the client is about to handle.
PendingEffect ==
  /\ pc # "idle" => \A r \in Unlost : r.call = calls =>
       /\ depth = 0
       /\ pc = "waiting" => r = Request /\ reply.status \in {"ok", "error"}
       /\ pc = "answered" => ret.status \in {"ok", "error"}
  /\ pc = "waiting" /\ depth = 0 /\ reply.status = "ok" => Request \in effects
  /\ pc = "answered" /\ depth = 0 /\ ret.status = "ok" => \E r \in Unlost : r.call = calls

EffectInv == TypeInv /\ PastRequests /\ PendingEffect /\ RepeatedOnlyAfterLoss /\ TruthfulResult

\* What the proof that effects are accounted for uses of the types.
EffectTypes ==
  /\ effects \subseteq Requests /\ lost \subseteq Requests /\ abandoned \subseteq Requests
  /\ calls \in 0..MaxCalls /\ round \in 1..2 /\ attempt \in Nat /\ depth \in Nat
  /\ pc \in {"idle", "waiting", "answered"}
  /\ results \in [0..MaxCalls -> Outcomes \union {"pending"}]

LEMMA EffectInvStep == EffectInv /\ [Next]_vars => EffectInv'
<1> DEFINE Goal == PastRequests /\ PendingEffect /\ RepeatedOnlyAfterLoss /\ TruthfulResult
<1> SUFFICES ASSUME EffectInv, [Next]_vars PROVE Goal'
  BY TypeInvStep DEF EffectInv
<1>a. TypeInv /\ PastRequests /\ PendingEffect /\ RepeatedOnlyAfterLoss /\ TruthfulResult
  BY DEF EffectInv
<1>b. EffectTypes
  BY <1>a DEF EffectTypes, TypeInv, TypeOK, ClientTypeOK, CallsTypeOK, VsdTypeOK
<1>c. CredentialsOK /\ ResultsOK /\ AnswersOK
  BY <1>a DEF TypeInv
<1> USE <1>b DEF Unlost, EffectTypes, Request, Requests, caller, vsd, Retried
<1>1. CASE Connect
  <2>1. PastRequests'
    BY <1>a, <1>c, <1>1 DEF PastRequests, PendingEffect, Earlier, CredentialsOK, AnswersOK, Connect, StartAttempts
  <2>2. PendingEffect'
    BY <1>a, <1>c, <1>1 DEF PastRequests, PendingEffect, Earlier, CredentialsOK, AnswersOK, Connect, StartAttempts
  <2>3. RepeatedOnlyAfterLoss'
    BY <1>a, <1>1 DEF PastRequests, PendingEffect, RepeatedOnlyAfterLoss, Connect, StartAttempts
  <2>4. TruthfulResult'
    BY <1>a, <1>c, <1>1 DEF PastRequests, PendingEffect, TruthfulResult, CredentialsOK, ResultsOK, Connect, StartAttempts
  <2>5. QED
    BY <2>1, <2>2, <2>3, <2>4
<1>2. ASSUME NEW op \in Operations, Call(op) PROVE Goal'
  <2>1. PastRequests'
    BY <1>a, <1>c, <1>2 DEF PastRequests, PendingEffect, Earlier, CredentialsOK, AnswersOK, Call, StartAttempts
  <2>2. PendingEffect'
    BY <1>a, <1>c, <1>2 DEF PastRequests, PendingEffect, Earlier, CredentialsOK, AnswersOK, Call, StartAttempts
  <2>3. RepeatedOnlyAfterLoss'
    BY <1>a, <1>2 DEF PastRequests, PendingEffect, RepeatedOnlyAfterLoss, Call, StartAttempts
  <2>4. TruthfulResult'
    BY <1>a, <1>c, <1>2 DEF PastRequests, PendingEffect, TruthfulResult, CredentialsOK, ResultsOK, Call, StartAttempts
  <2>5. QED
    BY <2>1, <2>2, <2>3, <2>4
<1>3. CASE Receive
  <2>1. PastRequests'
    BY <1>a, <1>c, <1>3 DEF PastRequests, PendingEffect, Earlier, CredentialsOK, AnswersOK, Receive
  <2>2. PendingEffect'
    BY <1>a, <1>c, <1>3 DEF PastRequests, PendingEffect, Earlier, CredentialsOK, AnswersOK, Receive
  <2>3. RepeatedOnlyAfterLoss'
    BY <1>a, <1>3 DEF PastRequests, PendingEffect, RepeatedOnlyAfterLoss, Receive
  <2>4. TruthfulResult'
    BY <1>a, <1>c, <1>3 DEF PastRequests, PendingEffect, TruthfulResult, CredentialsOK, ResultsOK, Receive
  <2>5. QED
    BY <2>1, <2>2, <2>3, <2>4
<1>4. CASE ReceiveUnavailable
  <2>1. PastRequests'
    BY <1>a, <1>c, <1>4 DEF PastRequests, PendingEffect, Earlier, CredentialsOK, AnswersOK, ReceiveUnavailable, NextAttempt, MoreAttempts
  <2>2. PendingEffect'
    BY <1>a, <1>c, <1>4 DEF PastRequests, PendingEffect, Earlier, CredentialsOK, AnswersOK, ReceiveUnavailable, NextAttempt, MoreAttempts
  <2>3. RepeatedOnlyAfterLoss'
    BY <1>a, <1>4 DEF PastRequests, PendingEffect, RepeatedOnlyAfterLoss, ReceiveUnavailable, NextAttempt, MoreAttempts
  <2>4. TruthfulResult'
    BY <1>a, <1>c, <1>4 DEF PastRequests, PendingEffect, TruthfulResult, CredentialsOK, ResultsOK, ReceiveUnavailable, NextAttempt, MoreAttempts
  <2>5. QED
    BY <2>1, <2>2, <2>3, <2>4
<1>5. CASE Reauthenticate
  <2>1. PastRequests'
    BY <1>a, <1>c, <1>5 DEF PastRequests, PendingEffect, Earlier, CredentialsOK, AnswersOK, Reauthenticate, MustReauthenticate, StartAttempts, Raise, Finish
  <2>2. PendingEffect'
    BY <1>a, <1>c, <1>5 DEF PastRequests, PendingEffect, Earlier, CredentialsOK, AnswersOK, Reauthenticate, MustReauthenticate, StartAttempts, Raise, Finish
  <2>3. RepeatedOnlyAfterLoss'
    BY <1>a, <1>5 DEF PastRequests, PendingEffect, RepeatedOnlyAfterLoss, Reauthenticate, MustReauthenticate, StartAttempts, Raise, Finish
  <2>4. TruthfulResult'
    BY <1>a, <1>c, <1>5 DEF PastRequests, PendingEffect, TruthfulResult, CredentialsOK, ResultsOK, Reauthenticate, MustReauthenticate, StartAttempts, Raise, Finish
  <2>5. QED
    BY <2>1, <2>2, <2>3, <2>4
<1>6. CASE StoreKey
  <2>1. PastRequests'
    BY <1>a, <1>c, <1>6 DEF PastRequests, PendingEffect, Earlier, CredentialsOK, AnswersOK, StoreKey, FrameBelow, NewAuth, StartAttempts, Finish
  <2>2. PendingEffect'
    BY <1>a, <1>c, <1>6 DEF PastRequests, PendingEffect, Earlier, CredentialsOK, AnswersOK, StoreKey, FrameBelow, NewAuth, StartAttempts, Finish
  <2>3. RepeatedOnlyAfterLoss'
    BY <1>a, <1>6 DEF PastRequests, PendingEffect, RepeatedOnlyAfterLoss, StoreKey, FrameBelow, NewAuth, StartAttempts, Finish
  <2>4. TruthfulResult'
    BY <1>a, <1>c, <1>6 DEF PastRequests, PendingEffect, TruthfulResult, CredentialsOK, ResultsOK, StoreKey, FrameBelow, NewAuth, StartAttempts, Finish
  <2>5. QED
    BY <2>1, <2>2, <2>3, <2>4
<1>7. CASE AuthenticationAborts
  <2>1. PastRequests'
    BY <1>a, <1>c, <1>7 DEF PastRequests, PendingEffect, Earlier, CredentialsOK, AnswersOK, AuthenticationAborts, MustReauthenticate, Raise, Finish
  <2>2. PendingEffect'
    BY <1>a, <1>c, <1>7 DEF PastRequests, PendingEffect, Earlier, CredentialsOK, AnswersOK, AuthenticationAborts, MustReauthenticate, Raise, Finish
  <2>3. RepeatedOnlyAfterLoss'
    BY <1>a, <1>7 DEF PastRequests, PendingEffect, RepeatedOnlyAfterLoss, AuthenticationAborts, MustReauthenticate, Raise, Finish
  <2>4. TruthfulResult'
    BY <1>a, <1>c, <1>7 DEF PastRequests, PendingEffect, TruthfulResult, CredentialsOK, ResultsOK, AuthenticationAborts, MustReauthenticate, Raise, Finish
  <2>5. QED
    BY <2>1, <2>2, <2>3, <2>4
<1>8. CASE NoAnswer
  <2>1. PastRequests'
    BY <1>a, <1>c, <1>8 DEF PastRequests, PendingEffect, Earlier, CredentialsOK, AnswersOK, NoAnswer, Raise, Finish
  <2>2. PendingEffect'
    BY <1>a, <1>c, <1>8 DEF PastRequests, PendingEffect, Earlier, CredentialsOK, AnswersOK, NoAnswer, Raise, Finish
  <2>3. RepeatedOnlyAfterLoss'
    BY <1>a, <1>8 DEF PastRequests, PendingEffect, RepeatedOnlyAfterLoss, NoAnswer, Raise, Finish
  <2>4. TruthfulResult'
    BY <1>a, <1>c, <1>8 DEF PastRequests, PendingEffect, TruthfulResult, CredentialsOK, ResultsOK, NoAnswer, Raise, Finish
  <2>5. QED
    BY <2>1, <2>2, <2>3, <2>4
<1>9. CASE Return
  <2>1. PastRequests'
    BY <1>a, <1>c, <1>9 DEF PastRequests, PendingEffect, Earlier, CredentialsOK, AnswersOK, Return, MustReauthenticate, Finish
  <2>2. PendingEffect'
    BY <1>a, <1>c, <1>9 DEF PastRequests, PendingEffect, Earlier, CredentialsOK, AnswersOK, Return, MustReauthenticate, Finish
  <2>3. RepeatedOnlyAfterLoss'
    BY <1>a, <1>9 DEF PastRequests, PendingEffect, RepeatedOnlyAfterLoss, Return, MustReauthenticate, Finish
  <2>4. TruthfulResult'
    BY <1>a, <1>c, <1>9 DEF PastRequests, PendingEffect, TruthfulResult, CredentialsOK, ResultsOK, Return, MustReauthenticate, Finish
  <2>5. QED
    BY <2>1, <2>2, <2>3, <2>4
<1>10. CASE SocketError
  <2>1. PastRequests'
    BY <1>a, <1>c, <1>10 DEF PastRequests, PendingEffect, Earlier, CredentialsOK, AnswersOK, SocketError, LoseAnswer, NextAttempt, MoreAttempts
  <2>2. PendingEffect'
    BY <1>a, <1>c, <1>10 DEF PastRequests, PendingEffect, Earlier, CredentialsOK, AnswersOK, SocketError, LoseAnswer, NextAttempt, MoreAttempts
  <2>3. RepeatedOnlyAfterLoss'
    BY <1>a, <1>10 DEF PastRequests, PendingEffect, RepeatedOnlyAfterLoss, SocketError, LoseAnswer, NextAttempt, MoreAttempts
  <2>4. TruthfulResult'
    BY <1>a, <1>c, <1>10 DEF PastRequests, PendingEffect, TruthfulResult, CredentialsOK, ResultsOK, SocketError, LoseAnswer, NextAttempt, MoreAttempts
  <2>5. QED
    BY <2>1, <2>2, <2>3, <2>4
<1>11. CASE BreakProtocol
  <2>1. PastRequests'
    BY <1>a, <1>c, <1>11 DEF PastRequests, PendingEffect, Earlier, CredentialsOK, AnswersOK, BreakProtocol, LoseAnswer, Raise, Finish
  <2>2. PendingEffect'
    BY <1>a, <1>c, <1>11 DEF PastRequests, PendingEffect, Earlier, CredentialsOK, AnswersOK, BreakProtocol, LoseAnswer, Raise, Finish
  <2>3. RepeatedOnlyAfterLoss'
    BY <1>a, <1>11 DEF PastRequests, PendingEffect, RepeatedOnlyAfterLoss, BreakProtocol, LoseAnswer, Raise, Finish
  <2>4. TruthfulResult'
    BY <1>a, <1>c, <1>11 DEF PastRequests, PendingEffect, TruthfulResult, CredentialsOK, ResultsOK, BreakProtocol, LoseAnswer, Raise, Finish
  <2>5. QED
    BY <2>1, <2>2, <2>3, <2>4
<1>12. CASE ServeCurrent
  <2>1. PastRequests'
    BY <1>a, <1>c, <1>12 DEF PastRequests, PendingEffect, Earlier, CredentialsOK, AnswersOK, ServeCurrent, Serve, ServeUnavailable, ServeUnauthorized, ServeDenied,
         ServeKey, ServeOperation, ServeRefusal, ServeError, Accepted
  <2>2. PendingEffect'
    BY <1>a, <1>c, <1>12 DEF PastRequests, PendingEffect, Earlier, CredentialsOK, AnswersOK, ServeCurrent, Serve, ServeUnavailable, ServeUnauthorized, ServeDenied,
         ServeKey, ServeOperation, ServeRefusal, ServeError, Accepted
  <2>3. RepeatedOnlyAfterLoss'
    BY <1>a, <1>12 DEF PastRequests, PendingEffect, RepeatedOnlyAfterLoss, ServeCurrent, Serve, ServeUnavailable, ServeUnauthorized, ServeDenied,
         ServeKey, ServeOperation, ServeRefusal, ServeError, Accepted
  <2>4. TruthfulResult'
    BY <1>a, <1>c, <1>12 DEF PastRequests, PendingEffect, TruthfulResult, CredentialsOK, ResultsOK, ServeCurrent, Serve, ServeUnavailable, ServeUnauthorized, ServeDenied,
         ServeKey, ServeOperation, ServeRefusal, ServeError, Accepted
  <2>5. QED
    BY <2>1, <2>2, <2>3, <2>4
<1>13. ASSUME NEW r \in abandoned, ServeAbandoned(r) PROVE Goal'
  <2>1. PastRequests'
    BY <1>a, <1>c, <1>13 DEF PastRequests, PendingEffect, Earlier, CredentialsOK, AnswersOK, ServeAbandoned, connection
  <2>2. PendingEffect'
    BY <1>a, <1>c, <1>13 DEF PastRequests, PendingEffect, Earlier, CredentialsOK, AnswersOK, ServeAbandoned, connection
  <2>3. RepeatedOnlyAfterLoss'
    BY <1>a, <1>13 DEF PastRequests, PendingEffect, RepeatedOnlyAfterLoss, ServeAbandoned, connection
  <2>4. TruthfulResult'
    BY <1>a, <1>c, <1>13 DEF PastRequests, PendingEffect, TruthfulResult, CredentialsOK, ResultsOK, ServeAbandoned, connection
  <2>5. QED
    BY <2>1, <2>2, <2>3, <2>4
<1>14. CASE ExpireKey
  <2>1. PastRequests'
    BY <1>a, <1>c, <1>14 DEF PastRequests, PendingEffect, Earlier, CredentialsOK, AnswersOK, ExpireKey, connection
  <2>2. PendingEffect'
    BY <1>a, <1>c, <1>14 DEF PastRequests, PendingEffect, Earlier, CredentialsOK, AnswersOK, ExpireKey, connection
  <2>3. RepeatedOnlyAfterLoss'
    BY <1>a, <1>14 DEF PastRequests, PendingEffect, RepeatedOnlyAfterLoss, ExpireKey, connection
  <2>4. TruthfulResult'
    BY <1>a, <1>c, <1>14 DEF PastRequests, PendingEffect, TruthfulResult, CredentialsOK, ResultsOK, ExpireKey, connection
  <2>5. QED
    BY <2>1, <2>2, <2>3, <2>4
<1>15. CASE UNCHANGED vars
  <2>1. PastRequests'
    BY <1>a, <1>c, <1>15 DEF PastRequests, PendingEffect, Earlier, CredentialsOK, AnswersOK, vars, connection
  <2>2. PendingEffect'
    BY <1>a, <1>c, <1>15 DEF PastRequests, PendingEffect, Earlier, CredentialsOK, AnswersOK, vars, connection
  <2>3. RepeatedOnlyAfterLoss'
    BY <1>a, <1>15 DEF PastRequests, PendingEffect, RepeatedOnlyAfterLoss, vars, connection
  <2>4. TruthfulResult'
    BY <1>a, <1>c, <1>15 DEF PastRequests, PendingEffect, TruthfulResult, CredentialsOK, ResultsOK, vars, connection
  <2>5. QED
    BY <2>1, <2>2, <2>3, <2>4
<1>16. QED
  BY <1>1, <1>2, <1>3, <1>4, <1>5, <1>6, <1>7, <1>8, <1>9, <1>10, <1>11, <1>12, <1>13, <1>14, <1>15 DEF Next, Proceed

LEMMA EffectInvariant == Spec => []EffectInv
<1>1. Init => EffectInv
  BY TypeInvInit DEF Init, EffectInv, PastRequests, PendingEffect, RepeatedOnlyAfterLoss,
     TruthfulResult, Unlost
<1>2. QED
  BY <1>1, EffectInvStep, PTL DEF Spec

\* Retries and re-authentication repeat an operation only after a lost answer.
THEOREM EffectOnce == Spec => []RepeatedOnlyAfterLoss
<1>1. EffectInv => RepeatedOnlyAfterLoss
  BY DEF EffectInv
<1>2. QED
  BY <1>1, EffectInvariant, PTL

\* What a call returned tells whether its operation took effect, up to requests
\* whose answer was lost.
THEOREM ResultsTruthful == Spec => []TruthfulResult
<1>1. EffectInv => TruthfulResult
  BY DEF EffectInv
<1>2. QED
  BY <1>1, EffectInvariant, PTL

-----------------------------------------------------------------------------
(* Keys.                                                                   *)

\* Keys only get newer on the way from the VSD to self.auth, and credentials that
\* met a 401 are older than the key the VSD accepts.
KeyOrder ==
  /\ auth <= serverKey
  /\ rejected < serverKey
  /\ depth = 0 /\ pc = "waiting" /\ reply.status = "unauthorized" => auth < serverKey
  /\ depth = 0 /\ pc = "answered" /\ ret.status = "unauthorized" => auth < serverKey
  /\ depth > 0 /\ pc = "waiting" /\ reply.status = "ok" =>
       rejected < reply.key /\ reply.key <= serverKey
  /\ depth > 0 /\ pc = "answered" /\ ret.status = "ok" =>
       rejected < ret.key /\ ret.key <= serverKey

KeyInv == TypeInv /\ KeyOrder /\ SecondRoundHasNewKey

LEMMA KeyInvStep == KeyInv /\ [Next]_vars => KeyInv'
<1> SUFFICES ASSUME KeyInv, [Next]_vars PROVE KeyOrder' /\ SecondRoundHasNewKey'
  BY TypeInvStep DEF KeyInv
<1>a. TypeInv /\ KeyOrder /\ SecondRoundHasNewKey
  BY DEF KeyInv
<1>b. /\ auth \in {NoAuth, Password} \union Keys
      /\ rejected \in {NoAuth, Password} \union Keys
      /\ serverKey \in Keys
      /\ pc \in {"idle", "waiting", "answered"}
      /\ depth \in Nat
      /\ calls > 0 => Constructed
      /\ Constructed \/ pc # "idle" => auth # NoAuth
      /\ pc # "idle" /\ ~Constructed => depth > 0
      /\ depth > 0 /\ ret.status = "ok" => ret.key \in Keys
      /\ pc = "waiting" => ret.status \in {"none"} \union Retried
  BY <1>a DEF TypeInv, TypeOK, ClientTypeOK, CallsTypeOK, VsdTypeOK, CredentialsOK, AnswersOK
<1> USE DEF KeyOrder, SecondRoundHasNewKey, caller, vsd, Retried
<1>1. CASE Connect
  BY <1>a, <1>b, <1>1 DEF Connect, StartAttempts
<1>2. ASSUME NEW op \in Operations, Call(op) PROVE KeyOrder' /\ SecondRoundHasNewKey'
  BY <1>a, <1>b, <1>2 DEF Call, StartAttempts
<1>3. CASE Receive
  BY <1>a, <1>b, <1>3 DEF Receive
<1>4. CASE ReceiveUnavailable
  BY <1>a, <1>b, <1>4 DEF ReceiveUnavailable, NextAttempt, MoreAttempts
<1>5. CASE Reauthenticate
  BY <1>a, <1>b, <1>5 DEF Reauthenticate, MustReauthenticate, StartAttempts, Raise, Finish
<1>6. CASE StoreKey
  BY <1>a, <1>b, <1>6 DEF StoreKey, FrameBelow, NewAuth, StartAttempts, Finish
<1>7. CASE AuthenticationAborts
  BY <1>a, <1>b, <1>7 DEF AuthenticationAborts, MustReauthenticate, Raise, Finish
<1>8. CASE NoAnswer
  BY <1>a, <1>b, <1>8 DEF NoAnswer, Raise, Finish
<1>9. CASE Return
  BY <1>a, <1>b, <1>9 DEF Return, MustReauthenticate, Finish
<1>10. CASE SocketError
  BY <1>a, <1>b, <1>10 DEF SocketError, LoseAnswer, NextAttempt, MoreAttempts
<1>11. CASE BreakProtocol
  BY <1>a, <1>b, <1>11 DEF BreakProtocol, LoseAnswer, Raise, Finish
<1>12. CASE ServeCurrent
  BY <1>a, <1>b, <1>12 DEF ServeCurrent, Serve, ServeUnavailable, ServeUnauthorized, ServeDenied,
       ServeKey, ServeOperation, ServeRefusal, ServeError, Accepted
<1>13. ASSUME NEW r \in abandoned, ServeAbandoned(r) PROVE KeyOrder' /\ SecondRoundHasNewKey'
  BY <1>a, <1>b, <1>13 DEF ServeAbandoned, connection
<1>14. CASE ExpireKey
  <2>1. /\ serverKey' = serverKey + 1
        /\ UNCHANGED <<pc, depth, round, ret, reply, auth, rejected, results>>
    BY <1>14 DEF ExpireKey, connection
  <2>2. auth \in Nat /\ rejected \in Nat /\ serverKey \in Nat
    BY <1>b
  <2>3. /\ depth > 0 /\ reply.status = "ok" => reply.key \in Nat
        /\ depth > 0 /\ ret.status = "ok" => ret.key \in Nat
    BY <1>a DEF TypeInv, AnswersOK
  <2>4. SecondRoundHasNewKey'
    BY <1>a, <2>1
  <2>5. KeyOrder'
    BY ONLY <1>a, <2>1, <2>2, <2>3 DEF KeyOrder
  <2>6. QED
    BY <2>4, <2>5
<1>15. CASE UNCHANGED vars
  BY <1>a, <1>b, <1>15 DEF vars, connection
<1>16. QED
  BY <1>1, <1>2, <1>3, <1>4, <1>5, <1>6, <1>7, <1>8, <1>9, <1>10, <1>11, <1>12, <1>13, <1>14, <1>15 DEF Next, Proceed

\* The second round never reuses the refused credentials, whatever the number
\* of retries, of expiries and of nested calls.
THEOREM NewKeyInSecondRound == Spec => []SecondRoundHasNewKey
<1>1. Init => KeyInv
  BY TypeInvInit DEF Init, KeyInv, KeyOrder, SecondRoundHasNewKey
<1>2. Spec => []KeyInv
  BY <1>1, KeyInvStep, PTL DEF Spec
<1>3. KeyInv => SecondRoundHasNewKey
  BY DEF KeyInv
<1>4. QED
  BY <1>2, <1>3, PTL

-----------------------------------------------------------------------------
(* Re-authentication is invisible.                                         *)

\* The answers that can be on their way to the top frame while nothing but an old
\* key or a leftover password disturbs the call.
Expected ==
  IF depth > 0 THEN {"ok"}
  ELSE {"ok", "conflict", "missing"} \union IF round = 1 THEN {"unauthorized"} ELSE {}

Smooth ==
  ~troubled /\ calls > 0 /\ pc # "idle" =>
    /\ depth > 0 => depth = 1 /\ round = 1 /\ auth = Password
    /\ depth = 0 /\ round = 2 => auth = serverKey
    /\ pc = "waiting" => reply.status \in Expected \union {"none"}
    /\ pc = "answered" => ret.status \in Expected
    /\ pc = "waiting" /\ depth > 0 /\ reply.status = "ok" => reply.key = serverKey
    /\ pc = "answered" /\ depth > 0 => ret.key = serverKey

SmoothInv == TypeInv /\ Smooth /\ ReauthenticationIsInvisible

LEMMA SmoothInvStep == SmoothInv /\ [Next]_vars => SmoothInv'
<1> SUFFICES ASSUME SmoothInv, [Next]_vars PROVE Smooth' /\ ReauthenticationIsInvisible'
  BY TypeInvStep DEF SmoothInv
<1>a. TypeInv /\ Smooth /\ ReauthenticationIsInvisible
  BY DEF SmoothInv
<1>b. /\ calls \in 0..MaxCalls
      /\ results \in [0..MaxCalls -> Outcomes \union {"pending"}]
      /\ serverKey \in Keys
      /\ pc \in {"idle", "waiting", "answered"}
      /\ depth \in Nat
      /\ round \in 1..2
      /\ CredentialsOK
  BY <1>a DEF TypeInv, TypeOK, ClientTypeOK, CallsTypeOK, VsdTypeOK
<1> USE DEF Smooth, Expected, ReauthenticationIsInvisible, CredentialsOK, caller, vsd, Retried
<1>1. CASE Connect
  BY <1>a, <1>b, <1>1 DEF Connect, StartAttempts
<1>2. ASSUME NEW op \in Operations, Call(op) PROVE Smooth' /\ ReauthenticationIsInvisible'
  BY <1>a, <1>b, <1>2 DEF Call, StartAttempts
<1>3. CASE Receive
  BY <1>a, <1>b, <1>3 DEF Receive
<1>4. CASE ReceiveUnavailable
  BY <1>a, <1>b, <1>4 DEF ReceiveUnavailable, NextAttempt, MoreAttempts
<1>5. CASE Reauthenticate
  BY <1>a, <1>b, <1>5 DEF Reauthenticate, MustReauthenticate, StartAttempts, Raise, Finish
<1>6. CASE StoreKey
  BY <1>a, <1>b, <1>6 DEF StoreKey, FrameBelow, NewAuth, StartAttempts, Finish
<1>7. CASE AuthenticationAborts
  BY <1>a, <1>b, <1>7 DEF AuthenticationAborts, MustReauthenticate, Raise, Finish
<1>8. CASE NoAnswer
  BY <1>a, <1>b, <1>8 DEF NoAnswer, Raise, Finish
<1>9. CASE Return
  BY <1>a, <1>b, <1>9 DEF Return, MustReauthenticate, Finish
<1>10. CASE SocketError
  BY <1>a, <1>b, <1>10 DEF SocketError, LoseAnswer, NextAttempt, MoreAttempts
<1>11. CASE BreakProtocol
  BY <1>a, <1>b, <1>11 DEF BreakProtocol, LoseAnswer, Raise, Finish
<1>12. CASE ServeCurrent
  <2>1. /\ pc = "waiting" /\ reply = NoReply
        /\ UNCHANGED <<pc, auth, depth, round, ret, calls, results, serverKey>>
    BY <1>12 DEF ServeCurrent, Serve, ServeUnavailable, ServeUnauthorized, ServeDenied,
         ServeKey, ServeOperation, ServeRefusal, ServeError
  <2>2. CASE troubled'
    BY <2>1, <2>2
  <2>3. CASE ~troubled' /\ ServeUnauthorized
    <3>1. ~troubled /\ ~Accepted /\ reply' = Answer("unauthorized", NoAuth)
      BY <2>3 DEF ServeUnauthorized, Serve
    <3>2. (depth > 0 => auth # Password) /\ (depth = 0 => auth # serverKey \/ auth = Password)
      BY <3>1 DEF Accepted
    <3>3. QED
      BY <1>a, <1>b, <2>1, <3>1, <3>2
  <2>4. CASE ~troubled' /\ ServeKey
    BY <1>a, <1>b, <2>1, <2>4 DEF ServeKey, Serve
  <2>5. CASE ~troubled' /\ ServeOperation
    BY <1>a, <1>b, <2>1, <2>5 DEF ServeOperation, Serve
  <2>6. CASE ~troubled' /\ ServeRefusal
    BY <1>a, <1>b, <2>1, <2>6 DEF ServeRefusal, Serve
  <2>7. QED
    BY <1>12, <2>2, <2>3, <2>4, <2>5, <2>6
       DEF ServeCurrent, ServeUnavailable, ServeDenied, ServeError
<1>13. ASSUME NEW r \in abandoned, ServeAbandoned(r) PROVE Smooth' /\ ReauthenticationIsInvisible'
  BY <1>a, <1>b, <1>13 DEF ServeAbandoned, connection
<1>14. CASE ExpireKey
  BY <1>a, <1>b, <1>14 DEF ExpireKey, connection
<1>15. CASE UNCHANGED vars
  BY <1>a, <1>b, <1>15 DEF vars, connection
<1>16. QED
  BY <1>1, <1>2, <1>3, <1>4, <1>5, <1>6, <1>7, <1>8, <1>9, <1>10, <1>11, <1>12, <1>13, <1>14, <1>15 DEF Next, Proceed

\* An expired key never reaches the caller as a failure.
THEOREM InvisibleReauthentication == Spec => []ReauthenticationIsInvisible
<1>1. Init => SmoothInv
  BY TypeInvInit DEF Init, SmoothInv, Smooth, ReauthenticationIsInvisible
<1>2. Spec => []SmoothInv
  BY <1>1, SmoothInvStep, PTL DEF Spec
<1>3. SmoothInv => ReauthenticationIsInvisible
  BY DEF SmoothInv
<1>4. QED
  BY <1>2, <1>3, PTL

-----------------------------------------------------------------------------
(* rest_call implements the abstract service.                              *)

\* The abstract state depends on nothing else.
LEMMA ServiceStutters ==
  ASSUME UNCHANGED <<calls, operation, resource, effects>>, OpenCalls' = OpenCalls,
         CallResults' = CallResults
  PROVE  UNCHANGED Service!vars
  BY DEF Service!vars, AppliedCalls

\* A call that comes back is a Return of the service, a construction is nothing
\* to it.
LEMMA FinishImplements ==
  ASSUME TypeInv, NEW outcome \in Outcomes, Finish(outcome), pc # "idle",
         UNCHANGED <<calls, operation, resource, effects>>,
         outcome = "ok" => calls = 0 \/ calls \in AppliedCalls,
         \/ abandoned' = abandoned
         \/ calls > 0 /\ abandoned' = abandoned \union {Request}
  PROVE  \/ \E res \in Outcomes : Service!Return(res)
         \/ UNCHANGED Service!vars
<1> USE DEF TypeInv, TypeOK, CallsTypeOK, Finish, ResultsOK
<1>1. CASE calls = 0
  <2>1. CallResults' = CallResults
    BY <1>1 DEF CallResults
  <2>2. OpenCalls' = OpenCalls
    BY <1>1 DEF OpenCalls
  <2>3. QED
    BY <2>1, <2>2, ServiceStutters
<1>2. CASE calls > 0
  <2>1. calls \in 1..MaxCalls /\ results[calls] = "pending"
    BY <1>2
  <2>2. CallResults' = [CallResults EXCEPT ![calls] = outcome]
    <3>1. results' = [results EXCEPT ![calls] = outcome] /\ DOMAIN results = 0..MaxCalls
      OBVIOUS
    <3>2. \A c \in 1..MaxCalls : results'[c] = IF c = calls THEN outcome ELSE results[c]
      BY <3>1, <2>1
    <3>3. QED
      BY ONLY <3>2, <2>1 DEF CallResults
  <2>3. CallResults[calls] = "pending"
    BY <2>1 DEF CallResults
  <2>4. OpenCalls' \in {OpenCalls, OpenCalls \ {calls}}
    <3>1. OpenCalls = {r.call : r \in abandoned} \union {calls}
      BY <1>2 DEF OpenCalls
    <3>2. OpenCalls' = {r.call : r \in abandoned'}
      BY DEF OpenCalls
    <3>3. CASE abandoned' = abandoned
      BY <3>1, <3>2, <3>3
    <3>4. CASE abandoned' = abandoned \union {Request}
      BY <3>1, <3>2, <3>4 DEF Request
    <3>5. QED
      BY <3>3, <3>4
  <2>5. AppliedCalls' = AppliedCalls
    BY DEF AppliedCalls
  <2>6. Service!Return(outcome)
    BY ONLY <1>2, <2>2, <2>3, <2>4, <2>5, outcome = "ok" => calls = 0 \/ calls \in AppliedCalls,
       calls \in 0..MaxCalls, UNCHANGED <<calls, operation, resource, effects>> DEF Service!Return
  <2>7. QED
    BY <2>6
<1>3. QED
  BY <1>1, <1>2

\* Every step of the client, the network or the VSD is a step of the service, or
\* one the service does not see.
LEMMA StepImplements == EffectInv /\ [Next]_vars => [Service!Next]_Service!vars
<1> SUFFICES ASSUME EffectInv, [Next]_vars PROVE Service!Next \/ UNCHANGED Service!vars
  OBVIOUS
<1>a. TypeInv /\ PastRequests /\ PendingEffect
  BY DEF EffectInv
<1>b. /\ calls \in 0..MaxCalls
      /\ pc \in {"idle", "waiting", "answered"}
      /\ ret.status \in Statuses \union {"none"}
      /\ results \in [0..MaxCalls -> Outcomes \union {"pending"}]
      /\ CredentialsOK
      /\ ResultsOK
  BY <1>a DEF TypeInv, TypeOK, ClientTypeOK, CallsTypeOK
<1>c. ASSUME NEW res \in Outcomes, Service!Return(res) PROVE Service!Next
  BY <1>c DEF Service!Next
<1>d. ASSUME NEW c \in OpenCalls, Service!Apply(c) \/ Service!Close(c) PROVE Service!Next
  BY <1>d DEF Service!Next
<1>1. CASE Connect
  <2>1. calls = 0 /\ UNCHANGED <<calls, operation, resource, effects, abandoned>>
    BY <1>1, <1>b DEF Connect, caller, vsd, CredentialsOK
  <2>2. CallResults' = CallResults
    BY <1>1, <1>b DEF Connect, CallResults
  <2>3. OpenCalls' = OpenCalls
    BY <2>1 DEF OpenCalls
  <2>4. QED
    BY <2>1, <2>2, <2>3, ServiceStutters
<1>2. ASSUME NEW op \in Operations, Call(op) PROVE Service!Next
  <2>1. CallResults' = CallResults /\ AppliedCalls' = AppliedCalls
    BY <1>2 DEF Call, vsd, CallResults, AppliedCalls
  <2>2. OpenCalls = {r.call : r \in abandoned}
    BY <1>2 DEF Call, OpenCalls
  <2>3. OpenCalls' = {r.call : r \in abandoned} \union {calls + 1}
    BY <1>2, <1>b DEF Call, OpenCalls, StartAttempts, vsd
  <2>4. calls > 0 => CallResults[calls] # "pending"
    BY <1>2, <1>b DEF Call, ResultsOK, CallResults
  <2>5. Service!Invoke(op)
    BY <1>2, <2>1, <2>2, <2>3, <2>4 DEF Call, vsd, Service!Invoke
  <2>6. QED
    BY <2>5 DEF Service!Next
<1>3. CASE Receive
  <2>1. UNCHANGED <<calls, operation, resource, effects, abandoned, results>>
    BY <1>3 DEF Receive, caller, vsd
  <2>2. OpenCalls' = OpenCalls
    BY <1>3, <2>1 DEF Receive, OpenCalls
  <2>3. QED
    BY <2>1, <2>2, ServiceStutters DEF CallResults
<1>4. CASE ReceiveUnavailable
  <2>1. UNCHANGED <<calls, operation, resource, effects, abandoned, results>>
    BY <1>4 DEF ReceiveUnavailable, caller, vsd
  <2>2. OpenCalls' = OpenCalls
    BY <1>4, <2>1 DEF ReceiveUnavailable, NextAttempt, OpenCalls
  <2>3. QED
    BY <2>1, <2>2, ServiceStutters DEF CallResults
<1>5. CASE Reauthenticate
  <2>1. UNCHANGED <<calls, operation, resource, effects, abandoned>> /\ pc # "idle"
    BY <1>5 DEF Reauthenticate, caller, vsd
  <2>2. CASE Raise("RecursionError")
    BY <2>1, <2>2, <1>a, <1>c, FinishImplements DEF Raise
  <2>3. CASE StartAttempts(1) /\ UNCHANGED results
    <3>1. OpenCalls' = OpenCalls
      BY <2>1, <2>3 DEF StartAttempts, OpenCalls
    <3>2. QED
      BY <2>1, <2>3, <3>1, ServiceStutters DEF CallResults
  <2>4. QED
    BY <1>5, <2>2, <2>3 DEF Reauthenticate
<1>6. CASE StoreKey
  <2>1. UNCHANGED <<calls, operation, resource, effects, abandoned>> /\ pc # "idle"
    BY <1>6 DEF StoreKey, caller, vsd
  <2>2. CASE ~FrameBelow /\ Finish("ok")
    <3>1. calls = 0
      BY <2>2, <1>b DEF FrameBelow, CredentialsOK
    <3>2. QED
      BY <2>1, <2>2, <3>1, <1>a, <1>c, FinishImplements
  <2>3. CASE StartAttempts(2) /\ UNCHANGED results
    <3>1. OpenCalls' = OpenCalls
      BY <2>1, <2>3 DEF StartAttempts, OpenCalls
    <3>2. QED
      BY <2>1, <2>3, <3>1, ServiceStutters DEF CallResults
  <2>4. QED
    BY <1>6, <2>2, <2>3 DEF StoreKey
<1>7. CASE AuthenticationAborts
  BY <1>7, <1>a, <1>c, FinishImplements DEF AuthenticationAborts, Raise, caller, vsd
<1>8. CASE NoAnswer
  BY <1>8, <1>a, <1>c, FinishImplements DEF NoAnswer, Raise, caller, vsd
<1>9. CASE Return
  <2>1. ret.status = "ok" => calls \in AppliedCalls
    BY <1>9, <1>a DEF Return, PendingEffect, Unlost, AppliedCalls
  <2>2. ret.status \in Outcomes
    BY <1>9, <1>b DEF Return
  <2>3. QED
    BY <1>9, <2>1, <2>2, <1>a, <1>c, FinishImplements DEF Return, caller, vsd
<1>10. CASE SocketError
  <2>1. UNCHANGED <<calls, operation, resource, effects, results>> /\ pc = "waiting" /\ pc' # "idle"
    BY <1>10 DEF SocketError, LoseAnswer, NextAttempt, caller
  <2>2. abandoned' = abandoned \/ (depth = 0 /\ abandoned' = abandoned \union {Request})
    BY <1>10 DEF SocketError, LoseAnswer
  <2>3. depth = 0 => calls > 0
    BY <2>1, <1>b DEF CredentialsOK
  <2>4. OpenCalls' = OpenCalls
    BY <2>1, <2>2, <2>3 DEF OpenCalls, Request
  <2>5. QED
    BY <2>1, <2>4, ServiceStutters DEF CallResults
<1>11. CASE BreakProtocol
  <2>1. depth = 0 => calls > 0
    BY <1>11, <1>b DEF BreakProtocol, LoseAnswer, CredentialsOK
  <2>2. \/ abandoned' = abandoned
        \/ calls > 0 /\ abandoned' = abandoned \union {Request}
    BY <1>11, <2>1 DEF BreakProtocol, LoseAnswer
  <2>3. QED
    BY <1>11, <2>2, <1>a, <1>c, FinishImplements DEF BreakProtocol, LoseAnswer, Raise, caller
<1>12. CASE ServeCurrent
  <2>1. UNCHANGED <<calls, operation, results, abandoned, pc>> /\ pc = "waiting"
    BY <1>12 DEF ServeCurrent, Serve, ServeUnavailable, ServeUnauthorized, ServeDenied,
         ServeKey, ServeOperation, ServeRefusal, ServeError, caller
  <2>2. OpenCalls' = OpenCalls /\ CallResults' = CallResults
    BY <2>1 DEF OpenCalls, CallResults
  <2>3. CASE UNCHANGED <<resource, effects>>
    BY <2>1, <2>2, <2>3, ServiceStutters
  <2>4. CASE depth = 0 /\ Possible(calls) /\ TakesEffect(calls) /\ effects' = effects \union {Request}
    <3>1. calls \in OpenCalls
      BY <2>1, <2>4, <1>b DEF OpenCalls, CredentialsOK
    <3>2. AppliedCalls' = AppliedCalls \union {calls}
      <4>1. effects' = effects \union {Request} /\ Request.call = calls
        BY <2>4 DEF Request
      <4>2. QED
        BY ONLY <4>1 DEF AppliedCalls
    <3>3. Service!Apply(calls)
      <4>1. operation' = operation /\ calls' = calls
        BY <2>1
      <4>2. QED
        BY ONLY <4>1, <2>2, <2>4, <3>1, <3>2 DEF Service!Apply, Possible, TakesEffect
    <3>4. QED
      BY <3>1, <3>3, <1>d
  <2>5. QED
    BY <1>12, <2>3, <2>4 DEF ServeCurrent, ServeUnavailable, ServeUnauthorized, ServeDenied,
       ServeKey, ServeOperation, ServeRefusal, ServeError
<1>13. ASSUME NEW r \in abandoned, ServeAbandoned(r) PROVE Service!Next \/ UNCHANGED Service!vars
  <2>1. UNCHANGED <<calls, operation, results, pc>> /\ abandoned' = abandoned \ {r}
    BY <1>13 DEF ServeAbandoned, connection, caller
  <2>2. CallResults' = CallResults
    BY <2>1 DEF CallResults
  <2>3. r.call \in OpenCalls /\ r.call \in 1..MaxCalls /\ r.call <= calls
    BY <1>13, <1>a DEF OpenCalls, PastRequests, TypeInv, TypeOK, VsdTypeOK, Requests
  <2>4. OpenCalls' \in {OpenCalls, OpenCalls \ {r.call}}
    BY <2>1, <2>3 DEF OpenCalls
  <2>5. CASE UNCHANGED <<resource, effects>>
    <3>1. CASE r.call = calls /\ pc # "idle"
      <4>1. OpenCalls' = OpenCalls
        BY <2>1, <2>3, <3>1 DEF OpenCalls
      <4>2. QED
        BY <2>1, <2>2, <2>5, <4>1, ServiceStutters
    <3>2. CASE ~(r.call = calls /\ pc # "idle")
      <4>1. CallResults[r.call] # "pending"
        BY <2>3, <3>2, <1>b DEF ResultsOK, CallResults
      <4>2. CASE OpenCalls' = OpenCalls \ {r.call}
        <5>1. Service!Close(r.call)
          BY <2>1, <2>2, <2>5, <4>1, <4>2 DEF Service!Close, AppliedCalls
        <5>2. QED
          BY <5>1, <2>3, <1>d
      <4>3. CASE OpenCalls' = OpenCalls
        BY <2>1, <2>2, <2>5, <4>3, ServiceStutters
      <4>4. QED
        BY <2>4, <4>2, <4>3
    <3>3. QED
      BY <3>1, <3>2
  <2>6. CASE Possible(r.call) /\ TakesEffect(r.call) /\ effects' = effects \union {r}
    <3>1. AppliedCalls' = AppliedCalls \union {r.call}
      BY <2>6 DEF AppliedCalls
    <3>2. Service!Apply(r.call)
      <4>1. operation' = operation /\ calls' = calls
        BY <2>1
      <4>2. QED
        BY ONLY <4>1, <2>2, <2>3, <2>4, <2>6, <3>1 DEF Service!Apply, Possible, TakesEffect
    <3>3. QED
      BY <2>3, <3>2, <1>d
  <2>7. QED
    BY <1>13, <2>5, <2>6 DEF ServeAbandoned
<1>14. CASE ExpireKey
  BY <1>14, ServiceStutters DEF ExpireKey, connection, caller, OpenCalls, CallResults
<1>15. CASE UNCHANGED vars
  BY <1>15, ServiceStutters DEF vars, connection, caller, vsd, OpenCalls, CallResults
<1>16. QED
  BY <1>1, <1>2, <1>3, <1>4, <1>5, <1>6, <1>7, <1>8, <1>9, <1>10, <1>11, <1>12, <1>13,
     <1>14, <1>15 DEF Next, Proceed

\* RESTProxyServer implements the service its callers rely on.
THEOREM RestProxyImplementsService == Spec => ImplementsService
<1>1. Init => Service!Init
  BY DEF Init, Service!Init, Service!Calls, CallResults, AppliedCalls, OpenCalls
<1>2. QED
  BY <1>1, StepImplements, EffectInvariant, PTL DEF Spec, ImplementsService, Service!Spec
=============================================================================
