------------------------------ MODULE Approval ------------------------------
(***************************************************************************)
(* Claims that an assistant prepares and the user approves.  The language  *)
(* model may only prepare an action: a Redis hash of ten minutes.  A user  *)
(* approves it in a request of its own, which reads the hash under a lock, *)
(* runs the claim script for a pending action, and records the outcome and *)
(* the order in two more commands.  Whoever asks again is answered from    *)
(* the hash.                                                               *)
(*                                                                         *)
(* The lock lasts ten seconds and is not extended; the process may die and *)
(* a command may raise between any two steps.  Which tool the model calls, *)
(* and when, is its own affair: any action may be prepared at any time.    *)
(***************************************************************************)
EXTENDS SeckillRedis

CONSTANTS
  Actions,      \* action ids, each drawn once (uuid4)
  Approvers,    \* approval requests that may overlap
  Nothing,      \* a field the hash does not have
  MaxFaults     \* bound on crashes, errors and lapsed locks together

ASSUME ApprovalAssumption ==
  /\ Nothing \notin Users \cup Activities \cup Actions
  /\ MaxFaults \in Nat
  /\ {NoTask, Orphan} \cap Approvers = {}

VARIABLES
  action,          \* agent:approval:{action_id}
  approvalLock,    \* lock:agent:approval:{action_id}
  request,         \* what each approval request has read and does next
  faults,          \* faults that may still happen
  prepared,        \* history: what each action was prepared for
  origin,          \* history: the action an order was claimed for
  answers,         \* history: what requests for an action were answered
  disturbed        \* history: actions hit by a fault between claim and record

\* All but the bound on faults.
actionVars == <<action, approvalLock, request, prepared, origin, answers, disturbed>>
approvalVars == <<actionVars, faults>>

NoAction == [user |-> Nothing, activity |-> Nothing, status |-> "none", order |-> 0]
NoRequest == [at |-> "idle"]
NotPrepared == [user |-> Nothing, activity |-> Nothing]

ClaimOutcome == {"accepted", "sold_out", "duplicate", "not_active"}
Answer == [status : ClaimOutcome, order : 0 .. MaxOrders]
NotFound == [status |-> "not_found", order |-> 0]
NoAnswer == [status |-> "error", order |-> 0]

ApprovalPlaces == {"lock", "read", "claim", "status", "order", "release"}
\* The claim has run and its outcome is not recorded in full.
Unrecorded == {"status", "order"}

ApprovalTypeOK ==
  /\ action \in [Actions ->
       [user : Users \cup {Nothing}, activity : Activities \cup {Nothing},
        status : ClaimOutcome \cup {"none", "pending"}, order : 0 .. MaxOrders]]
  /\ approvalLock \in [Actions -> Approvers \cup {NoTask, Orphan}]
  /\ \A r \in Approvers : request[r] # NoRequest =>
       /\ request[r].at \in ApprovalPlaces
       /\ request[r].user \in Users
       /\ request[r].action \in Actions
       /\ request[r].activity \in Activities \cup {Nothing}
       /\ request[r].answer \in Answer \cup {NotFound, NoAnswer}
  /\ faults \in 0 .. MaxFaults
  /\ answers \in [Actions -> SUBSET Answer]
  /\ disturbed \subseteq Actions

ApprovalInit ==
  /\ action = [x \in Actions |-> NoAction]
  /\ approvalLock = [x \in Actions |-> NoTask]
  /\ request = [r \in Approvers |-> NoRequest]
  /\ faults = MaxFaults
  /\ prepared = [x \in Actions |-> NotPrepared]
  /\ origin = [o \in Orders |-> Nothing]
  /\ answers = [x \in Actions |-> {}]
  /\ disturbed = {}

-----------------------------------------------------------------------------
\* The tool prepare_token_claim: HSET pending, EXPIRE ten minutes.
Prepare(x, u, a) ==
  /\ prepared[x] = NotPrepared
  /\ prepared' = [prepared EXCEPT ![x] = [user |-> u, activity |-> a]]
  /\ action' = [action EXCEPT ![x] =
                  [user |-> u, activity |-> a, status |-> "pending", order |-> 0]]
  /\ UNCHANGED <<redisVars, approvalLock, request, faults, origin, answers, disturbed>>

\* The ten minutes are over.  A hash that a late HSET has recreated has no TTL.
ActionExpires(x) ==
  /\ action[x].user # Nothing
  /\ action' = [action EXCEPT ![x] = NoAction]
  /\ UNCHANGED <<redisVars, approvalLock, request, faults, prepared, origin, answers,
                 disturbed>>

\* Anybody who is logged in may ask for any action id.
AskApproval(r, u, x) ==
  /\ request[r] = NoRequest
  /\ prepared[x] # NotPrepared
  /\ request' = [request EXCEPT ![r] =
                   [at |-> "lock", user |-> u, action |-> x, activity |-> Nothing,
                    answer |-> NoAnswer]]
  /\ UNCHANGED <<redisVars, action, approvalLock, faults, prepared, origin, answers,
                 disturbed>>

AtApproval(r, place) == request[r] # NoRequest /\ request[r].at = place

Proceed(r, place) == request' = [request EXCEPT ![r].at = place]
ProceedWith(r, place, answer) ==
  request' = [request EXCEPT ![r].at = place, ![r].answer = answer]

\* Faulty variant: the claim runs without the lock of the action.
TakeApprovalLockNever(r) ==
  /\ AtApproval(r, "lock")
  /\ approvalLock' = [approvalLock EXCEPT ![request[r].action] = r]
  /\ Proceed(r, "read")
  /\ UNCHANGED <<redisVars, action, faults, prepared, origin, answers, disturbed>>

TakeApprovalLock(r) ==
  /\ AtApproval(r, "lock")
  /\ approvalLock[request[r].action] = NoTask
  /\ approvalLock' = [approvalLock EXCEPT ![request[r].action] = r]
  /\ Proceed(r, "read")
  /\ UNCHANGED <<redisVars, action, faults, prepared, origin, answers, disturbed>>

\* Two seconds are over: RuntimeError, the request is answered 500.
ApprovalBusy(r) ==
  /\ AtApproval(r, "lock")
  /\ approvalLock[request[r].action] # NoTask
  /\ request' = [request EXCEPT ![r] = NoRequest]
  /\ UNCHANGED <<redisVars, action, approvalLock, faults, prepared, origin, answers,
                 disturbed>>

\* Faulty variant: anybody may approve an action that exists.
OwnsOrExists(r, x) == action[x].user # Nothing

\* The hash is there and names the user who asks.  A hash that a late HSET has
\* recreated after its ten minutes names nobody.
Owns(r, x) == action[x].user = request[r].user

\* HGETALL: 404 for a foreign or missing action, the recorded outcome for one
\* that was approved, the claim for a pending one.
ReadAction(r) ==
  LET x == request[r].action
  IN  /\ AtApproval(r, "read")
      /\ \/ /\ ~Owns(r, x)
            /\ ProceedWith(r, "release", NotFound)
         \/ /\ Owns(r, x) /\ action[x].status # "pending"
            /\ ProceedWith(r, "release",
                           [status |-> action[x].status, order |-> action[x].order])
         \/ /\ Owns(r, x) /\ action[x].status = "pending"
            /\ request' = [request EXCEPT ![r].at = "claim",
                                          ![r].activity = action[x].activity]
      /\ UNCHANGED <<redisVars, action, approvalLock, faults, prepared, origin, answers,
                     disturbed>>

\* Faulty variant: the number drawn for the order is returned with any outcome.
OrderNumberAlways(outcome) == Len(stream) + 1

\* ClaimResponse.order_id: a number was drawn in any case, but only an accepted
\* claim returns it.
OrderNumber(outcome) == IF outcome = "accepted" THEN Len(stream) + 1 ELSE 0

\* SeckillService.claim: the script decides.
ClaimForAction(r) ==
  LET u == request[r].user
      a == request[r].activity
      outcome == Outcome(u, a)
  IN  /\ AtApproval(r, "claim")
      /\ \/ /\ outcome = "accepted"
            /\ Claim(u, a)
            /\ origin' = [origin EXCEPT ![Len(stream) + 1] = request[r].action]
         \/ /\ outcome # "accepted"
            /\ UNCHANGED <<redisVars, origin>>
      /\ ProceedWith(r, "status", [status |-> outcome, order |-> OrderNumber(outcome)])
      /\ UNCHANGED <<action, approvalLock, faults, prepared, answers, disturbed>>

\* HSET status.
RecordStatus(r) ==
  LET x == request[r].action
  IN  /\ AtApproval(r, "status")
      /\ action' = [action EXCEPT ![x].status = request[r].answer.status]
      /\ Proceed(r, IF request[r].answer.order # 0 THEN "order" ELSE "release")
      /\ UNCHANGED <<redisVars, approvalLock, faults, prepared, origin, answers, disturbed>>

\* Faulty variant: the order id is not written to the hash.
RecordOrderForgotten(r) ==
  /\ AtApproval(r, "order")
  /\ Proceed(r, "release")
  /\ UNCHANGED <<redisVars, action, approvalLock, faults, prepared, origin, answers,
                 disturbed>>

\* HSET order_id.
RecordOrder(r) ==
  /\ AtApproval(r, "order")
  /\ action' = [action EXCEPT ![request[r].action].order = request[r].answer.order]
  /\ Proceed(r, "release")
  /\ UNCHANGED <<redisVars, approvalLock, faults, prepared, origin, answers, disturbed>>

\* finally: the answer leaves only if the lock is still the request's own;
\* otherwise the release raises and the request is answered 500.
ReleaseApproval(r) ==
  LET x == request[r].action
  IN  /\ AtApproval(r, "release")
      /\ \/ /\ approvalLock[x] = r
            /\ approvalLock' = [approvalLock EXCEPT ![x] = NoTask]
            /\ answers' = [answers EXCEPT ![x] = @ \cup ({request[r].answer} \cap Answer)]
         \/ /\ approvalLock[x] # r
            /\ UNCHANGED <<approvalLock, answers>>
      /\ request' = [request EXCEPT ![r] = NoRequest]
      /\ UNCHANGED <<redisVars, action, faults, prepared, origin, disturbed>>

-----------------------------------------------------------------------------
SpendFault == faults > 0 /\ faults' = faults - 1

\* A fault between the claim and its record leaves the action pending, or
\* accepted without its order.
Disturb(r) ==
  disturbed' = IF request[r].at \in Unrecorded THEN disturbed \cup {request[r].action}
               ELSE disturbed

\* A command raises, its effect done or not: the lock is released, 500.
ApprovalFails(r) ==
  /\ request[r] # NoRequest /\ request[r].at # "lock"
  /\ SpendFault
  /\ Disturb(r)
  /\ ProceedWith(r, "release", NoAnswer)
  /\ UNCHANGED <<redisVars, action, approvalLock, prepared, origin, answers>>

\* The process dies: nothing is released.
ApproverDies(r) ==
  /\ request[r] # NoRequest
  /\ SpendFault
  /\ Disturb(r)
  /\ request' = [request EXCEPT ![r] = NoRequest]
  /\ approvalLock' =
       [x \in Actions |-> IF approvalLock[x] = r THEN Orphan ELSE approvalLock[x]]
  /\ UNCHANGED <<redisVars, action, prepared, origin, answers>>

\* The ten seconds of the lock are over while its owner still works.
ApprovalLockLapses(x) ==
  /\ approvalLock[x] \in Approvers
  /\ SpendFault
  /\ approvalLock' = [approvalLock EXCEPT ![x] = NoTask]
  /\ disturbed' = disturbed \cup {x}
  /\ UNCHANGED <<redisVars, action, request, prepared, origin, answers>>

ApprovalOrphanExpires(x) ==
  /\ approvalLock[x] = Orphan
  /\ approvalLock' = [approvalLock EXCEPT ![x] = NoTask]
  /\ UNCHANGED <<redisVars, action, request, faults, prepared, origin, answers, disturbed>>

ApprovalNext ==
  \/ \E x \in Actions, u \in Users, a \in Activities : Prepare(x, u, a)
  \/ \E x \in Actions :
       ActionExpires(x) \/ ApprovalLockLapses(x) \/ ApprovalOrphanExpires(x)
  \/ \E r \in Approvers :
       \/ \E u \in Users, x \in Actions : AskApproval(r, u, x)
       \/ TakeApprovalLock(r)
       \/ ApprovalBusy(r)
       \/ ReadAction(r)
       \/ ClaimForAction(r)
       \/ RecordStatus(r)
       \/ RecordOrder(r)
       \/ ReleaseApproval(r)
       \/ ApprovalFails(r)
       \/ ApproverDies(r)

-----------------------------------------------------------------------------
\* "Already handled: return the current state (idempotent)" (quota_agent.py
\* 111, test_agent_safety.py 50-52): whoever asks, once or again, alone or at
\* the same time, gets the same status and the same order.  It takes a request
\* that was not cut off between its claim and its two HSETs and whose lock did
\* not lapse.
AnswersAgree ==
  \A x \in Actions \ disturbed : \A p, q \in answers[x] : p = q

\* An undisturbed action claims once, even if its order is cancelled and the
\* user could claim again while a second request is on its way (103-112).
OneOrderPerAction ==
  \A x \in Actions \ disturbed : Cardinality({o \in Orders : origin[o] = x}) <= 1

\* "You must never claim around the approval" (31-34, 108): every order that
\* came from an action is the claim of the user for whom it was prepared, of the
\* activity it was prepared for, whatever fails or lapses or asks in between.
ApprovedByOwner ==
  \A o \in Accepted : origin[o] # Nothing =>
    prepared[origin[o]] = [user |-> UserOf(o), activity |-> ActivityOf(o)]

\* An order that a hash or an answer names was claimed for that action: no mix
\* of two requests, and no number drawn for a refused claim (123-131).
NamedOrderIsTheActions ==
  \A x \in Actions :
    /\ action[x].order # 0 => origin[action[x].order] = x
    /\ \A p \in answers[x] : p.order # 0 => origin[p.order] = x
=============================================================================
