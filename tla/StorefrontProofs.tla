-------------------------- MODULE StorefrontProofs --------------------------
(***************************************************************************)
(* Theorems about the claims a user approves and the pages that follow the *)
(* stock.  The type invariant comes first; then who an order was approved  *)
(* by, whatever fails; then what the lock of an action gives as long as no *)
(* fault hits the action: one order and one answer; then the pages.        *)
(***************************************************************************)
EXTENDS Storefront, StoresProofs

-----------------------------------------------------------------------------
(* Types *)

Asked ==
  [at : ApprovalPlaces, user : Users, action : Actions,
   activity : Activities \cup {Nothing}, answer : Answer \cup {NotFound, NoAnswer}]

Page == [at : ViewerPlaces, activity : Activities, shown : Nat, frames : Seq(Nat)]

\* What the claim and the two HSETs need: the activity that was read, and the
\* outcome.  A hash that names a user has a status.
StepsTyped ==
  /\ \A r \in Approvers :
       /\ AtApproval(r, "claim") => request[r].activity \in Activities
       /\ request[r] # NoRequest /\ request[r].at \in Unrecorded => request[r].answer \in Answer
  /\ \A x \in Actions :
       action[x].user # Nothing => action[x].status # "none" /\ action[x].activity \in Activities

StorefrontTypes ==
  /\ StorefrontTypeOK
  /\ request \in [Approvers -> Asked \cup {NoRequest}]
  /\ prepared \in [Actions -> [user : Users, activity : Activities] \cup {NotPrepared}]
  /\ origin \in [Orders -> Actions \cup {Nothing}]
  /\ viewer \in [Viewers -> Page \cup {Away}]
  /\ StepsTyped

-----------------------------------------------------------------------------
(* Who approves what *)

\* The hash and the request that claims agree with what was prepared.
PreparedFor ==
  /\ \A x \in Actions : action[x].user # Nothing =>
       prepared[x] = [user |-> action[x].user, activity |-> action[x].activity]
  /\ \A r \in Approvers : request[r] # NoRequest => prepared[request[r].action] # NotPrepared
  /\ \A r \in Approvers : AtApproval(r, "claim") =>
       prepared[request[r].action] =
         [user |-> request[r].user, activity |-> request[r].activity]
  /\ \A o \in Orders \ Accepted : origin[o] = Nothing

\* An order that a request holds is its action's too.
NamedInHand ==
  /\ NamedOrderIsTheActions
  /\ \A r \in Approvers :
       request[r] # NoRequest /\ request[r].answer.order # 0 =>
         origin[request[r].answer.order] = request[r].action

-----------------------------------------------------------------------------
(* An action no fault has hit *)

WorksOn(r, x) == request[r] # NoRequest /\ request[r].action = x

LockKept ==
  \A r \in Approvers :
    request[r] # NoRequest /\ request[r].at # "lock" /\ request[r].action \notin disturbed =>
      approvalLock[request[r].action] = r

\* The claim of this action may still run.
ClaimAhead(x) ==
  \/ prepared[x] = NotPrepared
  \/ \E r \in Approvers : AtApproval(r, "claim") /\ WorksOn(r, x)
  \/ /\ action[x].status = "pending"
     /\ \A r \in Approvers : ~(AtApproval(r, "status") /\ WorksOn(r, x))

\* p has been answered, is about to be, or is in the hash for whoever asks.
Known(x, p) ==
  /\ p \in Answer
  /\ \/ p \in answers[x]
     \/ \E r \in Approvers : WorksOn(r, x) /\ request[r].answer = p
     \/ /\ action[x].user # Nothing
        /\ p = [status |-> action[x].status, order |-> action[x].order]
        /\ \A r \in Approvers : ~(AtApproval(r, "order") /\ WorksOn(r, x))

NothingBeforeClaim ==
  \A x \in Actions \ disturbed : ClaimAhead(x) =>
    /\ \A o \in Orders : origin[o] # x
    /\ \A p \in Answer : ~Known(x, p)

OneOutcome ==
  \A x \in Actions \ disturbed :
    /\ \A o, p \in Orders : origin[o] = x /\ origin[p] = x => o = p
    /\ \A p, q \in Answer : Known(x, p) /\ Known(x, q) => p = q

\* The hash between the two HSETs.
HalfRecorded ==
  \A r \in Approvers : request[r] # NoRequest /\ request[r].action \notin disturbed =>
    /\ request[r].at = "status" => action[request[r].action].order = 0
    /\ request[r].at = "order" /\ action[request[r].action].user # Nothing =>
         action[request[r].action].status = request[r].answer.status

-----------------------------------------------------------------------------
(* The pages *)

\* What a page shows once it has shown all its frames.
ShowsLast(v) ==
  IF viewer[v].frames = << >> THEN viewer[v].shown
  ELSE viewer[v].frames[Len(viewer[v].frames)]

PagesFollow ==
  \A v \in Viewers : viewer[v] # Away =>
    /\ viewer[v].at = "loaded" => viewer[v].frames = << >>
    /\ v \notin missed => ShowsLast(v) = stock[viewer[v].activity]
-----------------------------------------------------------------------------
\* Everybody but a publication changes the Redis keys with its operations only.
LEMMA RedisStays ==
  ASSUME StorefrontTypes, [StorefrontNext]_storefrontVars
  PROVE  [RedisNext]_redisVars \/ PublishAgain
<1>1. ASSUME NEW r \in Approvers, ClaimForAction(r) PROVE [RedisNext]_redisVars
  <2>1. request[r].user \in Users /\ request[r].activity \in Activities
    BY <1>1 DEF ClaimForAction, AtApproval, StorefrontTypes, StepsTyped, Asked
  <2> QED
    BY <1>1, <2>1 DEF ClaimForAction, RedisNext
<1>2. ASSUME ApprovalNext, \A r \in Approvers : ~ClaimForAction(r) PROVE UNCHANGED redisVars
  BY <1>2 DEF ApprovalNext, Prepare, ActionExpires, ApprovalLockLapses,
     ApprovalOrphanExpires, AskApproval, TakeApprovalLock, ApprovalBusy, ReadAction,
     RecordStatus, RecordOrder, ReleaseApproval, ApprovalFails, ApproverDies
<1>3. ASSUME OtherSteps PROVE RedisNext
  BY <1>3 DEF OtherSteps, Withdraw, RedisNext
<1> QED
  BY <1>1, <1>2, <1>3 DEF StorefrontNext, storefrontVars

\* A publication sets the stock or clears the claims, and moves nothing else.
LEMMA PublishAgainKeeps ==
  ASSUME StorefrontTypes, PublishAgain
  PROVE  /\ RedisTypeOK' /\ UNCHANGED stream
         /\ clearing' \in [Publishers -> Activities \cup {Nothing}]
<1> USE DEF StorefrontTypes, StorefrontTypeOK, RedisTypeOK
<1>1. ASSUME NEW p \in Publishers, NEW a \in Activities, ReplaceStock(p, a)
      PROVE  /\ RedisTypeOK' /\ UNCHANGED stream
             /\ clearing' \in [Publishers -> Activities \cup {Nothing}]
  <2>1. 0 .. InitialStock[a] \subseteq Nat
    BY BaseAssumption DEF BaseAssumption
  <2>2. stock' \in [Activities -> Nat]
    BY <1>1, <2>1 DEF ReplaceStock
  <2> QED
    BY <1>1, <2>2 DEF ReplaceStock, Accepted
<1>2. ASSUME NEW p \in Publishers, NEW a \in Activities, ClearClaims(p, a)
      PROVE  /\ RedisTypeOK' /\ UNCHANGED stream
             /\ clearing' \in [Publishers -> Activities \cup {Nothing}]
  BY <1>2 DEF ClearClaims, Accepted
<1>3. ASSUME NEW p \in Publishers, StopPublishing(p)
      PROVE  /\ RedisTypeOK' /\ UNCHANGED stream
             /\ clearing' \in [Publishers -> Activities \cup {Nothing}]
  BY <1>3 DEF StopPublishing, redisVars, Accepted
<1> QED
  BY <1>1, <1>2, <1>3 DEF PublishAgain

\* Whoever takes a step: the keys keep their types, and an accepted order its
\* user and its activity.
LEMMA RedisKept ==
  ASSUME StorefrontTypes, [StorefrontNext]_storefrontVars
  PROVE  /\ RedisTypeOK'
         /\ Accepted \subseteq Accepted'
         /\ \A o \in Accepted : UserOf(o)' = UserOf(o) /\ ActivityOf(o)' = ActivityOf(o)
<1>1. CASE [RedisNext]_redisVars
  BY <1>1, RedisStepType, StreamGrows DEF StorefrontTypes, StorefrontTypeOK
<1>2. CASE PublishAgain
  BY <1>2, PublishAgainKeeps DEF Accepted, UserOf, ActivityOf
<1> QED
  BY <1>1, <1>2, RedisStays

LEMMA RecordsDiffer ==
  ASSUME NEW q \in Asked
  PROVE  q # NoRequest
BY DEF Asked, NoRequest, ApprovalPlaces

LEMMA OutcomeTyped ==
  ASSUME NEW u, NEW a
  PROVE  Outcome(u, a) \in ClaimOutcome
BY DEF Outcome, ClaimOutcome

\* What each step makes of the request that takes it.
LEMMA RequestTypes ==
  ASSUME StorefrontTypes, ApprovalNext
  PROVE  request' \in [Approvers -> Asked \cup {NoRequest}]
<1> USE DEF StorefrontTypes, StorefrontTypeOK, ApprovalTypeOK
<1>1. ASSUME NEW r \in Approvers, request[r] # NoRequest PROVE request[r] \in Asked
  BY <1>1
<1>2. ASSUME NEW r \in Approvers, NEW place \in ApprovalPlaces, request[r] # NoRequest,
             Proceed(r, place)
      PROVE  request' \in [Approvers -> Asked \cup {NoRequest}]
  BY <1>1, <1>2 DEF Proceed, Asked
<1>3. ASSUME NEW r \in Approvers, NEW place \in ApprovalPlaces, request[r] # NoRequest,
             NEW answer \in Answer \cup {NotFound, NoAnswer}, ProceedWith(r, place, answer)
      PROVE  request' \in [Approvers -> Asked \cup {NoRequest}]
  <2>1. request' = [request EXCEPT ![r] = [request[r] EXCEPT !.at = place, !.answer = answer]]
    BY <1>3 DEF ProceedWith
  <2>2. [request[r] EXCEPT !.at = place, !.answer = answer] \in Asked
    BY <1>1, <1>3 DEF Asked
  <2> QED
    BY <2>1, <2>2
<1>4. ASSUME NEW r \in Approvers, NEW u \in Users, NEW x \in Actions, AskApproval(r, u, x)
      PROVE  request' \in [Approvers -> Asked \cup {NoRequest}]
  BY <1>4 DEF AskApproval, Asked, ApprovalPlaces
<1>5. ASSUME NEW r \in Approvers, ReadAction(r)
      PROVE  request' \in [Approvers -> Asked \cup {NoRequest}]
  <2> DEFINE x == request[r].action
  <2>1. /\ request[r] # NoRequest /\ request[r] \in Asked /\ x \in Actions
        /\ action[x] \in [user : Users \cup {Nothing}, activity : Activities \cup {Nothing},
                          status : ClaimOutcome \cup {"none", "pending"}, order : 0 .. MaxOrders]
    BY <1>1, <1>5 DEF ReadAction, AtApproval, Asked
  <2>2. CASE ProceedWith(r, "release", NotFound)
    BY <1>3, <2>1, <2>2 DEF ApprovalPlaces
  <2>3. CASE /\ Owns(r, x) /\ action[x].status # "pending"
             /\ ProceedWith(r, "release",
                            [status |-> action[x].status, order |-> action[x].order])
    <3>1. action[x].user # Nothing
      BY <2>1, <2>3, ApprovalAssumption DEF Owns, Asked, ApprovalAssumption
    <3>2. [status |-> action[x].status, order |-> action[x].order] \in Answer
      BY <2>1, <2>3, <3>1 DEF StepsTyped, Answer
    <3> QED
      BY <1>3, <2>1, <2>3, <3>2 DEF ApprovalPlaces
  <2>4. CASE request' = [request EXCEPT ![r].at = "claim", ![r].activity = action[x].activity]
    BY <2>1, <2>4 DEF Asked, ApprovalPlaces
  <2> QED
    BY <1>5, <2>2, <2>3, <2>4 DEF ReadAction
<1>6. ASSUME NEW r \in Approvers, ClaimForAction(r)
      PROVE  request' \in [Approvers -> Asked \cup {NoRequest}]
  <2>1. PICK outcome : outcome = Outcome(request[r].user, request[r].activity)
    OBVIOUS
  <2>2. [status |-> outcome, order |-> OrderNumber(outcome)] \in Answer
    <3>1. outcome \in ClaimOutcome
      BY <2>1, OutcomeTyped
    <3>2. Len(stream) \in Nat
      BY DEF RedisTypeOK
    <3>3. outcome = "accepted" => Len(stream) < MaxOrders
      BY <1>6, <2>1 DEF ClaimForAction, Claim
    <3>4. OrderNumber(outcome) \in 0 .. MaxOrders
      BY <3>2, <3>3, BaseAssumption DEF OrderNumber, BaseAssumption
    <3> QED
      BY <3>1, <3>4 DEF Answer
  <2>3. ProceedWith(r, "status", [status |-> outcome, order |-> OrderNumber(outcome)])
    BY <1>6, <2>1 DEF ClaimForAction
  <2> QED
    BY <1>3, <1>6, <2>2, <2>3 DEF ClaimForAction, AtApproval, ApprovalPlaces
<1>7. ASSUME NEW r \in Approvers,
             \/ TakeApprovalLock(r) \/ ApprovalBusy(r) \/ RecordStatus(r) \/ RecordOrder(r)
             \/ ReleaseApproval(r) \/ ApprovalFails(r) \/ ApproverDies(r)
      PROVE  request' \in [Approvers -> Asked \cup {NoRequest}]
  <2>1. CASE request' = [request EXCEPT ![r] = NoRequest]
    BY <2>1
  <2>2. CASE TakeApprovalLock(r) \/ RecordStatus(r) \/ RecordOrder(r)
    BY <1>2, <2>2 DEF TakeApprovalLock, RecordStatus, RecordOrder, AtApproval, ApprovalPlaces
  <2>3. CASE ApprovalFails(r)
    BY <1>3, <2>3 DEF ApprovalFails, ApprovalPlaces
  <2> QED
    BY <1>7, <2>1, <2>2, <2>3 DEF ApprovalBusy, ReleaseApproval, ApproverDies
<1>8. CASE UNCHANGED request
  BY <1>8
<1> QED
  BY <1>4, <1>5, <1>6, <1>7, <1>8
  DEF ApprovalNext, Prepare, ActionExpires, ApprovalLockLapses, ApprovalOrphanExpires

-----------------------------------------------------------------------------
(* What each step makes of the request that takes it *)

Moves(r, place) ==
  /\ request[r] \in Asked /\ request'[r] \in Asked
  /\ request'[r].user = request[r].user /\ request'[r].action = request[r].action
  /\ request'[r].at = place
  /\ \A q \in Approvers : q # r => request'[q] = request[q]

SameAnswer(r) ==
  request'[r].answer = request[r].answer /\ request'[r].activity = request[r].activity

Leaves(r) ==
  /\ request'[r] = NoRequest
  /\ \A q \in Approvers : q # r => request'[q] = request[q]

LEMMA ProceedMoves ==
  ASSUME StorefrontTypes, ApprovalNext, NEW r \in Approvers, NEW place \in ApprovalPlaces,
         request[r] # NoRequest
  PROVE  /\ Proceed(r, place) => Moves(r, place) /\ SameAnswer(r)
         /\ \A answer : ProceedWith(r, place, answer) =>
              /\ Moves(r, place)
              /\ request'[r].answer = answer /\ request'[r].activity = request[r].activity
<1>1. /\ request \in [Approvers -> Asked \cup {NoRequest}] /\ request[r] \in Asked
      /\ request' \in [Approvers -> Asked \cup {NoRequest}]
  BY RequestTypes DEF StorefrontTypes
<1>2. ASSUME Proceed(r, place) PROVE Moves(r, place) /\ SameAnswer(r)
  <2>1. /\ request'[r] = [request[r] EXCEPT !.at = place]
        /\ \A q \in Approvers : q # r => request'[q] = request[q]
    BY <1>1, <1>2 DEF Proceed
  <2>2. [request[r] EXCEPT !.at = place] \in Asked
    BY <1>1 DEF Asked
  <2> QED
    BY <1>1, <2>1, <2>2 DEF Moves, SameAnswer, Asked
<1>3. ASSUME NEW answer, ProceedWith(r, place, answer)
      PROVE  /\ Moves(r, place)
             /\ request'[r].answer = answer /\ request'[r].activity = request[r].activity
  <2>1. /\ request'[r] = [request[r] EXCEPT !.at = place, !.answer = answer]
        /\ \A q \in Approvers : q # r => request'[q] = request[q]
    <3>1. request' = [request EXCEPT ![r] = [request[r] EXCEPT !.at = place, !.answer = answer]]
      BY <1>3 DEF ProceedWith
    <3> QED
      BY <1>1, <3>1
  <2>2. DOMAIN request[r] = {"at", "user", "action", "activity", "answer"}
    BY <1>1 DEF Asked
  <2>3. /\ request'[r].at = place /\ request'[r].answer = answer
        /\ request'[r].user = request[r].user /\ request'[r].action = request[r].action
        /\ request'[r].activity = request[r].activity
    BY <2>1, <2>2
  <2>4. request'[r] \in Asked
    <3>1. request'[r] # NoRequest
      BY <2>3 DEF NoRequest, ApprovalPlaces
    <3> QED
      BY <1>1, <3>1
  <2> QED
    BY <1>1, <2>1, <2>3, <2>4 DEF Moves
<1> QED
  BY <1>2, <1>3

LEMMA TakeLockMoves ==
  ASSUME StorefrontTypes, ApprovalNext, NEW r \in Approvers, TakeApprovalLock(r)
  PROVE  AtApproval(r, "lock") /\ Moves(r, "read") /\ SameAnswer(r)
BY ProceedMoves DEF TakeApprovalLock, AtApproval, ApprovalPlaces

LEMMA ReadMoves ==
  ASSUME StorefrontTypes, ApprovalNext, NEW r \in Approvers, ReadAction(r)
  PROVE  LET x == request[r].action
         IN  /\ AtApproval(r, "read")
             /\ \/ /\ Moves(r, "release") /\ request'[r].answer = NotFound
                \/ /\ Moves(r, "release")
                   /\ action[x].user = request[r].user /\ action[x].user # Nothing
                   /\ action[x].status # "pending"
                   /\ request'[r].answer =
                        [status |-> action[x].status, order |-> action[x].order]
                \/ /\ Moves(r, "claim") /\ request'[r].answer = request[r].answer
                   /\ action[x].user = request[r].user /\ action[x].user # Nothing
                   /\ action[x].status = "pending"
                   /\ request'[r].activity = action[x].activity
<1> DEFINE x == request[r].action
<1>1. /\ AtApproval(r, "read") /\ request[r] # NoRequest /\ request[r] \in Asked
      /\ request \in [Approvers -> Asked \cup {NoRequest}]
      /\ request' \in [Approvers -> Asked \cup {NoRequest}]
  BY RequestTypes DEF ReadAction, AtApproval, StorefrontTypes
<1>2. Owns(r, x) => action[x].user = request[r].user /\ action[x].user # Nothing
  BY <1>1, ApprovalAssumption DEF Owns, Asked, ApprovalAssumption
<1>3. CASE ProceedWith(r, "release", NotFound)
  BY <1>1, <1>3, ProceedMoves DEF ApprovalPlaces
<1>4. CASE /\ Owns(r, x) /\ action[x].status # "pending"
           /\ ProceedWith(r, "release",
                          [status |-> action[x].status, order |-> action[x].order])
  BY <1>1, <1>2, <1>4, ProceedMoves DEF ApprovalPlaces
<1>5. CASE /\ Owns(r, x) /\ action[x].status = "pending"
           /\ request' = [request EXCEPT ![r].at = "claim", ![r].activity = action[x].activity]
  <2>1. /\ request'[r] = [request[r] EXCEPT !.at = "claim", !.activity = action[x].activity]
        /\ \A q \in Approvers : q # r => request'[q] = request[q]
    <3>1. request' = [request EXCEPT ![r] =
                        [request[r] EXCEPT !.at = "claim", !.activity = action[x].activity]]
      BY <1>5
    <3> QED
      BY <1>1, <3>1
  <2>2. DOMAIN request[r] = {"at", "user", "action", "activity", "answer"}
    BY <1>1 DEF Asked
  <2>3. /\ request'[r].at = "claim" /\ request'[r].activity = action[x].activity
        /\ request'[r].user = request[r].user /\ request'[r].action = request[r].action
        /\ request'[r].answer = request[r].answer
    BY <2>1, <2>2
  <2>4. request'[r] \in Asked
    <3>1. request'[r] # NoRequest
      BY <2>3 DEF NoRequest
    <3> QED
      BY <1>1, <3>1
  <2> QED
    BY <1>1, <1>2, <1>5, <2>1, <2>3, <2>4 DEF Moves
<1> QED
  BY <1>1, <1>3, <1>4, <1>5 DEF ReadAction

LEMMA ClaimMoves ==
  ASSUME StorefrontTypes, ApprovalNext, NEW r \in Approvers, ClaimForAction(r)
  PROVE  LET outcome == Outcome(request[r].user, request[r].activity)
         IN  /\ AtApproval(r, "claim") /\ Moves(r, "status")
             /\ request'[r].activity = request[r].activity
             /\ request'[r].answer = [status |-> outcome, order |-> OrderNumber(outcome)]
             /\ request'[r].answer \in Answer
             /\ outcome \in ClaimOutcome
<1>1. PICK outcome : outcome = Outcome(request[r].user, request[r].activity)
  OBVIOUS
<1>2. /\ AtApproval(r, "claim") /\ request[r] # NoRequest
      /\ ProceedWith(r, "status", [status |-> outcome, order |-> OrderNumber(outcome)])
  BY <1>1 DEF ClaimForAction, AtApproval
<1>3. /\ Moves(r, "status") /\ request'[r].activity = request[r].activity
      /\ request'[r].answer = [status |-> outcome, order |-> OrderNumber(outcome)]
  BY <1>2, ProceedMoves DEF ApprovalPlaces
<1>4. outcome \in ClaimOutcome
  BY <1>1, OutcomeTyped
<1>5. request'[r].answer \in Answer
  BY <1>3, <1>4 DEF Moves, Asked, NotFound, NoAnswer, ClaimOutcome
<1> QED
  BY <1>1, <1>2, <1>3, <1>4, <1>5

LEMMA RecordMoves ==
  ASSUME StorefrontTypes, ApprovalNext, NEW r \in Approvers
  PROVE  /\ RecordStatus(r) =>
              /\ AtApproval(r, "status") /\ SameAnswer(r)
              /\ IF request[r].answer.order # 0 THEN Moves(r, "order") ELSE Moves(r, "release")
         /\ RecordOrder(r) => AtApproval(r, "order") /\ Moves(r, "release") /\ SameAnswer(r)
BY ProceedMoves DEF RecordStatus, RecordOrder, AtApproval, ApprovalPlaces

LEMMA FailMoves ==
  ASSUME StorefrontTypes, ApprovalNext, NEW r \in Approvers, ApprovalFails(r)
  PROVE  /\ Moves(r, "release") /\ request'[r].answer = NoAnswer
         /\ request[r].at # "lock"
BY ProceedMoves DEF ApprovalFails, ApprovalPlaces

LEMMA LeaveMoves ==
  ASSUME StorefrontTypes, NEW r \in Approvers,
         ApprovalBusy(r) \/ ReleaseApproval(r) \/ ApproverDies(r)
  PROVE  request[r] \in Asked /\ Leaves(r)
BY DEF StorefrontTypes, ApprovalBusy, ReleaseApproval, ApproverDies, AtApproval, Leaves

LEMMA AskMoves ==
  ASSUME StorefrontTypes, NEW r \in Approvers, NEW u \in Users, NEW x \in Actions,
         AskApproval(r, u, x)
  PROVE  /\ request[r] = NoRequest /\ prepared[x] # NotPrepared
         /\ request'[r] \in Asked
         /\ request'[r].at = "lock" /\ request'[r].user = u /\ request'[r].action = x
         /\ request'[r].answer = NoAnswer
         /\ \A q \in Approvers : q # r => request'[q] = request[q]
BY DEF StorefrontTypes, AskApproval, Asked, ApprovalPlaces

-----------------------------------------------------------------------------
(* The types are kept *)

\* An action record in full, so that a step may change one field of it.
ActionRecord ==
  [user : Users \cup {Nothing}, activity : Activities \cup {Nothing},
   status : ClaimOutcome \cup {"none", "pending"}, order : 0 .. MaxOrders]

LEMMA ActionStep ==
  ASSUME StorefrontTypes, ApprovalNext
  PROVE  action' \in [Actions -> ActionRecord]
<1>1. /\ action \in [Actions -> ActionRecord]
      /\ \A r \in Approvers : request[r] # NoRequest => request[r] \in Asked
  BY DEF StorefrontTypes, StorefrontTypeOK, ApprovalTypeOK, ActionRecord
<1>2. ASSUME NEW x \in Actions, NEW u \in Users, NEW a \in Activities, Prepare(x, u, a)
      PROVE  action' \in [Actions -> ActionRecord]
  BY <1>1, <1>2, BaseAssumption DEF Prepare, ActionRecord, BaseAssumption
<1>3. ASSUME NEW x \in Actions, ActionExpires(x) PROVE action' \in [Actions -> ActionRecord]
  BY <1>1, <1>3, BaseAssumption DEF ActionExpires, NoAction, ActionRecord, BaseAssumption
<1>4. ASSUME NEW r \in Approvers, RecordStatus(r) PROVE action' \in [Actions -> ActionRecord]
  <2>1. request[r] \in Asked /\ request[r].answer \in Answer
    BY <1>1, <1>4 DEF RecordStatus, AtApproval, StorefrontTypes, StepsTyped, Unrecorded
  <2> QED
    BY <1>1, <1>4, <2>1 DEF RecordStatus, Asked, Answer, ActionRecord
<1>5. ASSUME NEW r \in Approvers, RecordOrder(r) PROVE action' \in [Actions -> ActionRecord]
  <2>1. request[r] \in Asked /\ request[r].answer \in Answer
    BY <1>1, <1>5 DEF RecordOrder, AtApproval, StorefrontTypes, StepsTyped, Unrecorded
  <2> QED
    BY <1>1, <1>5, <2>1 DEF RecordOrder, Asked, Answer, ActionRecord
<1>6. CASE UNCHANGED action
  BY <1>1, <1>6
<1> QED
  BY <1>2, <1>3, <1>4, <1>5, <1>6
  DEF ApprovalNext, ApprovalLockLapses, ApprovalOrphanExpires, AskApproval,
      TakeApprovalLock, ApprovalBusy, ReadAction, ClaimForAction, ReleaseApproval,
      ApprovalFails, ApproverDies

LEMMA HistoryStep ==
  ASSUME StorefrontTypes, ApprovalNext
  PROVE  /\ prepared' \in [Actions -> [user : Users, activity : Activities] \cup {NotPrepared}]
         /\ origin' \in [Orders -> Actions \cup {Nothing}]
         /\ answers' \in [Actions -> SUBSET Answer]
         /\ disturbed' \subseteq Actions
<1>1. /\ prepared \in [Actions -> [user : Users, activity : Activities] \cup {NotPrepared}]
      /\ origin \in [Orders -> Actions \cup {Nothing}]
      /\ answers \in [Actions -> SUBSET Answer]
      /\ disturbed \subseteq Actions
      /\ \A r \in Approvers : request[r] # NoRequest => request[r] \in Asked
  BY DEF StorefrontTypes, StorefrontTypeOK, ApprovalTypeOK
<1>2. ASSUME NEW r \in Approvers, ClaimForAction(r)
      PROVE  origin' \in [Orders -> Actions \cup {Nothing}]
  <2>1. request[r].action \in Actions
    BY <1>1, <1>2 DEF ClaimForAction, AtApproval, Asked
  <2> QED
    BY <1>1, <1>2, <2>1 DEF ClaimForAction
<1>3. ASSUME NEW r \in Approvers, ReleaseApproval(r) PROVE answers' \in [Actions -> SUBSET Answer]
  BY <1>1, <1>3 DEF ReleaseApproval
<1>4. ASSUME NEW r \in Approvers, ApprovalFails(r) \/ ApproverDies(r)
      PROVE  disturbed' \subseteq Actions
  BY <1>1, <1>4 DEF ApprovalFails, ApproverDies, Disturb, Asked
<1>5. CASE \E x \in Actions, u \in Users, a \in Activities : Prepare(x, u, a)
  BY <1>1, <1>5 DEF Prepare
<1>6. CASE \E x \in Actions :
             ActionExpires(x) \/ ApprovalLockLapses(x) \/ ApprovalOrphanExpires(x)
  BY <1>1, <1>6 DEF ActionExpires, ApprovalLockLapses, ApprovalOrphanExpires
<1>7. ASSUME NEW r \in Approvers,
             \/ \E u \in Users, x \in Actions : AskApproval(r, u, x)
             \/ TakeApprovalLock(r) \/ ApprovalBusy(r) \/ ReadAction(r) \/ RecordStatus(r)
             \/ RecordOrder(r)
      PROVE  UNCHANGED <<prepared, origin, answers, disturbed>>
  BY <1>7 DEF AskApproval, TakeApprovalLock, ApprovalBusy, ReadAction, RecordStatus, RecordOrder
<1>8. ASSUME NEW r \in Approvers
      PROVE  /\ ClaimForAction(r) => UNCHANGED <<prepared, answers, disturbed>>
             /\ ReleaseApproval(r) => UNCHANGED <<prepared, origin, disturbed>>
             /\ ApprovalFails(r) \/ ApproverDies(r) => UNCHANGED <<prepared, origin, answers>>
  BY DEF ClaimForAction, ReleaseApproval, ApprovalFails, ApproverDies
<1> QED
  BY <1>1, <1>2, <1>3, <1>4, <1>5, <1>6, <1>7, <1>8 DEF ApprovalNext

LEMMA LockTypeStep ==
  ASSUME StorefrontTypes, ApprovalNext
  PROVE  /\ approvalLock' \in [Actions -> Approvers \cup {NoTask, Orphan}]
         /\ faults' \in 0 .. MaxFaults
<1>1. /\ approvalLock \in [Actions -> Approvers \cup {NoTask, Orphan}]
      /\ faults \in 0 .. MaxFaults /\ MaxFaults \in Nat
  BY ApprovalAssumption DEF StorefrontTypes, StorefrontTypeOK, ApprovalTypeOK, ApprovalAssumption
<1>2. CASE \E x \in Actions : \/ \E u \in Users, a \in Activities : Prepare(x, u, a)
                             \/ ActionExpires(x) \/ ApprovalLockLapses(x)
                             \/ ApprovalOrphanExpires(x)
  BY <1>1, <1>2
  DEF Prepare, ActionExpires, ApprovalLockLapses, ApprovalOrphanExpires, SpendFault
<1>3. ASSUME NEW r \in Approvers,
             \/ TakeApprovalLock(r) \/ ReleaseApproval(r) \/ ApprovalFails(r) \/ ApproverDies(r)
      PROVE  /\ approvalLock' \in [Actions -> Approvers \cup {NoTask, Orphan}]
             /\ faults' \in 0 .. MaxFaults
  BY <1>1, <1>3
  DEF TakeApprovalLock, ReleaseApproval, ApprovalFails, ApproverDies, SpendFault
<1>4. ASSUME NEW r \in Approvers,
             \/ \E u \in Users, x \in Actions : AskApproval(r, u, x)
             \/ ApprovalBusy(r) \/ ReadAction(r) \/ ClaimForAction(r) \/ RecordStatus(r)
             \/ RecordOrder(r)
      PROVE  UNCHANGED <<approvalLock, faults>>
  BY <1>4 DEF AskApproval, ApprovalBusy, ReadAction, ClaimForAction, RecordStatus, RecordOrder
<1> QED
  BY <1>1, <1>2, <1>3, <1>4 DEF ApprovalNext

\* A request changes in a step of its own.
LEMMA OneRequestMoves ==
  ASSUME StorefrontTypes, ApprovalNext, NEW q \in Approvers, request'[q] # request[q]
  PROVE  \/ \E u \in Users, x \in Actions : AskApproval(q, u, x)
         \/ TakeApprovalLock(q) \/ ApprovalBusy(q) \/ ReadAction(q) \/ ClaimForAction(q)
         \/ RecordStatus(q) \/ RecordOrder(q) \/ ReleaseApproval(q) \/ ApprovalFails(q)
         \/ ApproverDies(q)
<1>1. ASSUME NEW r \in Approvers, r # q
      PROVE  /\ ~TakeApprovalLock(r) /\ ~ReadAction(r) /\ ~ClaimForAction(r)
             /\ ~RecordStatus(r) /\ ~RecordOrder(r) /\ ~ApprovalFails(r)
             /\ ~ApprovalBusy(r) /\ ~ReleaseApproval(r) /\ ~ApproverDies(r)
             /\ \A u \in Users, x \in Actions : ~AskApproval(r, u, x)
  BY <1>1, AskMoves, TakeLockMoves, ReadMoves, ClaimMoves, RecordMoves, FailMoves, LeaveMoves
  DEF Moves, Leaves
<1> QED
  BY <1>1
  DEF ApprovalNext, Prepare, ActionExpires, ApprovalLockLapses, ApprovalOrphanExpires

\* The hash of an action is changed by one of four commands.
LEMMA OneActionChanges ==
  ASSUME StorefrontTypes, ApprovalNext, NEW x \in Actions, action'[x] # action[x]
  PROVE  \/ \E u \in Users, a \in Activities :
              /\ Prepare(x, u, a)
              /\ action'[x] = [user |-> u, activity |-> a, status |-> "pending", order |-> 0]
         \/ ActionExpires(x) /\ action'[x] = NoAction
         \/ \E r \in Approvers :
              /\ WorksOn(r, x) /\ request[r].answer \in Answer
              /\ \/ /\ RecordStatus(r)
                    /\ action'[x] = [action[x] EXCEPT !.status = request[r].answer.status]
                 \/ /\ RecordOrder(r)
                    /\ action'[x] = [action[x] EXCEPT !.order = request[r].answer.order]
<1>1. action \in [Actions -> ActionRecord]
  BY DEF StorefrontTypes, StorefrontTypeOK, ApprovalTypeOK, ActionRecord
<1>2. ASSUME NEW r \in Approvers, RecordStatus(r) \/ RecordOrder(r)
      PROVE  request[r] # NoRequest /\ request[r].answer \in Answer
  BY <1>2 DEF RecordStatus, RecordOrder, AtApproval, StorefrontTypes, StepsTyped, Unrecorded
<1>3. CASE \E y \in Actions : \/ \E u \in Users, a \in Activities : Prepare(y, u, a)
                             \/ ActionExpires(y)
  BY <1>1, <1>3 DEF Prepare, ActionExpires
<1>4. CASE \E r \in Approvers : RecordStatus(r) \/ RecordOrder(r)
  BY <1>1, <1>2, <1>4 DEF RecordStatus, RecordOrder, WorksOn
<1> QED
  BY <1>3, <1>4
  DEF ApprovalNext, ApprovalLockLapses, ApprovalOrphanExpires, AskApproval, TakeApprovalLock,
      ApprovalBusy, ReadAction, ClaimForAction, ReleaseApproval, ApprovalFails, ApproverDies

\* The same, field by field.
LEMMA FieldsChange ==
  ASSUME StorefrontTypes, ApprovalNext, NEW x \in Actions
  PROVE  \/ action'[x] = action[x]
         \/ \E u \in Users, a \in Activities :
              /\ Prepare(x, u, a)
              /\ action'[x].user = u /\ action'[x].activity = a
              /\ action'[x].status = "pending" /\ action'[x].order = 0
         \/ ActionExpires(x) /\ action'[x] = NoAction
         \/ \E r \in Approvers :
              /\ WorksOn(r, x) /\ request[r].answer \in Answer
              /\ action'[x].user = action[x].user /\ action'[x].activity = action[x].activity
              /\ \/ /\ RecordStatus(r) /\ action'[x].order = action[x].order
                    /\ action'[x].status = request[r].answer.status
                 \/ /\ RecordOrder(r) /\ action'[x].status = action[x].status
                    /\ action'[x].order = request[r].answer.order
<1>1. CASE action'[x] = action[x]
  BY <1>1
<1>2. ASSUME NEW u \in Users, NEW a \in Activities, Prepare(x, u, a),
             action'[x] = [user |-> u, activity |-> a, status |-> "pending", order |-> 0]
      PROVE  /\ Prepare(x, u, a)
             /\ action'[x].user = u /\ action'[x].activity = a
             /\ action'[x].status = "pending" /\ action'[x].order = 0
  BY <1>2
<1>3. action[x] \in ActionRecord
  BY DEF StorefrontTypes, StorefrontTypeOK, ApprovalTypeOK, ActionRecord
<1>4. ASSUME NEW r \in Approvers, RecordStatus(r),
             action'[x] = [action[x] EXCEPT !.status = request[r].answer.status]
      PROVE  /\ RecordStatus(r)
             /\ action'[x].user = action[x].user /\ action'[x].activity = action[x].activity
             /\ action'[x].order = action[x].order
             /\ action'[x].status = request[r].answer.status
  BY <1>3, <1>4 DEF ActionRecord
<1>5. ASSUME NEW r \in Approvers, RecordOrder(r),
             action'[x] = [action[x] EXCEPT !.order = request[r].answer.order]
      PROVE  /\ RecordOrder(r)
             /\ action'[x].user = action[x].user /\ action'[x].activity = action[x].activity
             /\ action'[x].status = action[x].status
             /\ action'[x].order = request[r].answer.order
  BY <1>3, <1>5 DEF ActionRecord
<1> QED
  BY <1>1, <1>2, <1>4, <1>5, OneActionChanges

\* A hash that names a user has a status, and a request that claims an activity.
LEMMA StepsTypedStep ==
  ASSUME StorefrontTypes, ApprovalNext
  PROVE  StepsTyped'
<1>1. /\ action \in [Actions -> ActionRecord]
      /\ \A r \in Approvers : request[r] # NoRequest => request[r] \in Asked
      /\ StepsTyped
  BY DEF StorefrontTypes, StorefrontTypeOK, ApprovalTypeOK, ActionRecord
<1>2. ASSUME NEW q \in Approvers
      PROVE  /\ AtApproval(q, "claim")' => request'[q].activity \in Activities
             /\ request'[q] # NoRequest /\ request'[q].at \in Unrecorded =>
                  request'[q].answer \in Answer
  <2>1. CASE request'[q] = request[q]
    BY <1>1, <2>1 DEF StepsTyped, AtApproval
  <2>2. CASE ApprovalBusy(q) \/ ReleaseApproval(q) \/ ApproverDies(q)
    BY <2>2, LeaveMoves DEF AtApproval, Leaves
  <2>3. ASSUME NEW u \in Users, NEW x \in Actions, AskApproval(q, u, x)
        PROVE  request'[q].at = "lock"
    BY <2>3, AskMoves
  <2>4. ASSUME TakeApprovalLock(q) PROVE request'[q].at = "read"
    BY <2>4, TakeLockMoves DEF Moves
  <2>5. ASSUME ReadAction(q)
        PROVE  \/ request'[q].at = "release"
               \/ request'[q].at = "claim" /\ request'[q].activity \in Activities
    <3>1. request[q] \in Asked
      BY <1>1, <2>5 DEF ReadAction, AtApproval
    <3> QED
      BY <1>1, <2>5, <3>1, ReadMoves DEF Moves, StepsTyped, Asked
  <2>6. ASSUME ClaimForAction(q)
        PROVE  request'[q].at = "status" /\ request'[q].answer \in Answer
    BY <2>6, ClaimMoves DEF Moves
  <2>7. ASSUME RecordStatus(q) \/ RecordOrder(q)
        PROVE  request'[q].answer \in Answer /\ request'[q].at \in {"order", "release"}
    BY <1>1, <2>7, RecordMoves DEF Moves, SameAnswer, StepsTyped, Unrecorded, AtApproval
  <2>8. ASSUME ApprovalFails(q) PROVE request'[q].at = "release"
    BY <2>8, FailMoves DEF Moves
  <2> QED
    BY <2>1, <2>2, <2>3, <2>4, <2>5, <2>6, <2>7, <2>8, OneRequestMoves
    DEF AtApproval, Unrecorded
<1>3. ASSUME NEW x \in Actions, action'[x].user # Nothing
      PROVE  action'[x].status # "none" /\ action'[x].activity \in Activities
  <2>1. CASE action'[x] = action[x]
    BY <1>1, <1>3, <2>1 DEF StepsTyped
  <2>2. action'[x] # NoAction
    BY <1>3 DEF NoAction
  <2> QED
    BY <1>1, <1>3, <2>1, <2>2, FieldsChange DEF StepsTyped, Answer, ClaimOutcome
<1> QED
  BY <1>2, <1>3 DEF StepsTyped

-----------------------------------------------------------------------------
(* What the pages are sent *)

\* Only a claim adds to the stream, and its message is for the activity whose
\* stock it takes.
LEMMA ClaimsAreAnnounced ==
  ASSUME StorefrontTypes, [StorefrontNext]_storefrontVars, stream' # stream,
         NEW a, a = Last(stream').activity
  PROVE  /\ a \in Activities /\ stock'[a] = Remaining(a) /\ Remaining(a) \in Nat
         /\ \A b \in Activities : b # a => stock'[b] = stock[b]
<1>1. PICK u \in Users : \E b \in Activities : Claim(u, b)
  <2>1. [RedisNext]_redisVars
    BY RedisStays, PublishAgainKeeps
  <2> QED
    BY <2>1 DEF RedisNext, redisVars, CancelScript, CompensateScript, MarkSuccess, Unschedule,
       ExpireHash, CloseActivity
<1>2. PICK b \in Activities : Claim(u, b)
  BY <1>1
<1>3. stream \in Seq([user : Users, activity : Activities]) /\ stock \in [Activities -> Nat]
  BY DEF StorefrontTypes, StorefrontTypeOK, RedisTypeOK
<1>4. Last(stream') = [user |-> u, activity |-> b]
  <2>1. stream' = Append(stream, [user |-> u, activity |-> b])
    BY <1>2 DEF Claim
  <2>2. Len(stream') = Len(stream) + 1 /\ stream'[Len(stream) + 1] = [user |-> u, activity |-> b]
    BY <1>3, <2>1, AppendProperties
  <2> QED
    BY <2>2 DEF Last
<1>5. a = b
  BY <1>4
<1>6. stock[b] > 0 /\ stock' = [stock EXCEPT ![b] = @ - 1]
  BY <1>2, <1>3 DEF Claim, Outcome
<1> QED
  BY <1>3, <1>5, <1>6 DEF Remaining

\* A frame goes to the end of the queue, and what a page will show last is it.
LEMMA FrameQueued ==
  ASSUME NEW v \in Viewers, viewer[v] \in Page, NEW n \in Nat, viewer[v].at = "streaming",
         viewer'[v] = [viewer[v] EXCEPT !.frames = Append(@, n)]
  PROVE  /\ viewer'[v] \in Page /\ ShowsLast(v)' = n
         /\ viewer'[v].activity = viewer[v].activity /\ viewer'[v].at = "streaming"
<1>1. viewer[v].frames \in Seq(Nat)
  BY DEF Page
<1>2. viewer'[v].frames = Append(viewer[v].frames, n)
  BY DEF Page
<1>3. /\ viewer'[v].frames \in Seq(Nat) /\ viewer'[v].frames # << >>
      /\ viewer'[v].frames[Len(viewer'[v].frames)] = n
  BY <1>1, <1>2, AppendProperties
<1> QED
  BY <1>3 DEF ShowsLast, Page

\* Sending a frame changes nothing of what is shown last.
LEMMA FrameSent ==
  ASSUME NEW v \in Viewers, viewer \in [Viewers -> Page \cup {Away}], SendFrame(v)
  PROVE  /\ viewer'[v] \in Page /\ ShowsLast(v)' = ShowsLast(v)
         /\ viewer'[v].activity = viewer[v].activity /\ viewer'[v].at = "streaming"
         /\ \A w \in Viewers : w # v => viewer'[w] = viewer[w]
<1>1. viewer[v] \in Page /\ viewer[v].at = "streaming" /\ viewer[v].frames # << >>
  BY DEF SendFrame
<1>2. PICK f : f = viewer[v].frames
  OBVIOUS
<1>3. f \in Seq(Nat) /\ f # << >>
  BY <1>1, <1>2 DEF Page
<1>4. /\ viewer' = [viewer EXCEPT ![v] = [viewer[v] EXCEPT !.shown = Head(f), !.frames = Tail(f)]]
  BY <1>2 DEF SendFrame
<1>5. viewer'[v] = [viewer[v] EXCEPT !.shown = Head(f), !.frames = Tail(f)]
  BY <1>4
<1>6. /\ viewer'[v].shown = Head(f) /\ viewer'[v].frames = Tail(f)
      /\ viewer'[v].at = "streaming" /\ viewer'[v].activity = viewer[v].activity
      /\ viewer'[v] = [at |-> "streaming", activity |-> viewer[v].activity,
                       shown |-> Head(f), frames |-> Tail(f)]
  BY <1>1, <1>5 DEF Page
<1>7. /\ Head(f) \in Nat /\ Head(f) = f[1]
      /\ Tail(f) \in Seq(Nat) /\ Len(Tail(f)) = Len(f) - 1
      /\ \A i \in 1 .. Len(Tail(f)) : Tail(f)[i] = f[i + 1]
      /\ Len(f) \in Nat /\ Len(f) # 0
  BY <1>3, HeadTailProperties, LenProperties, EmptySeq
<1>8. Tail(f) = << >> <=> Len(f) = 1
  <2>1. << >> \in Seq(Nat) /\ Len(<< >>) = 0
    BY EmptySeq
  <2>2. PICK t, e : t = Tail(f) /\ e = << >>
    OBVIOUS
  <2>3. t \in Seq(Nat) /\ Len(t) = Len(f) - 1 /\ Len(f) \in Nat /\ e \in Seq(Nat) /\ Len(e) = 0
    BY <1>7, <2>1, <2>2
  <2>4. Len(t) = 0 => t = e
    BY <2>3, SeqEqual
  <2>5. t = e => Len(t) = 0
    BY <2>3
  <2> QED
    BY <2>2, <2>3, <2>4, <2>5
<1>9. IF Tail(f) = << >> THEN Head(f) = f[Len(f)] ELSE Tail(f)[Len(Tail(f))] = f[Len(f)]
  BY <1>7, <1>8
<1> QED
  BY <1>1, <1>2, <1>3, <1>4, <1>6, <1>7, <1>9 DEF ShowsLast, Page, ViewerPlaces

\* A step moves one page, or is one on the keys that every page follows.
LEMMA PageMoves ==
  ASSUME StorefrontTypes, [StorefrontNext]_storefrontVars, PagesFollow
  PROVE  viewer' \in [Viewers -> Page \cup {Away}] /\ missed' \subseteq Viewers /\ PagesFollow'
<1> USE DEF StorefrontTypes, StorefrontTypeOK, PushTypeOK
<1>1. stock \in [Activities -> Nat] /\ viewer \in [Viewers -> Page \cup {Away}]
  BY DEF RedisTypeOK
<1>2. \A v \in Viewers : viewer[v] # Away => viewer[v] \in Page
  BY <1>1
<1>3. \A p \in Page : p # Away
  BY DEF Page, Away, ViewerPlaces
<1>4. CASE PushFollows /\ stream' # stream
  <2>1. PICK a : a = Last(stream').activity
    OBVIOUS
  <2>2. /\ a \in Activities /\ stock'[a] = Remaining(a) /\ Remaining(a) \in Nat
        /\ \A b \in Activities : b # a => stock'[b] = stock[b]
    BY <1>4, <2>1, ClaimsAreAnnounced
  <2>3. Broadcast(a)
    BY <1>4, <2>1 DEF PushFollows
  <2>4. /\ \A v \in Viewers : viewer'[v] = IF Watches(v, a) /\ Subscribed(v)
                                           THEN [viewer[v] EXCEPT !.frames = Append(@, Remaining(a))]
                                           ELSE viewer[v]
        /\ DOMAIN viewer' = Viewers /\ viewer' = [v \in Viewers |-> viewer'[v]]
        /\ missed' = (missed \cup {v \in Viewers : Watches(v, a)})
                        \ {v \in Viewers : Watches(v, a) /\ Subscribed(v)}
    BY <2>3 DEF Broadcast
  <2>5. ASSUME NEW v \in Viewers
        PROVE  /\ viewer'[v] \in Page \cup {Away}
               /\ viewer'[v] # Away =>
                    /\ viewer'[v].at = "loaded" => viewer'[v].frames = << >>
                    /\ v \notin missed' => ShowsLast(v)' = stock'[viewer'[v].activity]
    <3>1. CASE Watches(v, a) /\ Subscribed(v)
      <4>1. viewer[v] \in Page /\ viewer[v].at = "streaming" /\ viewer[v].activity = a
        BY <1>2, <3>1 DEF Watches, Subscribed
      <4> QED
        BY <2>2, <2>4, <3>1, <4>1, FrameQueued
    <3>2. CASE ~(Watches(v, a) /\ Subscribed(v))
      <4>1. viewer'[v] = viewer[v]
        BY <2>4, <3>2
      <4>2. CASE Watches(v, a)
        BY <1>1, <2>4, <3>2, <4>1, <4>2 DEF PagesFollow, ShowsLast
      <4>3. CASE ~Watches(v, a)
        <5>1. v \notin missed' => v \notin missed
          <6>1. missed' = (missed \cup {w \in Viewers : Watches(w, a)})
                            \ {w \in Viewers : Watches(w, a) /\ Subscribed(w)}
            BY <2>4
          <6> QED
            BY <4>3, <6>1
        <5>2. viewer[v] # Away => viewer[v].activity \in Activities /\ viewer[v].activity # a
          BY <1>2, <4>3 DEF Watches, Page
        <5>3. ShowsLast(v)' = ShowsLast(v)
          BY <4>1 DEF ShowsLast
        <5> QED
          BY <1>1, <2>2, <4>1, <5>1, <5>2, <5>3 DEF PagesFollow
      <4> QED
        BY <4>2, <4>3
    <3> QED
      BY <3>1, <3>2
  <2> QED
    BY <2>4, <2>5 DEF PagesFollow
<1>5. CASE PushFollows /\ stream' = stream
  <2>1. Unannounced
    BY <1>5 DEF PushFollows, Broadcast
  <2>2. ASSUME NEW v \in Viewers, viewer[v] # Away, v \notin missed'
        PROVE  ShowsLast(v)' = stock'[viewer'[v].activity]
    BY <1>2, <2>1, <2>2 DEF Unannounced, Watches, PagesFollow, ShowsLast, Page
  <2> QED
    BY <1>1, <2>1, <2>2 DEF Unannounced, PagesFollow
<1>6. ASSUME NEW v \in Viewers, ViewerStep(v), UNCHANGED redisVars
      PROVE  viewer' \in [Viewers -> Page \cup {Away}] /\ missed' \subseteq Viewers /\ PagesFollow'
  <2>1. UNCHANGED stock
    BY <1>6 DEF redisVars
  <2>2. ASSUME NEW a \in Activities, LoadStock(v, a)
        PROVE  viewer' \in [Viewers -> Page \cup {Away}] /\ missed' \subseteq Viewers /\ PagesFollow'
    <3>1. /\ viewer'[v] = [at |-> "loaded", activity |-> a, shown |-> stock[a], frames |-> << >>]
          /\ \A w \in Viewers : w # v => viewer'[w] = viewer[w]
          /\ missed' = missed \ {v}
      BY <1>1, <2>2 DEF LoadStock
    <3>2. viewer'[v] \in Page
      BY <1>1, <3>1, EmptySeq DEF Page, ViewerPlaces
    <3>3. viewer' \in [Viewers -> Page \cup {Away}]
      BY <1>1, <2>2, <3>1, <3>2 DEF LoadStock
    <3> QED
      BY <2>1, <3>1, <3>3 DEF PagesFollow, ShowsLast
  <2>3. CASE SubscribeToStock(v)
    <3>1. /\ viewer[v] \in Page
          /\ viewer'[v] = [viewer[v] EXCEPT !.at = "streaming"]
          /\ \A w \in Viewers : w # v => viewer'[w] = viewer[w]
          /\ missed' = missed
      BY <1>1, <2>3 DEF SubscribeToStock
    <3>2. /\ viewer'[v] \in Page /\ viewer'[v].at = "streaming"
          /\ viewer'[v].frames = viewer[v].frames /\ viewer'[v].shown = viewer[v].shown
          /\ viewer'[v].activity = viewer[v].activity
      BY <3>1 DEF Page, ViewerPlaces
    <3>3. viewer' \in [Viewers -> Page \cup {Away}]
      BY <1>1, <2>3, <3>1, <3>2 DEF SubscribeToStock
    <3>4. viewer[v] # Away
      BY <1>3, <3>1
    <3>5. ShowsLast(v)' = ShowsLast(v)
      BY <3>2 DEF ShowsLast
    <3>6. \A w \in Viewers : w # v => ShowsLast(w)' = ShowsLast(w)
      BY <3>1 DEF ShowsLast
    <3> QED
      BY <2>1, <3>1, <3>2, <3>3, <3>4, <3>5, <3>6 DEF PagesFollow
  <2>4. CASE SendFrame(v)
    <3>1. viewer' \in [Viewers -> Page \cup {Away}]
      BY <1>1, <2>4, FrameSent DEF SendFrame
    <3>2. missed' = missed /\ viewer[v] # Away
      BY <2>4 DEF SendFrame
    <3> QED
      BY <1>1, <2>1, <2>4, <3>1, <3>2, FrameSent DEF PagesFollow, ShowsLast
  <2>5. CASE Leave(v)
    <3>1. /\ viewer' \in [Viewers -> Page \cup {Away}] /\ viewer'[v] = Away
          /\ \A w \in Viewers : w # v => viewer'[w] = viewer[w]
          /\ missed' = missed \ {v}
      BY <1>1, <2>5 DEF Leave
    <3> QED
      BY <2>1, <3>1 DEF PagesFollow, ShowsLast
  <2> QED
    BY <1>6, <2>2, <2>3, <2>4, <2>5 DEF ViewerStep
<1>7. CASE UNCHANGED storefrontVars
  BY <1>1, <1>7 DEF storefrontVars, pushVars, redisVars, PagesFollow, ShowsLast
<1> QED
  BY <1>4, <1>5, <1>6, <1>7 DEF StorefrontNext

\* Only a publication shares anything with the approvals: the bound on faults.
LEMMA ApprovalOrNot ==
  ASSUME [StorefrontNext]_storefrontVars
  PROVE  ApprovalNext \/ UNCHANGED actionVars
BY DEF StorefrontNext, storefrontVars, approvalVars, OtherSteps, PublishAgain, ReplaceStock,
   ClearClaims, StopPublishing

LEMMA FaultsTyped ==
  ASSUME StorefrontTypes, [StorefrontNext]_storefrontVars
  PROVE  faults' \in 0 .. MaxFaults
<1>1. faults \in 0 .. MaxFaults /\ MaxFaults \in Nat
  BY ApprovalAssumption DEF StorefrontTypes, StorefrontTypeOK, ApprovalTypeOK, ApprovalAssumption
<1>2. CASE ApprovalNext
  BY <1>2, LockTypeStep
<1>3. ASSUME NEW p \in Publishers, NEW a \in Activities, ReplaceStock(p, a)
      PROVE  faults' \in 0 .. MaxFaults
  BY <1>1, <1>3 DEF ReplaceStock, SpendFault
<1>4. CASE UNCHANGED approvalVars
  BY <1>1, <1>4 DEF approvalVars
<1> QED
  BY <1>2, <1>3, <1>4
  DEF StorefrontNext, storefrontVars, OtherSteps, PublishAgain, ClearClaims, StopPublishing

LEMMA StorefrontTypesStep ==
  ASSUME StorefrontTypes, PagesFollow, [StorefrontNext]_storefrontVars
  PROVE  StorefrontTypes'
<1>1. /\ RedisTypeOK'
      /\ clearing' \in [Publishers -> Activities \cup {Nothing}]
  <2>1. CASE PublishAgain
    BY <2>1, PublishAgainKeeps
  <2>2. CASE UNCHANGED clearing
    BY <2>2, RedisKept DEF StorefrontTypes, StorefrontTypeOK
  <2> QED
    BY <2>1, <2>2, RedisKept DEF StorefrontNext, OtherSteps, storefrontVars
<1>2. /\ viewer' \in [Viewers -> Page \cup {Away}] /\ missed' \subseteq Viewers
  BY PageMoves
<1>3. PushTypeOK'
  BY <1>2 DEF PushTypeOK, Page
<1>4. CASE ApprovalNext
  <2>1. /\ action' \in [Actions -> ActionRecord] /\ StepsTyped'
        /\ request' \in [Approvers -> Asked \cup {NoRequest}]
    BY <1>4, ActionStep, RequestTypes, StepsTypedStep
  <2>2. ApprovalTypeOK'
    BY <1>4, <2>1, HistoryStep, LockTypeStep DEF ApprovalTypeOK, ActionRecord, Asked
  <2> QED
    BY <1>1, <1>2, <1>3, <1>4, <2>1, <2>2, HistoryStep DEF StorefrontTypes, StorefrontTypeOK
<1>5. CASE UNCHANGED actionVars
  <2>1. ApprovalTypeOK' /\ StepsTyped'
    BY <1>5, FaultsTyped DEF StorefrontTypes, StorefrontTypeOK, ApprovalTypeOK, actionVars, StepsTyped,
       AtApproval
  <2> QED
    BY <1>1, <1>2, <1>3, <1>5, <2>1 DEF StorefrontTypes, StorefrontTypeOK, actionVars
<1> QED
  BY <1>4, <1>5, ApprovalOrNot

LEMMA StorefrontTypesInit ==
  ASSUME StorefrontInit
  PROVE  StorefrontTypes /\ PagesFollow
<1>1. RedisTypeOK /\ stream = << >>
  BY RedisInitType DEF StorefrontInit, RedisInit
<1>2. viewer \in [Viewers -> Page \cup {Away}] /\ PushTypeOK /\ PagesFollow
  BY DEF StorefrontInit, PushInit, PushTypeOK, PagesFollow
<1>3. /\ \A x \in Actions : action[x] = NoAction
      /\ \A r \in Approvers : request[r] = NoRequest
  BY DEF StorefrontInit, ApprovalInit
<1>4. action \in [Actions -> ActionRecord]
  BY BaseAssumption DEF StorefrontInit, ApprovalInit, NoAction, ActionRecord, BaseAssumption
<1>5. ApprovalTypeOK
  BY <1>3, <1>4, ApprovalAssumption
  DEF StorefrontInit, ApprovalInit, ApprovalTypeOK, ActionRecord, ApprovalAssumption
<1>6. StepsTyped
  BY <1>3 DEF StepsTyped, AtApproval, NoAction
<1> QED
  BY <1>1, <1>2, <1>3, <1>5, <1>6 DEF StorefrontInit, ApprovalInit, StorefrontTypes,
     StorefrontTypeOK

LEMMA StorefrontAlways == StorefrontSpec => [](StorefrontTypes /\ PagesFollow)
BY StorefrontTypesInit, StorefrontTypesStep, PageMoves, PTL DEF StorefrontSpec

\* Keys, hashes, requests, answers and frames keep their types: every status a
\* hash records and every answer is one of the claim's outcomes, and no page
\* is sent a number below zero (quota_agent.py 111-131, activities.py 80-105).
THEOREM StorefrontTypeCorrect == StorefrontSpec => []StorefrontTypeOK
BY StorefrontAlways, PTL DEF StorefrontTypes

\* For any number of activities, pages, claims and publications during the sale,
\* a page that has shown all its frames shows the stock, unless a change went
\* past it since: a release or a publication's SET, which nobody announces, or a
\* claim before it was subscribed (activities.py 80-105, seckill.lua 70,
\* seckill.py 83, cancel.lua 27).
THEOREM PagesEndRight == StorefrontSpec => []ShownIsCurrent
<1>1. PagesFollow => ShownIsCurrent
  BY DEF PagesFollow, ShownIsCurrent, ShowsLast
<1> QED
  BY <1>1, StorefrontAlways, PTL

-----------------------------------------------------------------------------
(* Who an order was approved by *)

\* Where a request that moves has come from.
LEMMA Arrivals ==
  ASSUME StorefrontTypes, ApprovalNext, NEW q \in Approvers,
         request'[q] # request[q], request'[q] # NoRequest
  PROVE  \/ /\ request'[q].at = "lock" /\ request'[q].answer = NoAnswer
            /\ \E u \in Users, x \in Actions :
                 AskApproval(q, u, x) /\ request'[q].action = x /\ prepared[x] # NotPrepared
         \/ request'[q].at = "read" /\ TakeApprovalLock(q)
         \/ request'[q].at = "claim" /\ ReadAction(q)
         \/ request'[q].at = "status" /\ ClaimForAction(q)
         \/ request'[q].at = "order" /\ RecordStatus(q) /\ request[q].answer.order # 0
         \/ /\ request'[q].at = "release"
            /\ \/ ReadAction(q) \/ RecordOrder(q) \/ ApprovalFails(q)
               \/ RecordStatus(q) /\ request[q].answer.order = 0
<1>1. ASSUME ApprovalBusy(q) \/ ReleaseApproval(q) \/ ApproverDies(q) PROVE FALSE
  BY <1>1, LeaveMoves DEF Leaves
<1>2. ASSUME NEW u \in Users, NEW x \in Actions, AskApproval(q, u, x)
      PROVE  /\ request'[q].at = "lock" /\ request'[q].answer = NoAnswer
             /\ request'[q].action = x /\ prepared[x] # NotPrepared
  BY <1>2, AskMoves
<1>3. /\ TakeApprovalLock(q) => request'[q].at = "read"
      /\ ReadAction(q) => request'[q].at \in {"claim", "release"}
      /\ ClaimForAction(q) => request'[q].at = "status"
      /\ RecordStatus(q) => request'[q].at = IF request[q].answer.order # 0 THEN "order" ELSE "release"
      /\ RecordOrder(q) => request'[q].at = "release"
      /\ ApprovalFails(q) => request'[q].at = "release"
  BY TakeLockMoves, ReadMoves, ClaimMoves, RecordMoves, FailMoves DEF Moves
<1> QED
  BY <1>1, <1>2, <1>3, OneRequestMoves

LEMMA PreparedOnce ==
  ASSUME StorefrontTypes, ApprovalNext, NEW x \in Actions, prepared[x] # NotPrepared
  PROVE  prepared'[x] = prepared[x]
<1>1. CASE \E y \in Actions, u \in Users, a \in Activities : Prepare(y, u, a)
  BY <1>1 DEF Prepare, StorefrontTypes
<1>2. CASE UNCHANGED prepared
  BY <1>2
<1> QED
  BY <1>1, <1>2
  DEF ApprovalNext, ActionExpires, ApprovalLockLapses, ApprovalOrphanExpires, AskApproval,
      TakeApprovalLock, ApprovalBusy, ReadAction, ClaimForAction, RecordStatus, RecordOrder,
      ReleaseApproval, ApprovalFails, ApproverDies

\* An order gets its action in the step that creates it.
LEMMA OriginGiven ==
  ASSUME StorefrontTypes, ApprovalNext, NEW o \in Orders, origin'[o] # origin[o]
  PROVE  \E r \in Approvers :
           /\ ClaimForAction(r) /\ origin'[o] = request[r].action
           /\ o \notin Accepted /\ o \in Accepted'
           /\ UserOf(o)' = request[r].user /\ ActivityOf(o)' = request[r].activity
           /\ request'[r].answer.order = o /\ o = Len(stream) + 1
           /\ Claim(request[r].user, request[r].activity)
<1>1. PICK r \in Approvers : ClaimForAction(r)
  BY DEF ApprovalNext, Prepare, ActionExpires, ApprovalLockLapses, ApprovalOrphanExpires,
     AskApproval, TakeApprovalLock, ApprovalBusy, ReadAction, RecordStatus, RecordOrder,
     ReleaseApproval, ApprovalFails, ApproverDies
<1>2. request[r] \in Asked /\ request[r].activity \in Activities
  BY <1>1 DEF ClaimForAction, AtApproval, StorefrontTypes, StepsTyped
<1>3. PICK u \in Users, a \in Activities : u = request[r].user /\ a = request[r].activity
  BY <1>2 DEF Asked
<1>4. /\ Outcome(u, a) = "accepted" /\ Claim(u, a)
      /\ origin' = [origin EXCEPT ![Len(stream) + 1] = request[r].action]
  BY <1>1, <1>3 DEF ClaimForAction
<1>5. o = Len(stream) + 1 /\ origin'[o] = request[r].action
  BY <1>4 DEF StorefrontTypes
<1>6. /\ o \notin Accepted /\ Accepted' = Accepted \cup {o}
      /\ stream'[o] = [user |-> u, activity |-> a]
  BY <1>4, <1>5, NewOrder DEF StorefrontTypes, StorefrontTypeOK
<1>7. request'[r].answer.order = o
  <2>1. request'[r].answer = [status |-> Outcome(u, a), order |-> OrderNumber(Outcome(u, a))]
    BY <1>1, <1>3, ClaimMoves
  <2>2. request'[r].answer.order = OrderNumber(Outcome(u, a))
    BY <2>1
  <2> QED
    BY <1>4, <1>5, <2>2 DEF OrderNumber
<1> QED
  BY <1>1, <1>3, <1>4, <1>5, <1>6, <1>7 DEF UserOf, ActivityOf

LEMMA NothingPreparedYet ==
  ASSUME NEW u \in Users, NEW a
  PROVE  [user |-> u, activity |-> a] # NotPrepared
BY ApprovalAssumption DEF ApprovalAssumption, NotPrepared

LEMMA AcceptedAreOrders == RedisTypeOK => Accepted \subseteq Orders
BY OrderFields

LEMMA PreparedStep ==
  ASSUME StorefrontTypes, PreparedFor, ApprovedByOwner, [StorefrontNext]_storefrontVars
  PROVE  PreparedFor' /\ ApprovedByOwner'
<1>1. /\ Accepted \subseteq Accepted'
      /\ \A o \in Accepted : UserOf(o)' = UserOf(o) /\ ActivityOf(o)' = ActivityOf(o)
      /\ \A o \in Accepted : o \in Orders /\ UserOf(o) \in Users
      /\ RedisTypeOK' /\ Accepted' \subseteq Orders
  <2>1. RedisTypeOK'
    BY RedisKept
  <2>2. (RedisTypeOK => Accepted \subseteq Orders)'
    BY AcceptedAreOrders, PTL
  <2> QED
    BY <2>1, <2>2, OrderFields, RedisKept DEF StorefrontTypes, StorefrontTypeOK
<1>2. CASE UNCHANGED actionVars
  BY <1>1, <1>2 DEF actionVars, PreparedFor, ApprovedByOwner, AtApproval
<1>3. CASE ApprovalNext
  <2>1. ASSUME NEW x \in Actions, NEW u \in Users, NEW a,
               prepared[x] = [user |-> u, activity |-> a]
        PROVE  prepared'[x] = prepared[x]
    BY <1>3, <2>1, NothingPreparedYet, PreparedOnce
  <2>2. ASSUME NEW x \in Actions, action'[x].user # Nothing
        PROVE  prepared'[x] = [user |-> action'[x].user, activity |-> action'[x].activity]
    <3>1. action[x] \in ActionRecord /\ action'[x] # NoAction
      BY <2>2 DEF StorefrontTypes, StorefrontTypeOK, ApprovalTypeOK, ActionRecord, NoAction
    <3>2. CASE action'[x].user = action[x].user /\ action'[x].activity = action[x].activity
      BY <2>1, <2>2, <3>1, <3>2 DEF PreparedFor, ActionRecord
    <3>3. ASSUME NEW u \in Users, NEW a \in Activities, Prepare(x, u, a)
          PROVE  prepared'[x] = [user |-> u, activity |-> a]
      BY <3>3 DEF Prepare, StorefrontTypes
    <3> QED
      BY <1>3, <3>1, <3>2, <3>3, FieldsChange
  <2>3. ASSUME NEW q \in Approvers, AtApproval(q, "claim")'
        PROVE  prepared'[request'[q].action] =
                 [user |-> request'[q].user, activity |-> request'[q].activity]
    <3>1. CASE request'[q] = request[q]
      BY <2>1, <2>3, <3>1 DEF PreparedFor, AtApproval, StorefrontTypes, Asked
    <3>2. CASE request'[q] # request[q]
      <4>1. ReadAction(q)
        BY <1>3, <2>3, <3>2, Arrivals DEF AtApproval
      <4>2. /\ request[q] \in Asked /\ request'[q].user = request[q].user
            /\ request'[q].action = request[q].action
            /\ action[request[q].action].user = request[q].user
            /\ action[request[q].action].user # Nothing
            /\ request'[q].activity = action[request[q].action].activity
        BY <1>3, <2>3, <4>1, ReadMoves DEF Moves, AtApproval
      <4> QED
        BY <2>1, <4>2 DEF PreparedFor, Asked
    <3> QED
      BY <3>1, <3>2
  <2>4. ASSUME NEW o \in Orders, o \notin Accepted' PROVE origin'[o] = Nothing
    BY <1>1, <1>3, <2>4, OriginGiven DEF PreparedFor
  <2>5. ASSUME NEW o \in Accepted', origin'[o] # Nothing
        PROVE  prepared'[origin'[o]] = [user |-> UserOf(o)', activity |-> ActivityOf(o)']
    <3>1. CASE origin'[o] = origin[o]
      <4>1. o \in Accepted /\ origin[o] \in Actions
        BY <1>1, <2>5, <3>1 DEF PreparedFor, StorefrontTypes
      <4> QED
        BY <1>1, <2>1, <2>5, <3>1, <4>1 DEF ApprovedByOwner
    <3>2. CASE origin'[o] # origin[o]
      <4>1. PICK r \in Approvers : /\ ClaimForAction(r) /\ origin'[o] = request[r].action
                                   /\ UserOf(o)' = request[r].user
                                   /\ ActivityOf(o)' = request[r].activity
        BY <1>1, <1>3, <3>2, OriginGiven
      <4> QED
        BY <4>1 DEF ClaimForAction, PreparedFor
    <3> QED
      BY <3>1, <3>2
  <2>6. ASSUME NEW q \in Approvers, request'[q] # NoRequest
        PROVE  prepared'[request'[q].action] # NotPrepared
    <3>1. ASSUME request[q] \in Asked, request'[q].action = request[q].action
          PROVE  prepared'[request'[q].action] # NotPrepared
      <4>1. request[q] # NoRequest /\ request[q].action \in Actions
        BY <3>1, RecordsDiffer DEF Asked
      <4> QED
        BY <1>3, <3>1, <4>1, PreparedOnce DEF PreparedFor
    <3>2. CASE request'[q] = request[q]
      BY <2>6, <3>1, <3>2 DEF StorefrontTypes
    <3>3. CASE /\ request'[q] # request[q]
               /\ \/ TakeApprovalLock(q) \/ ReadAction(q) \/ ClaimForAction(q)
                  \/ RecordStatus(q) \/ RecordOrder(q) \/ ApprovalFails(q)
      BY <1>3, <3>1, <3>3, TakeLockMoves, ReadMoves, ClaimMoves, RecordMoves, FailMoves DEF Moves
    <3>4. ASSUME NEW u \in Users, NEW x \in Actions, AskApproval(q, u, x)
          PROVE  prepared'[request'[q].action] # NotPrepared
      BY <1>3, <3>4, AskMoves, PreparedOnce
    <3> QED
      BY <1>3, <2>6, <3>2, <3>3, <3>4, Arrivals
  <2> QED
    BY <2>2, <2>3, <2>4, <2>5, <2>6 DEF PreparedFor, ApprovedByOwner
<1> QED
  BY <1>2, <1>3, ApprovalOrNot

LEMMA PreparedInit ==
  ASSUME StorefrontInit
  PROVE  PreparedFor /\ ApprovedByOwner
<1>1. Accepted = {}
  BY DEF StorefrontInit, RedisInit, Accepted
<1> QED
  BY <1>1 DEF StorefrontInit, ApprovalInit, PreparedFor, ApprovedByOwner, AtApproval, NoAction

\* Whatever fails, lapses or overlaps, an order that came from a prepared action
\* is the claim of the user it was prepared for, of that activity: nobody else's
\* approval turns into an order (quota_agent.py 103-112).
THEOREM OrdersAreApproved == StorefrontSpec => []ApprovedByOwner
BY StorefrontTypesInit, StorefrontTypesStep, PageMoves, PreparedInit, PreparedStep, PTL
DEF StorefrontSpec

-----------------------------------------------------------------------------
(* Which order an answer names *)

LEMMA OriginKept ==
  ASSUME StorefrontTypes, PreparedFor, ApprovalNext, NEW o \in Orders, origin[o] # Nothing
  PROVE  origin'[o] = origin[o]
BY OriginGiven DEF PreparedFor

\* An answer leaves with the release of a lock that is still held.
LEMMA AnswerGiven ==
  ASSUME StorefrontTypes, ApprovalNext, NEW x \in Actions, NEW p \in answers'[x],
         p \notin answers[x]
  PROVE  \E r \in Approvers : /\ WorksOn(r, x) /\ request[r].answer = p /\ p \in Answer
                              /\ ReleaseApproval(r) /\ approvalLock[x] = r
<1>1. PICK r \in Approvers : ReleaseApproval(r)
  BY DEF ApprovalNext, Prepare, ActionExpires, ApprovalLockLapses, ApprovalOrphanExpires,
     AskApproval, TakeApprovalLock, ApprovalBusy, ReadAction, ClaimForAction, RecordStatus,
     RecordOrder, ApprovalFails, ApproverDies
<1>2. /\ request[r] # NoRequest /\ approvalLock[request[r].action] = r
      /\ answers' = [answers EXCEPT ![request[r].action] = @ \cup ({request[r].answer} \cap Answer)]
  BY <1>1 DEF ReleaseApproval, AtApproval
<1>3. x = request[r].action /\ p = request[r].answer /\ p \in Answer
  BY <1>2 DEF StorefrontTypes, StorefrontTypeOK, ApprovalTypeOK
<1> QED
  BY <1>1, <1>2, <1>3 DEF WorksOn

LEMMA NamedStep ==
  ASSUME StorefrontTypes, PreparedFor, NamedInHand, [StorefrontNext]_storefrontVars
  PROVE  NamedInHand'
<1>1. CASE UNCHANGED actionVars
  BY <1>1 DEF actionVars, NamedInHand, NamedOrderIsTheActions
<1>2. CASE ApprovalNext
  <2>1. /\ Nothing \notin Actions
        /\ \A x \in Actions : action[x] \in ActionRecord
        /\ \A r \in Approvers : request[r] # NoRequest => request[r] \in Asked
    BY ApprovalAssumption
    DEF ApprovalAssumption, StorefrontTypes, StorefrontTypeOK, ApprovalTypeOK, ActionRecord
  <2>2. \A n \in Orders : origin[n] \in Actions => origin'[n] = origin[n]
    BY <1>2, <2>1, OriginKept
  <2>3. \A n \in 0 .. MaxOrders : n # 0 => n \in Orders
    BY BaseAssumption DEF BaseAssumption, Orders
  <2>4. ASSUME NEW q \in Approvers, request[q] # NoRequest, request[q].answer.order # 0
        PROVE  /\ request[q].answer.order \in Orders /\ request[q].action \in Actions
               /\ origin'[request[q].answer.order] = request[q].action
    <3>1. request[q].answer.order \in 0 .. MaxOrders /\ request[q].action \in Actions
      BY <2>1, <2>4 DEF Asked, Answer, NotFound, NoAnswer
    <3> QED
      BY <2>2, <2>3, <2>4, <3>1 DEF NamedInHand
  <2>5. ASSUME NEW x \in Actions, action[x].order # 0
        PROVE  origin'[action[x].order] = x
    BY <2>1, <2>2, <2>3, <2>5 DEF NamedInHand, NamedOrderIsTheActions, ActionRecord
  <2>6. ASSUME NEW x \in Actions, action'[x].order # 0
        PROVE  origin'[action'[x].order] = x
    <3>1. action'[x] # NoAction
      BY <2>6 DEF NoAction
    <3>2. \/ action'[x].order = action[x].order
          \/ \E r \in Approvers : WorksOn(r, x) /\ action'[x].order = request[r].answer.order
      BY <1>2, <2>6, <3>1, FieldsChange
    <3> QED
      BY <2>4, <2>5, <2>6, <3>2 DEF WorksOn
  <2>7. ASSUME NEW x \in Actions, NEW p \in answers'[x], p.order # 0
        PROVE  origin'[p.order] = x
    <3>1. CASE p \in answers[x]
      <4>1. p \in Answer
        BY <3>1 DEF StorefrontTypes, StorefrontTypeOK, ApprovalTypeOK
      <4> QED
        BY <2>2, <2>3, <2>7, <3>1, <4>1 DEF NamedInHand, NamedOrderIsTheActions, Answer
    <3>2. CASE p \notin answers[x]
      BY <1>2, <2>4, <2>7, <3>2, AnswerGiven DEF WorksOn
    <3> QED
      BY <3>1, <3>2
  <2>8. ASSUME NEW q \in Approvers, request'[q] # NoRequest, request'[q].answer.order # 0
        PROVE  origin'[request'[q].answer.order] = request'[q].action
    <3>1. CASE request'[q] = request[q]
      BY <2>4, <2>8, <3>1
    <3>2. ASSUME request'[q].answer = request[q].answer, request'[q].action = request[q].action,
                 request[q] \in Asked
          PROVE  origin'[request'[q].answer.order] = request'[q].action
      <4>1. request[q] # NoRequest
        BY <3>2, RecordsDiffer
      <4> QED
        BY <2>4, <2>8, <3>2, <4>1
    <3>3. CASE TakeApprovalLock(q) \/ RecordStatus(q) \/ RecordOrder(q)
      BY <1>2, <3>2, <3>3, TakeLockMoves, RecordMoves DEF Moves, SameAnswer
    <3>4. CASE ReadAction(q)
      <4>1. PICK x \in Actions : x = request[q].action
        BY <2>1, <3>4 DEF ReadAction, AtApproval, Asked
      <4>2. request[q] \in Asked /\ request'[q].action = x
        BY <1>2, <3>4, <4>1, ReadMoves DEF Moves
      <4>3. \/ request'[q].answer = NotFound
            \/ request'[q].answer = [status |-> action[x].status, order |-> action[x].order]
            \/ request'[q].answer = request[q].answer
        BY <1>2, <3>4, <4>1, ReadMoves
      <4>4. CASE request'[q].answer = [status |-> action[x].status, order |-> action[x].order]
        <5>1. request'[q].answer.order = action[x].order
          BY <4>4
        <5> QED
          BY <2>5, <2>8, <4>2, <5>1
      <4> QED
        BY <2>8, <3>2, <4>1, <4>2, <4>3, <4>4 DEF NotFound
    <3>5. CASE ClaimForAction(q)
      <4>1. PICK n : n = Len(stream) + 1
        OBVIOUS
      <4>2. PICK outcome : outcome = Outcome(request[q].user, request[q].activity)
        OBVIOUS
      <4>3. /\ request'[q].answer = [status |-> outcome, order |-> OrderNumber(outcome)]
            /\ request'[q].action = request[q].action /\ request[q].action \in Actions
        BY <1>2, <3>5, <4>2, ClaimMoves DEF Moves, Asked
      <4>4. request'[q].answer.order = OrderNumber(outcome)
        BY <4>3
      <4>5. outcome = "accepted" /\ request'[q].answer.order = n
        BY <2>8, <4>1, <4>4 DEF OrderNumber
      <4>6. n \in Orders /\ origin' = [origin EXCEPT ![n] = request[q].action]
        <5>1. Len(stream) \in Nat /\ Len(stream) < MaxOrders
          BY <3>5, <4>2, <4>5
          DEF ClaimForAction, Claim, StorefrontTypes, StorefrontTypeOK, RedisTypeOK
        <5> QED
          BY <3>5, <4>1, <4>2, <4>5, <5>1, BaseAssumption
          DEF ClaimForAction, Orders, BaseAssumption
      <4> QED
        BY <4>3, <4>5, <4>6 DEF StorefrontTypes
    <3>6. request'[q].answer # NoAnswer
      BY <2>8 DEF NoAnswer
    <3> QED
      BY <1>2, <2>8, <3>1, <3>3, <3>4, <3>5, <3>6, Arrivals, FailMoves
  <2> QED
    BY <2>6, <2>7, <2>8 DEF NamedInHand, NamedOrderIsTheActions
<1> QED
  BY <1>1, <1>2, ApprovalOrNot

LEMMA NamedInit ==
  ASSUME StorefrontInit
  PROVE  NamedInHand
BY DEF StorefrontInit, ApprovalInit, NamedInHand, NamedOrderIsTheActions, NoAction

\* What holds whatever fails.
Approved == StorefrontTypes /\ PagesFollow /\ PreparedFor /\ ApprovedByOwner /\ NamedInHand

LEMMA ApprovedAlways == StorefrontSpec => []Approved
BY StorefrontTypesInit, StorefrontTypesStep, PageMoves, PreparedInit, PreparedStep, NamedInit,
   NamedStep, PTL DEF StorefrontSpec, Approved

\* An order that a hash or an answer names was claimed for that action, also
\* when requests overlap because the lock has lapsed (quota_agent.py 111-131).
THEOREM NamedOrdersBelong == StorefrontSpec => []NamedOrderIsTheActions
BY ApprovedAlways, PTL DEF Approved, NamedInHand

-----------------------------------------------------------------------------
(* What the lock gives an action that no fault has hit *)

Undisturbed == LockKept /\ NothingBeforeClaim /\ OneOutcome /\ HalfRecorded

LEMMA FaultsStay ==
  ASSUME ApprovalNext
  PROVE  disturbed \subseteq disturbed'
BY DEF ApprovalNext, Prepare, ActionExpires, ApprovalLockLapses, ApprovalOrphanExpires,
   AskApproval, TakeApprovalLock, ApprovalBusy, ReadAction, ClaimForAction, RecordStatus,
   RecordOrder, ReleaseApproval, ApprovalFails, ApproverDies, Disturb

\* A lock is lost by its holder's release or death, or by a fault.
LEMMA LockMoves ==
  ASSUME StorefrontTypes, ApprovalNext, NEW x \in Actions, NEW r \in Approvers,
         approvalLock[x] = r, approvalLock'[x] # r
  PROVE  ReleaseApproval(r) \/ ApproverDies(r) \/ x \in disturbed'
<1>1. approvalLock \in [Actions -> Approvers \cup {NoTask, Orphan}] /\ r \notin {NoTask, Orphan}
  BY ApprovalAssumption
  DEF ApprovalAssumption, StorefrontTypes, StorefrontTypeOK, ApprovalTypeOK
<1>2. ASSUME NEW q \in Approvers, TakeApprovalLock(q) PROVE FALSE
  BY <1>1, <1>2 DEF TakeApprovalLock
<1>3. ASSUME NEW q \in Approvers, ReleaseApproval(q) \/ ApproverDies(q) PROVE q = r
  BY <1>1, <1>3 DEF ReleaseApproval, ApproverDies
<1>4. ASSUME NEW y \in Actions, ApprovalLockLapses(y) PROVE x \in disturbed'
  BY <1>1, <1>4 DEF ApprovalLockLapses
<1>5. ASSUME NEW y \in Actions, ApprovalOrphanExpires(y) PROVE FALSE
  BY <1>1, <1>5 DEF ApprovalOrphanExpires
<1> QED
  BY <1>2, <1>3, <1>4, <1>5
  DEF ApprovalNext, Prepare, ActionExpires, AskApproval, ApprovalBusy, ReadAction,
      ClaimForAction, RecordStatus, RecordOrder, ApprovalFails

LEMMA LockKeptStep ==
  ASSUME StorefrontTypes, LockKept, ApprovalNext
  PROVE  LockKept'
<1> SUFFICES ASSUME NEW r \in Approvers, request'[r] # NoRequest, request'[r].at # "lock",
                    request'[r].action \notin disturbed'
             PROVE  approvalLock'[request'[r].action] = r
  BY DEF LockKept
<1>1. ASSUME request[r] \in Asked, request[r].at # "lock",
             request'[r].action = request[r].action
      PROVE  approvalLock'[request'[r].action] = r
  <2>1. request[r] # NoRequest /\ request[r].action \in Actions
    BY <1>1, RecordsDiffer DEF Asked
  <2>2. approvalLock[request[r].action] = r
    BY <1>1, <2>1, FaultsStay DEF LockKept
  <2>3. ~ReleaseApproval(r) /\ ~ApproverDies(r)
    BY LeaveMoves DEF Leaves
  <2> QED
    BY <1>1, <2>1, <2>2, <2>3, LockMoves
<1>2. CASE request'[r] = request[r]
  BY <1>1, <1>2 DEF StorefrontTypes
<1>3. CASE TakeApprovalLock(r)
  <2>1. request[r].action \in Actions /\ request'[r].action = request[r].action
    BY <1>3, TakeLockMoves DEF Moves, Asked
  <2> QED
    BY <1>3, <2>1 DEF TakeApprovalLock, StorefrontTypes, StorefrontTypeOK, ApprovalTypeOK
<1>4. CASE ReadAction(r) \/ ClaimForAction(r) \/ RecordStatus(r) \/ RecordOrder(r)
  BY <1>1, <1>4, ReadMoves, ClaimMoves, RecordMoves DEF Moves, AtApproval
<1>5. CASE ApprovalFails(r)
  BY <1>1, <1>5, FailMoves DEF Moves
<1> QED
  BY <1>2, <1>3, <1>4, <1>5, Arrivals

\* Two requests are never both past the lock of such an action.
LEMMA AloneAtWork ==
  ASSUME LockKept, NEW x \in Actions, x \notin disturbed,
         NEW r \in Approvers, WorksOn(r, x), request[r].at # "lock",
         NEW q \in Approvers, WorksOn(q, x), request[q].at # "lock"
  PROVE  r = q
BY DEF LockKept, WorksOn

LEMMA HalfRecordedStep ==
  ASSUME StorefrontTypes, PreparedFor, NamedInHand, Undisturbed, ApprovalNext
  PROVE  HalfRecorded'
<1> USE DEF Undisturbed
<1> SUFFICES ASSUME NEW r \in Approvers, NEW x, request'[r] # NoRequest,
                    x = request'[r].action, x \notin disturbed'
             PROVE  /\ request'[r].at = "status" => action'[x].order = 0
                    /\ request'[r].at = "order" /\ action'[x].user # Nothing =>
                         action'[x].status = request'[r].answer.status
  BY DEF HalfRecorded
<1>1. x \notin disturbed /\ x \in Actions
  BY FaultsStay, RequestTypes DEF Asked
<1>2. CASE request'[r] = request[r]
  <2>1. WorksOn(r, x) /\ prepared[x] # NotPrepared
    BY <1>2 DEF WorksOn, PreparedFor
  <2>2. \A u \in Users, a \in Activities : ~Prepare(x, u, a)
    BY <2>1 DEF Prepare
  <2>3. ASSUME NEW q \in Approvers, WorksOn(q, x), RecordStatus(q)
        PROVE  request[r].at \notin {"status", "order"}
    <3>1. AtApproval(q, "status") /\ request'[q] # request[q]
      BY <2>3, RecordMoves DEF Moves, AtApproval
    <3> QED
      BY <1>1, <1>2, <2>1, <2>3, <3>1, AloneAtWork DEF AtApproval
  <2>4. ASSUME NEW q \in Approvers, WorksOn(q, x), RecordOrder(q)
        PROVE  request[r].at \notin {"status", "order"}
    <3>1. AtApproval(q, "order") /\ request'[q] # request[q]
      BY <2>4, RecordMoves DEF Moves, AtApproval
    <3> QED
      BY <1>1, <1>2, <2>1, <2>4, <3>1, AloneAtWork DEF AtApproval
  <2>5. /\ request[r].at = "status" => action[x].order = 0
        /\ request[r].at = "order" /\ action[x].user # Nothing =>
             action[x].status = request[r].answer.status
    BY <1>1, <2>1 DEF HalfRecorded, WorksOn
  <2>6. NoAction.order = 0 /\ NoAction.user = Nothing
    BY DEF NoAction
  <2> QED
    BY <1>1, <1>2, <2>2, <2>3, <2>4, <2>5, <2>6, FieldsChange
<1>3. CASE request'[r] # request[r] /\ request'[r].at = "status"
  <2>1. ClaimForAction(r)
    BY <1>3, Arrivals
  <2>2. AtApproval(r, "claim") /\ WorksOn(r, x)
    BY <2>1, ClaimMoves DEF Moves, WorksOn, AtApproval
  <2>3. ClaimAhead(x)
    BY <2>2 DEF ClaimAhead
  <2>4. action[x].order = 0
    <3>1. action[x] \in ActionRecord
      BY <1>1 DEF StorefrontTypes, StorefrontTypeOK, ApprovalTypeOK, ActionRecord
    <3>2. action[x].order # 0 => action[x].order \in Orders
      BY <3>1, BaseAssumption DEF ActionRecord, Orders, BaseAssumption
    <3> QED
      BY <1>1, <2>3, <3>2 DEF NothingBeforeClaim, NamedInHand, NamedOrderIsTheActions
  <2> QED
    BY <1>3, <2>1, <2>4 DEF ClaimForAction
<1>4. CASE request'[r] # request[r] /\ request'[r].at = "order"
  <2>1. RecordStatus(r)
    BY <1>4, Arrivals
  <2>2. request[r].action = x /\ request'[r].answer = request[r].answer
    BY <2>1, RecordMoves DEF Moves, SameAnswer
  <2>3. action[x] \in ActionRecord /\ action \in [Actions -> ActionRecord]
    BY <1>1 DEF StorefrontTypes, StorefrontTypeOK, ApprovalTypeOK, ActionRecord
  <2>4. action'[x] = [action[x] EXCEPT !.status = request[r].answer.status]
    BY <1>1, <2>1, <2>2, <2>3 DEF RecordStatus
  <2>5. action'[x].status = request[r].answer.status
    BY <2>3, <2>4 DEF ActionRecord
  <2> QED
    BY <1>4, <2>2, <2>5
<1> QED
  BY <1>2, <1>3, <1>4

\* A claim that is still ahead was ahead before.
LEMMA AheadBefore ==
  ASSUME StorefrontTypes, PreparedFor, LockKept, ApprovalNext,
         NEW x \in Actions, x \notin disturbed', ClaimAhead(x)'
  PROVE  ClaimAhead(x)
<1>1. x \notin disturbed
  BY FaultsStay
<1>2. CASE prepared'[x] = NotPrepared
  BY <1>2, PreparedOnce DEF ClaimAhead
<1>3. ASSUME NEW r \in Approvers, AtApproval(r, "claim")', WorksOn(r, x)'
      PROVE  ClaimAhead(x)
  <2>1. CASE request'[r] = request[r]
    BY <1>3, <2>1 DEF ClaimAhead, AtApproval, WorksOn
  <2>2. CASE request'[r] # request[r]
    <3>1. ReadAction(r)
      BY <1>3, <2>2, Arrivals DEF AtApproval
    <3>2. AtApproval(r, "read") /\ WorksOn(r, x) /\ action[x].status = "pending"
      BY <1>3, <3>1, ReadMoves DEF Moves, AtApproval, WorksOn
    <3>3. \A q \in Approvers : ~(AtApproval(q, "status") /\ WorksOn(q, x))
      BY <1>1, <3>2, AloneAtWork DEF AtApproval
    <3> QED
      BY <3>2, <3>3 DEF ClaimAhead
  <2> QED
    BY <2>1, <2>2
<1>4. CASE /\ action'[x].status = "pending"
           /\ \A r \in Approvers : ~(AtApproval(r, "status") /\ WorksOn(r, x))'
  <2>1. ASSUME NEW r \in Approvers, RecordStatus(r), WorksOn(r, x) PROVE FALSE
    <3>1. request[r].answer \in Answer
      BY <2>1 DEF RecordStatus, AtApproval, StorefrontTypes, StepsTyped, Unrecorded
    <3>2. action'[x].status = request[r].answer.status
      <4>1. action[x] \in ActionRecord /\ action \in [Actions -> ActionRecord]
        BY DEF StorefrontTypes, StorefrontTypeOK, ApprovalTypeOK, ActionRecord
      <4>2. action'[x] = [action[x] EXCEPT !.status = request[r].answer.status]
        BY <2>1, <4>1 DEF RecordStatus, WorksOn
      <4> QED
        BY <4>1, <4>2 DEF ActionRecord
    <3> QED
      BY <1>4, <3>1, <3>2 DEF Answer, ClaimOutcome
  <2>2. ASSUME NEW r \in Approvers, AtApproval(r, "status"), WorksOn(r, x) PROVE FALSE
    <3>1. request'[r] # request[r]
      BY <1>4, <2>2 DEF AtApproval, WorksOn
    <3>2. \/ RecordStatus(r) \/ ApprovalFails(r) \/ ApproverDies(r)
      BY <2>2, <3>1, OneRequestMoves
      DEF AtApproval, TakeApprovalLock, ApprovalBusy, ReadAction, ClaimForAction, RecordOrder,
          ReleaseApproval, AskApproval
    <3>3. ApprovalFails(r) \/ ApproverDies(r) => x \in disturbed'
      BY <2>2 DEF ApprovalFails, ApproverDies, Disturb, Unrecorded, AtApproval, WorksOn
    <3> QED
      BY <2>1, <2>2, <3>2, <3>3
  <2>3. CASE action[x].status = "pending"
    BY <2>2, <2>3 DEF ClaimAhead
  <2>4. CASE action[x].status # "pending"
    <3>1. \A u \in Users, a \in Activities : Prepare(x, u, a) => ClaimAhead(x)
      BY DEF Prepare, ClaimAhead
    <3>2. NoAction.status = "none"
      BY DEF NoAction
    <3> QED
      BY <1>4, <2>1, <2>4, <3>1, <3>2, FieldsChange
  <2> QED
    BY <2>3, <2>4
<1> QED
  BY <1>2, <1>3, <1>4 DEF ClaimAhead

\* Once the claim has run, it is not ahead any more.
LEMMA ClaimIsOver ==
  ASSUME StorefrontTypes, PreparedFor, LockKept, ApprovalNext,
         NEW x \in Actions, x \notin disturbed,
         NEW r \in Approvers, ClaimForAction(r), WorksOn(r, x)
  PROVE  ~ClaimAhead(x)' /\ ClaimAhead(x)
<1>1. AtApproval(r, "claim") /\ request[r].at = "claim" /\ Moves(r, "status")
  BY ClaimMoves DEF AtApproval
<1>2. prepared'[x] # NotPrepared
  BY DEF ClaimForAction, PreparedFor, WorksOn
<1>3. AtApproval(r, "status")' /\ WorksOn(r, x)'
  BY <1>1, RecordsDiffer DEF Moves, AtApproval, WorksOn
<1>4. ASSUME NEW q \in Approvers, AtApproval(q, "claim")', WorksOn(q, x)' PROVE FALSE
  <2>1. q # r
    BY <1>3, <1>4 DEF AtApproval
  <2>2. AtApproval(q, "claim") /\ WorksOn(q, x)
    BY <1>1, <1>4, <2>1 DEF Moves, AtApproval, WorksOn
  <2> QED
    BY <1>1, <2>1, <2>2, AloneAtWork DEF AtApproval
<1> QED
  BY <1>1, <1>2, <1>3, <1>4 DEF ClaimAhead

\* Nothing new is known of an action but what its claim returns.
LEMMA KnownBefore ==
  ASSUME StorefrontTypes, PreparedFor, Undisturbed, ApprovalNext,
         NEW x \in Actions, x \notin disturbed', NEW p \in Answer, Known(x, p)'
  PROVE  \/ Known(x, p)
         \/ \E r \in Approvers :
              ClaimForAction(r) /\ WorksOn(r, x) /\ request'[r].answer = p
<1> USE DEF Undisturbed
<1>1. /\ x \notin disturbed
      /\ action[x] \in ActionRecord /\ action \in [Actions -> ActionRecord]
  BY FaultsStay DEF StorefrontTypes, StorefrontTypeOK, ApprovalTypeOK, ActionRecord
<1>2. ASSUME NEW r \in Approvers, request[r] \in Asked, request[r].action = x,
             request[r].answer = p
      PROVE  Known(x, p)
  BY <1>2, RecordsDiffer DEF Known, WorksOn
<1>3. CASE p \in answers'[x]
  BY <1>3, AnswerGiven DEF Known
<1>4. ASSUME NEW r \in Approvers, WorksOn(r, x)', request'[r].answer = p
      PROVE  \/ Known(x, p)
             \/ ClaimForAction(r) /\ WorksOn(r, x)
  <2>1. CASE request'[r] = request[r]
    BY <1>4, <2>1 DEF Known, WorksOn
  <2>2. CASE TakeApprovalLock(r) \/ RecordStatus(r) \/ RecordOrder(r)
    BY <1>2, <1>4, <2>2, TakeLockMoves, RecordMoves DEF Moves, SameAnswer, WorksOn
  <2>3. CASE ClaimForAction(r)
    BY <1>4, <2>3, ClaimMoves DEF Moves, WorksOn, AtApproval
  <2>4. p # NoAnswer /\ p # NotFound
    BY DEF NoAnswer, NotFound, Answer, ClaimOutcome
  <2>5. CASE ReadAction(r)
    <3>1. AtApproval(r, "read") /\ request[r] \in Asked /\ request[r].action = x
      BY <1>4, <2>5, ReadMoves DEF Moves, WorksOn
    <3>2. \A q \in Approvers : ~(AtApproval(q, "order") /\ WorksOn(q, x))
      BY <1>1, <3>1, AloneAtWork DEF AtApproval, WorksOn
    <3>3. \/ p = request[r].answer
          \/ /\ action[x].user # Nothing
             /\ p = [status |-> action[x].status, order |-> action[x].order]
      BY <1>4, <2>4, <2>5, <3>1, ReadMoves
    <3> QED
      BY <1>2, <3>1, <3>2, <3>3 DEF Known
  <2> QED
    BY <1>4, <2>1, <2>2, <2>3, <2>4, <2>5, Arrivals, FailMoves DEF WorksOn
<1>5. CASE /\ action'[x].user # Nothing
           /\ p = [status |-> action'[x].status, order |-> action'[x].order]
           /\ \A r \in Approvers : ~(AtApproval(r, "order") /\ WorksOn(r, x))'
  <2>1. p.status = action'[x].status /\ p.order = action'[x].order
    BY <1>5
  <2>2. \A s \in Answer : s.status = p.status /\ s.order = p.order => s = p
    BY DEF Answer
  <2>3. ASSUME NEW r \in Approvers, RecordStatus(r), WorksOn(r, x) PROVE Known(x, p)
    <3>1. /\ AtApproval(r, "status") /\ request[r].answer \in Answer
      BY <2>3 DEF RecordStatus, AtApproval, StorefrontTypes, StepsTyped, Unrecorded
    <3>2. action'[x] = [action[x] EXCEPT !.status = request[r].answer.status]
      BY <1>1, <2>3 DEF RecordStatus, WorksOn
    <3>3. action'[x].status = request[r].answer.status /\ action'[x].order = action[x].order
      BY <1>1, <3>2 DEF ActionRecord
    <3>4. action[x].order = 0
      BY <1>1, <2>3, <3>1 DEF HalfRecorded, AtApproval, WorksOn
    <3>5. request[r].answer.order = 0
      <4>1. SUFFICES ASSUME request[r].answer.order # 0 PROVE FALSE
        OBVIOUS
      <4>2. Moves(r, "order")
        BY <2>3, <4>1, RecordMoves
      <4> QED
        BY <1>5, <2>3, <4>2, RecordsDiffer DEF Moves, AtApproval, WorksOn
    <3>6. request[r].answer = p
      BY <2>1, <2>2, <3>1, <3>3, <3>4, <3>5
    <3> QED
      BY <2>3, <3>6 DEF Known
  <2>4. ASSUME NEW r \in Approvers, RecordOrder(r), WorksOn(r, x) PROVE Known(x, p)
    <3>1. /\ AtApproval(r, "order") /\ request[r].answer \in Answer
      BY <2>4 DEF RecordOrder, AtApproval, StorefrontTypes, StepsTyped, Unrecorded
    <3>2. action'[x] = [action[x] EXCEPT !.order = request[r].answer.order]
      BY <1>1, <2>4 DEF RecordOrder, WorksOn
    <3>3. /\ action'[x].order = request[r].answer.order /\ action'[x].status = action[x].status
          /\ action'[x].user = action[x].user
      BY <1>1, <3>2 DEF ActionRecord
    <3>4. action[x].status = request[r].answer.status
      BY <1>1, <1>5, <2>4, <3>1, <3>3 DEF HalfRecorded, AtApproval, WorksOn
    <3>5. request[r].answer = p
      BY <2>1, <2>2, <3>1, <3>3, <3>4
    <3> QED
      BY <2>4, <3>5 DEF Known
  <2>5. CASE action'[x] = action[x] /\ \A r \in Approvers : ~(RecordOrder(r) /\ WorksOn(r, x))
    <3>1. ASSUME NEW r \in Approvers, AtApproval(r, "order"), WorksOn(r, x) PROVE FALSE
      <4>1. request'[r] # request[r]
        BY <1>5, <3>1 DEF AtApproval, WorksOn
      <4>2. RecordOrder(r) \/ ApprovalFails(r) \/ ApproverDies(r)
        BY <3>1, <4>1, OneRequestMoves
        DEF AtApproval, TakeApprovalLock, ApprovalBusy, ReadAction, ClaimForAction,
            RecordStatus, ReleaseApproval, AskApproval
      <4>3. ApprovalFails(r) \/ ApproverDies(r) => x \in disturbed'
        BY <3>1 DEF ApprovalFails, ApproverDies, Disturb, Unrecorded, AtApproval, WorksOn
      <4> QED
        BY <2>5, <3>1, <4>2, <4>3
    <3> QED
      BY <1>5, <2>5, <3>1 DEF Known
  <2>6. action'[x] # NoAction /\ action'[x].status # "pending"
    BY <1>5, <2>1 DEF NoAction, Answer, ClaimOutcome
  <2> QED
    BY <2>3, <2>4, <2>5, <2>6, FieldsChange
<1> QED
  BY <1>3, <1>4, <1>5 DEF Known

LEMMA UndisturbedStep ==
  ASSUME Approved, Undisturbed, [StorefrontNext]_storefrontVars
  PROVE  Undisturbed'
<1> USE DEF Approved
<1>1. CASE UNCHANGED actionVars
  BY <1>1 DEF actionVars, Undisturbed, LockKept, NothingBeforeClaim, OneOutcome, HalfRecorded,
     ClaimAhead, Known, AtApproval, WorksOn
<1>2. CASE ApprovalNext
  <2>1. LockKept' /\ HalfRecorded'
    BY <1>2, LockKeptStep, HalfRecordedStep DEF Undisturbed
  <2>2. ASSUME NEW x \in Actions, x \notin disturbed', ClaimAhead(x)'
        PROVE  /\ \A o \in Orders : origin'[o] # x
               /\ \A p \in Answer : ~Known(x, p)'
    <3>1. x \notin disturbed /\ ClaimAhead(x)
      BY <1>2, <2>2, FaultsStay, AheadBefore DEF Undisturbed
    <3>2. \A r \in Approvers : ~(ClaimForAction(r) /\ WorksOn(r, x))
      BY <1>2, <2>2, <3>1, ClaimIsOver DEF Undisturbed
    <3>3. ASSUME NEW o \in Orders, origin'[o] = x PROVE FALSE
      <4>1. origin'[o] # origin[o]
        BY <3>1, <3>3 DEF Undisturbed, NothingBeforeClaim
      <4>2. PICK r \in Approvers : ClaimForAction(r) /\ origin'[o] = request[r].action
        BY <1>2, <4>1, OriginGiven
      <4> QED
        BY <3>2, <3>3, <4>2 DEF WorksOn, ClaimForAction, AtApproval
    <3>4. \A p \in Answer : ~Known(x, p)
      BY <3>1 DEF Undisturbed, NothingBeforeClaim
    <3>5. \A p \in Answer : ~Known(x, p)'
      BY <1>2, <2>2, <3>2, <3>4, KnownBefore
    <3> QED
      BY <3>3, <3>5
  <2>3. ASSUME NEW x \in Actions, x \notin disturbed', NEW o \in Orders, NEW p \in Orders,
               origin'[o] = x, origin'[p] = x
        PROVE  o = p
    <3>1. x \notin disturbed
      BY <1>2, <2>3, FaultsStay
    <3>2. ASSUME NEW n \in Orders, origin'[n] = x, origin'[n] # origin[n]
          PROVE  ClaimAhead(x) /\ n = Len(stream) + 1
      <4>1. PICK r \in Approvers : /\ ClaimForAction(r) /\ request[r].action = x
                                   /\ n = Len(stream) + 1
        BY <1>2, <3>2, OriginGiven
      <4>2. WorksOn(r, x)
        BY <4>1 DEF WorksOn, ClaimForAction, AtApproval
      <4> QED
        BY <1>2, <3>1, <4>1, <4>2, ClaimIsOver DEF Undisturbed
    <3> QED
      BY <2>3, <3>1, <3>2 DEF Undisturbed, NothingBeforeClaim, OneOutcome
  <2>4. ASSUME NEW x \in Actions, x \notin disturbed', NEW p \in Answer, NEW q \in Answer,
               Known(x, p)', Known(x, q)'
        PROVE  p = q
    <3>1. x \notin disturbed
      BY <1>2, <2>4, FaultsStay
    <3>2. ASSUME NEW r \in Approvers, ClaimForAction(r), WorksOn(r, x)
          PROVE  p = request'[r].answer /\ q = request'[r].answer
      <4>1. \A s \in Answer : ~Known(x, s)
        BY <1>2, <3>1, <3>2, ClaimIsOver DEF Undisturbed, NothingBeforeClaim
      <4>2. \A s \in Approvers : ClaimForAction(s) /\ WorksOn(s, x) => s = r
        BY <3>1, <3>2, AloneAtWork DEF ClaimForAction, AtApproval, Undisturbed
      <4> QED
        BY <1>2, <2>4, <4>1, <4>2, KnownBefore
    <3>3. CASE \A r \in Approvers : ~(ClaimForAction(r) /\ WorksOn(r, x))
      <4>1. Known(x, p) /\ Known(x, q)
        BY <1>2, <2>4, <3>3, KnownBefore
      <4> QED
        BY <3>1, <4>1 DEF Undisturbed, OneOutcome
    <3> QED
      BY <3>2, <3>3
  <2> QED
    BY <2>1, <2>2, <2>3, <2>4 DEF Undisturbed, NothingBeforeClaim, OneOutcome
<1> QED
  BY <1>1, <1>2, ApprovalOrNot

LEMMA UndisturbedInit ==
  ASSUME StorefrontInit
  PROVE  Undisturbed
<1>1. /\ \A r \in Approvers : request[r] = NoRequest
      /\ \A x \in Actions : answers[x] = {} /\ action[x].user = Nothing
      /\ \A o \in Orders : origin[o] = Nothing
      /\ Nothing \notin Actions
  BY ApprovalAssumption DEF StorefrontInit, ApprovalInit, NoAction, ApprovalAssumption
<1>2. \A x \in Actions : \A p : ~Known(x, p)
  BY <1>1 DEF Known, WorksOn
<1> QED
  BY <1>1, <1>2
  DEF Undisturbed, LockKept, NothingBeforeClaim, OneOutcome, HalfRecorded

LEMMA UndisturbedAlways == StorefrontSpec => [](Approved /\ Undisturbed)
BY StorefrontTypesInit, StorefrontTypesStep, PageMoves, PreparedInit, PreparedStep, NamedInit,
   NamedStep, UndisturbedInit, UndisturbedStep, PTL DEF StorefrontSpec, Approved

\* For any number of requests, users and actions: as long as no fault cut in
\* between the claim and its record and no lock lapsed, everybody who asks for
\* an action is given the same status and the same order (quota_agent.py 111,
\* test_agent_safety.py 50-52).
THEOREM EverybodyToldTheSame == StorefrontSpec => []AnswersAgree
<1>1. StorefrontTypes /\ OneOutcome => AnswersAgree
  BY DEF StorefrontTypes, StorefrontTypeOK, ApprovalTypeOK, OneOutcome, Known, AnswersAgree
<1> QED
  BY <1>1, UndisturbedAlways, PTL DEF Approved, Undisturbed

\* Such an action claims once, also if its order is cancelled and its user could
\* claim again while a second request is on its way (quota_agent.py 103-112).
THEOREM ActionsClaimOnce == StorefrontSpec => []OneOrderPerAction
<1>1. ASSUME OneOutcome, NEW x \in Actions \ disturbed
      PROVE  Cardinality({o \in Orders : origin[o] = x}) <= 1
  <2> DEFINE S == {o \in Orders : origin[o] = x}
  <2>1. CASE S = {}
    BY <2>1, FS_EmptySet
  <2>2. ASSUME NEW o \in S PROVE Cardinality(S) <= 1
    <3>1. S = {o}
      BY <1>1, <2>2 DEF OneOutcome
    <3>2. Cardinality({o}) = 1
      BY FS_Singleton
    <3> QED
      BY <3>1, <3>2
  <2> QED
    BY <2>1, <2>2
<1>2. OneOutcome => OneOrderPerAction
  BY <1>1 DEF OneOrderPerAction
<1> QED
  BY <1>2, UndisturbedAlways, PTL DEF Undisturbed
=============================================================================
