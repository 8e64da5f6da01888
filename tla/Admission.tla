------------------------------ MODULE Admission ------------------------------
(***************************************************************************)
(* The way of a claim through the API: three sliding windows in Redis, an  *)
(* optional one-time challenge, then the claim itself.  Several requests   *)
(* are handled at once; each command they send is a step of its own.       *)
(*                                                                         *)
(* A window is a sorted set of marks scored with the time the request was  *)
(* taken at.  Only how old marks are matters, so a window counts marks by  *)
(* age and the clock makes everything older by one tick.  A request reads  *)
(* the clock before it sends its commands: "lag" is how old that reading   *)
(* is by now.  The clocks of the API processes agree.                      *)
(*                                                                         *)
(* The EXPIRE after ZADD is left out: it removes a window two window       *)
(* lengths after the last mark, when every mark in it is out of date.      *)
(***************************************************************************)
EXTENDS Integers, FiniteSets

CONSTANTS
  Requests,          \* requests an API may be handling at the same time
  Users, Ips, Activities,
  Limit, Window,     \* rate_limit_*_limit and rate_limit_*_window, by tier
  PeekWindow,        \* the sixty seconds peek_budget trims to
  MaxLag,            \* bound on the time between reading the clock and ZADD
  OldestAge,         \* by tier: ages are not told apart from here on
  RateLimitEnabled, ChallengeEnabled,
  Challenges,        \* challenges that may be outstanding
  NoChallenge        \* a request without an X-Challenge header

Tiers == 1 .. 3      \* user, ip, activity: in the order of check_claim

ASSUME AdmissionAssumption ==
  /\ IsFiniteSet(Requests)
  /\ Limit \in [Tiers -> Nat \ {0}]
  /\ Window \in [Tiers -> Nat \ {0}]
  /\ PeekWindow \in Nat
  /\ MaxLag \in Nat
  /\ OldestAge \in [Tiers -> Nat]
  /\ \A i \in Tiers :
       /\ Window[i] + MaxLag <= OldestAge[i]
       /\ PeekWindow <= OldestAge[i]
  /\ {RateLimitEnabled, ChallengeEnabled} \subseteq BOOLEAN
  /\ NoChallenge \notin Challenges

Keys == ({1} \X Users) \cup ({2} \X Ips) \cup ({3} \X Activities)
Ages(k) == 0 .. OldestAge[k[1]]
Places == {"idle", "trim", "count", "mark", "look", "consume"}

VARIABLES
  marks,     \* rl:{namespace}:{scope}: how many marks there are of each age
  pc,        \* what each request does next
  scopes,    \* the user, address and activity of each request
  tier,      \* the tier a request is at
  lag,       \* the age of the request's clock reading
  header,    \* the challenge that X-Challenge answers
  live,      \* challenges Redis still holds the answer of
  attempts   \* history: answers compared with a challenge since it was issued

vars == <<marks, pc, scopes, tier, lag, header, live, attempts>>
requestVars == <<scopes, tier, lag, header>>

AdmissionTypeOK ==
  /\ \A k \in Keys : marks[k] \in [Ages(k) -> Nat]
  /\ DOMAIN marks = Keys
  /\ pc \in [Requests -> Places]
  /\ scopes \in [Requests -> Users \X Ips \X Activities]
  /\ tier \in [Requests -> Tiers]
  /\ lag \in [Requests -> 0 .. MaxLag]
  /\ header \in [Requests -> Challenges \cup {NoChallenge}]
  /\ live \subseteq Challenges
  /\ attempts \in [Challenges -> Nat]

Init ==
  /\ marks = [k \in Keys |-> [age \in Ages(k) |-> 0]]
  /\ pc = [r \in Requests |-> "idle"]
  /\ scopes \in [Requests -> Users \X Ips \X Activities]
  /\ tier = [r \in Requests |-> 1]
  /\ lag = [r \in Requests |-> 0]
  /\ header = [r \in Requests |-> NoChallenge]
  /\ live = {}
  /\ attempts = [c \in Challenges |-> 0]

-----------------------------------------------------------------------------
KeyOf(r) == <<tier[r], scopes[r][tier[r]]>>

CountOf(k, ages) == Cardinality(UNION {{age} \X (1 .. marks[k][age]) : age \in ages})

\* ZCARD.
Size(k) == CountOf(k, Ages(k))

\* The marks of a window that its length still covers.
Fresh(k) == CountOf(k, 0 .. Window[k[1]] - 1)

\* Faulty variant: the bound is one tick too high.
TrimEarly(k, window, delay) ==
  marks' = [marks EXCEPT ![k] =
              [age \in Ages(k) |-> IF age >= window + delay - 1 THEN 0 ELSE @[age]]]

\* ZREMRANGEBYSCORE 0 (now - window), where now was read lag ticks ago.
Trim(k, window, delay) ==
  marks' = [marks EXCEPT ![k] =
              [age \in Ages(k) |-> IF age >= window + delay THEN 0 ELSE @[age]]]

Goto(r, place) == pc' = [pc EXCEPT ![r] = place]

\* The request is answered.
Finish(r) ==
  /\ Goto(r, "idle")
  /\ tier' = [tier EXCEPT ![r] = 1]
  /\ lag' = [lag EXCEPT ![r] = 0]
  /\ header' = [header EXCEPT ![r] = NoChallenge]
  /\ UNCHANGED scopes

-----------------------------------------------------------------------------
\* A request comes in and reads the clock for its first window.
Arrive(r, s) ==
  /\ pc[r] = "idle"
  /\ scopes' = [scopes EXCEPT ![r] = s]
  /\ \/ RateLimitEnabled /\ Goto(r, "trim")
     \/ ~RateLimitEnabled /\ ChallengeEnabled /\ Goto(r, "look")
  /\ UNCHANGED <<marks, tier, lag, header, live, attempts>>

TrimWindow(r) ==
  /\ pc[r] = "trim"
  /\ Trim(KeyOf(r), Window[tier[r]], lag[r])
  /\ Goto(r, "count")
  /\ UNCHANGED <<requestVars, live, attempts>>

AddMark(k, age) == marks' = [marks EXCEPT ![k][age] = @ + 1]

\* Faulty variant: "count <= limit" for "count < limit".
CountWindowOffByOne(r) ==
  /\ pc[r] = "count"
  /\ \/ /\ Size(KeyOf(r)) <= Limit[tier[r]]
        /\ Goto(r, "mark")
        /\ UNCHANGED requestVars
     \/ /\ Size(KeyOf(r)) > Limit[tier[r]]
        /\ Finish(r)
  /\ UNCHANGED <<marks, live, attempts>>

\* Faulty variant: a refused attempt renews the marks that refused it.
CountWindowRenewing(r) ==
  /\ pc[r] = "count"
  /\ \/ /\ Size(KeyOf(r)) < Limit[tier[r]]
        /\ Goto(r, "mark")
        /\ UNCHANGED <<marks, requestVars>>
     \/ /\ Size(KeyOf(r)) >= Limit[tier[r]]
        /\ marks' = [marks EXCEPT ![KeyOf(r)] =
                       [age \in Ages(KeyOf(r)) |-> IF age = lag[r] THEN Size(KeyOf(r)) ELSE 0]]
        /\ Finish(r)
  /\ UNCHANGED <<live, attempts>>

\* ZCARD: there is a place left, or 429 (with a ZRANGE for Retry-After).  What
\* earlier tiers counted stays counted.
CountWindow(r) ==
  /\ pc[r] = "count"
  /\ \/ /\ Size(KeyOf(r)) < Limit[tier[r]]
        /\ Goto(r, "mark")
        /\ UNCHANGED requestVars
     \/ /\ Size(KeyOf(r)) >= Limit[tier[r]]
        /\ Finish(r)
  /\ UNCHANGED <<marks, live, attempts>>

\* Faulty variant: the loop runs past the last tier.
LastTierMissed(r) == tier[r] > 3

LastTier(r) == tier[r] = 3

\* ZADD, and on to the next window with a new reading of the clock.  Behind
\* the last one is the challenge, or the claim itself (module SeckillRedis).
MarkWindow(r) ==
  /\ pc[r] = "mark"
  /\ AddMark(KeyOf(r), lag[r])
  /\ \/ /\ ~LastTier(r)
        /\ tier' = [tier EXCEPT ![r] = @ + 1]
        /\ lag' = [lag EXCEPT ![r] = 0]
        /\ Goto(r, "trim")
        /\ UNCHANGED <<scopes, header>>
     \/ /\ LastTier(r) /\ ChallengeEnabled
        /\ lag' = [lag EXCEPT ![r] = 0]
        /\ Goto(r, "look")
        /\ UNCHANGED <<scopes, tier, header>>
     \/ /\ LastTier(r) /\ ~ChallengeEnabled
        /\ Finish(r)
  /\ UNCHANGED <<live, attempts>>

\* GET the expected answer of the challenge in the header.
LookUpChallenge(r, c) ==
  /\ pc[r] = "look"
  /\ c \in live
  /\ header' = [header EXCEPT ![r] = c]
  /\ Goto(r, "consume")
  /\ UNCHANGED <<marks, scopes, tier, lag, live, attempts>>

\* No header, or a challenge that is unknown, expired or used up: 403.
RefuseChallenge(r) ==
  /\ pc[r] = "look"
  /\ Finish(r)
  /\ UNCHANGED <<marks, live, attempts>>

\* Faulty variant: only a right answer uses the challenge up.
ConsumeRightAnswer(r) ==
  /\ pc[r] = "consume"
  /\ \/ live' = live \ {header[r]}
     \/ UNCHANGED live
  /\ attempts' = [attempts EXCEPT ![header[r]] = @ + 1]
  /\ Finish(r)
  /\ UNCHANGED marks

\* DEL, whether the answer turns out right (on to the claim) or wrong (403).
ConsumeChallenge(r) ==
  /\ pc[r] = "consume"
  /\ live' = live \ {header[r]}
  /\ attempts' = [attempts EXCEPT ![header[r]] = @ + 1]
  /\ Finish(r)
  /\ UNCHANGED marks

\* A command raises: 500, and what was counted stays counted.
Fail(r) ==
  /\ pc[r] # "idle"
  /\ Finish(r)
  /\ UNCHANGED <<marks, live, attempts>>

-----------------------------------------------------------------------------
\* A new challenge; its identifier is free for reuse once nobody holds it.
IssueChallenge(c) ==
  /\ c \notin live
  /\ \A r \in Requests : header[r] # c
  /\ live' = live \cup {c}
  /\ attempts' = [attempts EXCEPT ![c] = 0]
  /\ UNCHANGED <<marks, pc, requestVars>>

ChallengeExpires(c) ==
  /\ c \in live
  /\ live' = live \ {c}
  /\ UNCHANGED <<marks, pc, requestVars, attempts>>

\* The diagnostic route trims the window it shows; with an older reading of the
\* clock it would trim less.
PeekBudget(k) ==
  /\ Trim(k, PeekWindow, 0)
  /\ UNCHANGED <<pc, requestVars, live, attempts>>

UsesClock(r) == pc[r] \in {"trim", "count", "mark"}

\* One tick.  A request is never MaxLag behind its own reading of the clock.
Tick ==
  /\ \A r \in Requests : UsesClock(r) => lag[r] < MaxLag
  /\ lag' = [r \in Requests |-> IF UsesClock(r) THEN lag[r] + 1 ELSE lag[r]]
  /\ marks' = [k \in Keys |-> [age \in Ages(k) |->
                 CASE age = 0 -> 0
                   [] age = OldestAge[k[1]] -> marks[k][age - 1] + marks[k][age]
                   [] OTHER -> marks[k][age - 1]]]
  /\ UNCHANGED <<pc, scopes, tier, header, live, attempts>>

RequestStep(r) ==
  \/ TrimWindow(r)
  \/ CountWindow(r)
  \/ MarkWindow(r)
  \/ \E c \in Challenges : LookUpChallenge(r, c)
  \/ RefuseChallenge(r)
  \/ ConsumeChallenge(r)

Next ==
  \/ \E r \in Requests :
       \/ \E s \in Users \X Ips \X Activities : Arrive(r, s)
       \/ RequestStep(r)
       \/ Fail(r)
  \/ \E c \in Challenges : IssueChallenge(c) \/ ChallengeExpires(c)
  \/ \E k \in Keys : PeekBudget(k)
  \/ Tick

Spec == Init /\ [][Next]_vars

\* Requests that came in are handled, and time passes.
FairSpec ==
  /\ Spec
  /\ \A r \in Requests : WF_vars(RequestStep(r))
  /\ WF_vars(Tick)

-----------------------------------------------------------------------------
\* Counting and marking are two commands, so requests handled at the same time
\* may pass on one free place; there are never more marks in a window than the
\* limit and one for each other request being handled (rate_limit.py 46-51).
\* A mark that the diagnostic route has taken out early is not among them.
OvershootBounded ==
  \A k \in Keys : Fresh(k) <= Limit[k[1]] + Cardinality(Requests) - 1

\* No request gives places back too early, its own or those of others, however
\* late its reading of the clock (rate_limit.py 46): before its time a mark
\* leaves its window only through the diagnostic route, and only if the window
\* is configured to be longer than the route's sixty seconds (134).
MarksKept ==
  [][\/ Tick
     \/ \A k \in Keys : \A age \in 0 .. Window[k[1]] - 1 :
          \/ marks'[k][age] >= marks[k][age]
          \/ PeekBudget(k) /\ age >= PeekWindow
    ]_vars

\* However often its answer is guessed or replayed, a challenge is compared
\* with no more answers than requests can be handled at the same time: once a
\* verification has ended, right or wrong, there is nothing left to compare with
\* (rate_limit.py 119-127).
GuessesBounded == \A c \in Challenges : attempts[c] <= Cardinality(Requests)

\* Who is locked out is let in again, however hard he keeps trying: a refused
\* attempt does not count (rate_limit.py 48-62).
LockoutsEnd ==
  \A k \in Keys : (Fresh(k) >= Limit[k[1]]) ~> (Fresh(k) < Limit[k[1]])
=============================================================================
