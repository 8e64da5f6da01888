--------------------------- MODULE AdmissionProofs ---------------------------
(***************************************************************************)
(* For every number of requests handled at the same time, every limit and  *)
(* window and any delay between reading the clock and writing a mark: how  *)
(* far the windows may be overrun, by what a mark can leave its window     *)
(* early, and how often the answer to a challenge can be guessed.          *)
(***************************************************************************)
EXTENDS Admission, FiniteSetTheorems, TLAPS

-----------------------------------------------------------------------------
(* Counting marks *)

MarkSet(m, ages) == UNION {{age} \X (1 .. m[age]) : age \in ages}

LEMMA CountOfMarkSet ==
  ASSUME NEW k, NEW ages
  PROVE  CountOf(k, ages) = Cardinality(MarkSet(marks[k], ages))
BY DEF CountOf, MarkSet

LEMMA InMarkSet ==
  ASSUME NEW m, NEW ages
  PROVE  \A e : e \in MarkSet(m, ages) <=>
                  \E age \in ages : \E i \in 1 .. m[age] : e = <<age, i>>
BY DEF MarkSet

LEMMA MarkSetFinite ==
  ASSUME NEW m, NEW ages, IsFiniteSet(ages), \A age \in ages : m[age] \in Nat
  PROVE  IsFiniteSet(MarkSet(m, ages)) /\ Cardinality(MarkSet(m, ages)) \in Nat
<1> DEFINE Column(age) == {age} \X (1 .. m[age])
           columns == {Column(age) : age \in ages}
           f == [age \in ages |-> Column(age)]
<1>1. ASSUME NEW age \in ages PROVE IsFiniteSet(Column(age))
  <2>1. IsFiniteSet(1 .. m[age])
    <3>1. 1 \in Int /\ m[age] \in Int
      OBVIOUS
    <3> QED
      BY <3>1, FS_Interval
  <2>2. IsFiniteSet({age})
    BY FS_Singleton
  <2> QED
    BY <2>1, <2>2, FS_Product
<1>2. IsFiniteSet(columns)
  <2>1. f \in Surjection(ages, columns)
    BY DEF Surjection
  <2> QED
    BY <2>1, FS_Surjection
<1>3. \A c \in columns : IsFiniteSet(c)
  BY <1>1
<1>4. IsFiniteSet(UNION columns)
  <2> HIDE DEF columns
  <2> QED
    BY <1>2, <1>3, FS_UNION
<1> QED
  BY <1>4, FS_CardinalityType DEF MarkSet

\* Fewer marks of each age, or fewer ages, are fewer marks.
LEMMA FewerMarks ==
  ASSUME NEW m, NEW n, NEW ages, NEW more, IsFiniteSet(more), ages \subseteq more,
         \A age \in more : m[age] \in Nat,
         \A age \in ages : n[age] \in Nat /\ n[age] <= m[age]
  PROVE  Cardinality(MarkSet(n, ages)) <= Cardinality(MarkSet(m, more))
<1>1. MarkSet(n, ages) \subseteq MarkSet(m, more)
  <2> SUFFICES ASSUME NEW age \in ages, NEW i \in 1 .. n[age]
               PROVE  i \in 1 .. m[age] /\ age \in more
    BY InMarkSet
  <2> QED
    OBVIOUS
<1> QED
  BY <1>1, MarkSetFinite, FS_Subset

\* One more mark of one age is one more mark.
LEMMA OneMoreMark ==
  ASSUME NEW m, NEW n, NEW ages, IsFiniteSet(ages), \A age \in ages : m[age] \in Nat,
         NEW x \in ages, n[x] = m[x] + 1, \A age \in ages : age # x => n[age] = m[age]
  PROVE  Cardinality(MarkSet(n, ages)) = Cardinality(MarkSet(m, ages)) + 1
<1> DEFINE new == <<x, m[x] + 1>>
<1>1. MarkSet(n, ages) = MarkSet(m, ages) \cup {new}
  <2>1. ASSUME NEW age \in ages, NEW i \in 1 .. n[age]
        PROVE  <<age, i>> \in MarkSet(m, ages) \cup {new}
    <3>1. CASE age = x /\ i = m[x] + 1
      BY <3>1
    <3>2. CASE i \in 1 .. m[age]
      BY <3>2, InMarkSet
    <3> QED
      BY <3>1, <3>2
  <2>2. ASSUME NEW age \in ages, NEW i \in 1 .. m[age]
        PROVE  <<age, i>> \in MarkSet(n, ages)
    <3>1. i \in 1 .. n[age]
      OBVIOUS
    <3> QED
      BY <3>1, InMarkSet
  <2>3. new \in MarkSet(n, ages)
    <3>1. m[x] + 1 \in 1 .. n[x]
      OBVIOUS
    <3> QED
      BY <3>1, InMarkSet
  <2>4. MarkSet(n, ages) \subseteq MarkSet(m, ages) \cup {new}
    BY <2>1, InMarkSet
  <2>5. MarkSet(m, ages) \subseteq MarkSet(n, ages)
    BY <2>2, InMarkSet
  <2> QED
    BY <2>3, <2>4, <2>5
<1>2. new \notin MarkSet(m, ages)
  <2> SUFFICES ASSUME NEW age \in ages, NEW i \in 1 .. m[age], new = <<age, i>>
               PROVE  FALSE
    BY InMarkSet
  <2> QED
    OBVIOUS
<1>3. IsFiniteSet(MarkSet(m, ages)) /\ Cardinality(MarkSet(m, ages)) \in Nat
  BY MarkSetFinite
<1> QED
  BY <1>1, <1>2, <1>3, FS_AddElement

\* When all marks of a window grow older none is new.
LEMMA OlderMarks ==
  ASSUME NEW m, NEW n, NEW w \in Nat, \A age \in 0 .. w - 1 : m[age] \in Nat,
         n[0] = 0, \A age \in 1 .. w - 1 : n[age] = m[age - 1]
  PROVE  Cardinality(MarkSet(n, 0 .. w - 1)) <= Cardinality(MarkSet(m, 0 .. w - 1))
<1> DEFINE A == 0 .. w - 1
           S == MarkSet(m, A)
           T == MarkSet(n, A)
           f == [e \in T |-> <<e[1] - 1, e[2]>>]
<1>1. ASSUME NEW e \in T
      PROVE  /\ e = <<e[1], e[2]>> /\ e[1] \in Int
             /\ f[e] \in S
  <2>0. PICK age \in A : \E i \in 1 .. n[age] : e = <<age, i>>
    BY InMarkSet
  <2>1. PICK i \in 1 .. n[age] : e = <<age, i>>
    BY <2>0
  <2>2. age \in 1 .. w - 1
    BY <2>1
  <2>3. age - 1 \in A /\ i \in 1 .. m[age - 1]
    BY <2>1, <2>2
  <2>4. <<age - 1, i>> \in S
    BY <2>3, InMarkSet
  <2>5. e[1] = age /\ e[2] = i
    BY <2>1
  <2>6. f[e] = <<age - 1, i>>
    BY <2>5
  <2> QED
    BY <2>1, <2>4, <2>5, <2>6
<1>2. f \in [T -> S]
  BY <1>1
<1>3. ASSUME NEW d \in T, NEW e \in T, f[d] = f[e] PROVE d = e
  <2>1. d[1] - 1 = e[1] - 1 /\ d[2] = e[2]
    BY <1>3
  <2>2. d[1] \in Int /\ e[1] \in Int
    BY <1>1
  <2>3. d[1] = e[1]
    BY <2>1, <2>2
  <2> QED
    BY <1>1, <2>1, <2>3
<1>4. f \in Injection(T, S)
  <2> HIDE DEF f, S, T
  <2> QED
    BY <1>2, <1>3 DEF Injection, IsInjective
<1>5. IsFiniteSet(S)
  <2>1. IsFiniteSet(A)
    BY FS_Interval
  <2> QED
    BY <2>1, MarkSetFinite
<1> QED
  BY <1>4, <1>5, FS_Injection

-----------------------------------------------------------------------------
(* Types, and what a step does to the windows *)

WindowsOK == DOMAIN marks = Keys /\ \A k \in Keys : marks[k] \in [Ages(k) -> Nat]

LEMMA Bounds ==
  ASSUME NEW k \in Keys
  PROVE  /\ k[1] \in Tiers
         /\ {Limit[k[1]], Window[k[1]], OldestAge[k[1]], PeekWindow, MaxLag} \subseteq Nat
         /\ Limit[k[1]] >= 1 /\ Window[k[1]] >= 1
         /\ Window[k[1]] + MaxLag <= OldestAge[k[1]]
         /\ Ages(k) = 0 .. OldestAge[k[1]]
         /\ 0 .. MaxLag \subseteq Ages(k)
         /\ 0 .. Window[k[1]] - 1 \subseteq Ages(k)
<1>1. k[1] \in Tiers
  BY DEF Keys, Tiers
<1> QED
  BY <1>1, AdmissionAssumption DEF AdmissionAssumption, Ages

LEMMA KeyOfType ==
  ASSUME AdmissionTypeOK, NEW r \in Requests
  PROVE  KeyOf(r) \in Keys /\ KeyOf(r)[1] = tier[r]
<1>1. tier[r] \in {1, 2, 3} /\ scopes[r] \in Users \X Ips \X Activities
  BY DEF AdmissionTypeOK, Tiers
<1> QED
  BY <1>1 DEF KeyOf, Keys

\* Trimming takes marks out of one window and adds none; what is younger than
\* the length it goes by stays.
LEMMA TrimKeeps ==
  ASSUME WindowsOK, NEW k \in Keys, NEW window \in Nat, NEW delay \in Nat,
         Trim(k, window, delay)
  PROVE  /\ WindowsOK'
         /\ \A j \in Keys : j # k => marks'[j] = marks[j]
         /\ \A age \in Ages(k) :
              /\ marks'[k][age] <= marks[k][age]
              /\ age < window => marks'[k][age] = marks[k][age]
<1> DEFINE trimmed == [age \in Ages(k) |-> IF age >= window + delay THEN 0 ELSE marks[k][age]]
<1>1. marks' = [marks EXCEPT ![k] = trimmed]
  BY DEF Trim
<1>2. \A age \in Ages(k) : age \in Nat /\ marks[k][age] \in Nat
  BY Bounds DEF WindowsOK
<1>3. trimmed \in [Ages(k) -> Nat]
  BY <1>2
<1>4. \A age \in Ages(k) :
        trimmed[age] <= marks[k][age] /\ (age < window => trimmed[age] = marks[k][age])
  BY <1>2
<1> HIDE DEF trimmed
<1> QED
  BY <1>1, <1>3, <1>4 DEF WindowsOK

LEMMA MarkCounts ==
  ASSUME WindowsOK, NEW k \in Keys, NEW x \in 0 .. MaxLag, AddMark(k, x)
  PROVE  /\ WindowsOK'
         /\ \A j \in Keys : j # k => marks'[j] = marks[j]
         /\ marks'[k][x] = marks[k][x] + 1
         /\ \A age \in Ages(k) : age # x => marks'[k][age] = marks[k][age]
<1> DEFINE marked == [marks[k] EXCEPT ![x] = @ + 1]
<1>1. x \in Ages(k)
  BY Bounds
<1>2. marks' = [marks EXCEPT ![k] = marked]
  BY DEF AddMark
<1>3. /\ marked \in [Ages(k) -> Nat]
      /\ marked[x] = marks[k][x] + 1
      /\ \A age \in Ages(k) : age # x => marked[age] = marks[k][age]
  BY <1>1 DEF WindowsOK
<1> HIDE DEF marked
<1> QED
  BY <1>2, <1>3 DEF WindowsOK

\* A tick makes every mark one older and gathers the oldest.
LEMMA TickAges ==
  ASSUME WindowsOK, Tick
  PROVE  /\ WindowsOK'
         /\ \A k \in Keys : /\ marks'[k][0] = 0
                            /\ \A age \in 1 .. Window[k[1]] - 1 :
                                 marks'[k][age] = marks[k][age - 1]
<1> DEFINE Older(k) == [age \in Ages(k) |->
                          CASE age = 0 -> 0
                            [] age = OldestAge[k[1]] -> marks[k][age - 1] + marks[k][age]
                            [] OTHER -> marks[k][age - 1]]
<1>1. marks' = [k \in Keys |-> Older(k)]
  BY DEF Tick
<1>2. ASSUME NEW k \in Keys
      PROVE  /\ Older(k) \in [Ages(k) -> Nat]
             /\ Older(k)[0] = 0
             /\ \A age \in 1 .. Window[k[1]] - 1 : Older(k)[age] = marks[k][age - 1]
  <2>1. /\ OldestAge[k[1]] \in Nat /\ OldestAge[k[1]] >= 1
        /\ Window[k[1]] \in Nat /\ Window[k[1]] <= OldestAge[k[1]]
        /\ Ages(k) = 0 .. OldestAge[k[1]]
    BY Bounds
  <2>2. marks[k] \in [0 .. OldestAge[k[1]] -> Nat]
    BY <2>1 DEF WindowsOK
  <2>3. ASSUME NEW age \in Ages(k)
        PROVE  /\ age = 0 => Older(k)[age] = 0
               /\ age = OldestAge[k[1]] => Older(k)[age] = marks[k][age - 1] + marks[k][age]
               /\ age \in 1 .. OldestAge[k[1]] - 1 => Older(k)[age] = marks[k][age - 1]
    BY <2>1
  <2>4. ASSUME NEW age \in Ages(k) PROVE Older(k)[age] \in Nat
    <3>1. age = 0 \/ age = OldestAge[k[1]] \/ age \in 1 .. OldestAge[k[1]] - 1
      BY <2>1
    <3>2. age # 0 => marks[k][age] \in Nat /\ marks[k][age - 1] \in Nat
      BY <2>1, <2>2
    <3> QED
      BY <2>1, <2>3, <3>1, <3>2
  <2>5. Older(k) \in [Ages(k) -> Nat]
    BY <2>4
  <2>6. Older(k)[0] = 0
    BY <2>1, <2>3
  <2>7. ASSUME NEW age \in 1 .. Window[k[1]] - 1 PROVE Older(k)[age] = marks[k][age - 1]
    <3>1. age \in Ages(k) /\ age \in 1 .. OldestAge[k[1]] - 1
      BY <2>1
    <3> QED
      BY <2>3, <3>1
  <2> QED
    BY <2>5, <2>6, <2>7
<1> HIDE DEF Older
<1> QED
  BY <1>1, <1>2 DEF WindowsOK

\* The commands that write marks.
LEMMA MarkSteps ==
  ASSUME AdmissionTypeOK, [Next]_vars
  PROVE  \/ UNCHANGED marks
         \/ \E r \in Requests : TrimWindow(r) \/ MarkWindow(r)
         \/ \E k \in Keys : PeekBudget(k)
         \/ Tick
BY DEF Next, RequestStep, Arrive, CountWindow, LookUpChallenge, RefuseChallenge,
       ConsumeChallenge, Fail, IssueChallenge, ChallengeExpires, vars

LEMMA WindowsStep ==
  ASSUME AdmissionTypeOK, [Next]_vars
  PROVE  WindowsOK'
<1>1. WindowsOK
  BY DEF AdmissionTypeOK, WindowsOK
<1>2. ASSUME NEW r \in Requests, TrimWindow(r) PROVE WindowsOK'
  <2>1. KeyOf(r) \in Keys /\ KeyOf(r)[1] = tier[r] /\ Window[tier[r]] \in Nat
    BY KeyOfType, Bounds
  <2>2. lag[r] \in Nat
    BY AdmissionAssumption DEF AdmissionTypeOK, AdmissionAssumption
  <2> QED
    BY <1>1, <1>2, <2>1, <2>2, TrimKeeps DEF TrimWindow
<1>3. ASSUME NEW r \in Requests, MarkWindow(r) PROVE WindowsOK'
  BY <1>1, <1>3, KeyOfType, MarkCounts DEF MarkWindow, AdmissionTypeOK
<1>4. ASSUME NEW k \in Keys, PeekBudget(k) PROVE WindowsOK'
  BY <1>1, <1>4, Bounds, TrimKeeps DEF PeekBudget
<1>5. CASE UNCHANGED marks
  BY <1>1, <1>5 DEF WindowsOK
<1> QED
  BY <1>1, <1>2, <1>3, <1>4, <1>5, MarkSteps, TickAges

RequestsOK ==
  /\ pc \in [Requests -> Places]
  /\ scopes \in [Requests -> Users \X Ips \X Activities]
  /\ tier \in [Requests -> Tiers]
  /\ lag \in [Requests -> 0 .. MaxLag]
  /\ header \in [Requests -> Challenges \cup {NoChallenge}]
  /\ live \subseteq Challenges
  /\ attempts \in [Challenges -> Nat]

LEMMA FinishType ==
  ASSUME RequestsOK, NEW r \in Requests, Finish(r)
  PROVE  /\ pc' \in [Requests -> Places]
         /\ UNCHANGED scopes
         /\ tier' \in [Requests -> Tiers]
         /\ lag' \in [Requests -> 0 .. MaxLag]
         /\ header' \in [Requests -> Challenges \cup {NoChallenge}]
BY AdmissionAssumption DEF RequestsOK, Finish, Goto, Places, Tiers, AdmissionAssumption

LEMMA RequestsStep ==
  ASSUME RequestsOK, [Next]_vars
  PROVE  RequestsOK'
<1>0. 0 \in 0 .. MaxLag
  BY AdmissionAssumption DEF AdmissionAssumption
<1>1. ASSUME NEW r \in Requests, NEW s \in Users \X Ips \X Activities, Arrive(r, s)
      PROVE  RequestsOK'
  BY <1>1 DEF Arrive, Goto, RequestsOK, Places
<1>2. ASSUME NEW r \in Requests, TrimWindow(r) PROVE RequestsOK'
  BY <1>2 DEF TrimWindow, Goto, RequestsOK, Places, requestVars
<1>3. ASSUME NEW r \in Requests, CountWindow(r) PROVE RequestsOK'
  BY <1>3, FinishType DEF CountWindow, Goto, RequestsOK, Places, requestVars
<1>4. ASSUME NEW r \in Requests, MarkWindow(r) PROVE RequestsOK'
  <2>1. ASSUME ~LastTier(r) PROVE tier[r] + 1 \in Tiers
    BY <2>1 DEF LastTier, RequestsOK, Tiers
  <2> QED
    BY <1>0, <1>4, <2>1, FinishType DEF MarkWindow, Goto, RequestsOK, Places
<1>5. ASSUME NEW r \in Requests, NEW c \in Challenges, LookUpChallenge(r, c)
      PROVE  RequestsOK'
  BY <1>5 DEF LookUpChallenge, Goto, RequestsOK, Places
<1>6. ASSUME NEW r \in Requests, RefuseChallenge(r) \/ Fail(r) PROVE RequestsOK'
  BY <1>6, FinishType DEF RefuseChallenge, Fail, RequestsOK
<1>7. ASSUME NEW r \in Requests, ConsumeChallenge(r) PROVE RequestsOK'
  <2>1. attempts' \in [Challenges -> Nat]
    <3>1. PICK h : h = header[r]
      OBVIOUS
    <3>2. attempts' = [attempts EXCEPT ![h] = attempts[h] + 1]
      BY <1>7, <3>1 DEF ConsumeChallenge
    <3>3. h \in Challenges => attempts[h] + 1 \in Nat
      BY DEF RequestsOK
    <3>4. \A c \in Challenges : attempts'[c] \in Nat
      BY <3>2, <3>3 DEF RequestsOK
    <3>5. attempts' = [c \in Challenges |-> attempts'[c]]
      BY <3>2 DEF RequestsOK
    <3> QED
      BY <3>4, <3>5
  <2>2. live' \subseteq Challenges
    BY <1>7 DEF ConsumeChallenge, RequestsOK
  <2> QED
    BY <1>7, <2>1, <2>2, FinishType DEF ConsumeChallenge, RequestsOK
<1>8. ASSUME NEW c \in Challenges, IssueChallenge(c) \/ ChallengeExpires(c)
      PROVE  RequestsOK'
  BY <1>8 DEF IssueChallenge, ChallengeExpires, RequestsOK, requestVars
<1>9. ASSUME NEW k \in Keys, PeekBudget(k) PROVE RequestsOK'
  BY <1>9 DEF PeekBudget, RequestsOK, requestVars
<1>10. CASE Tick
  <2>1. \A r \in Requests : UsesClock(r) => lag[r] + 1 \in 0 .. MaxLag
    BY <1>10, AdmissionAssumption DEF Tick, RequestsOK, AdmissionAssumption
  <2> QED
    BY <1>10, <2>1 DEF Tick, RequestsOK
<1>11. CASE UNCHANGED vars
  BY <1>11 DEF vars, RequestsOK
<1> QED
  BY <1>1, <1>2, <1>3, <1>4, <1>5, <1>6, <1>7, <1>8, <1>9, <1>10, <1>11
  DEF Next, RequestStep

LEMMA TypeStep ==
  ASSUME AdmissionTypeOK, [Next]_vars
  PROVE  AdmissionTypeOK'
BY WindowsStep, RequestsStep DEF AdmissionTypeOK, WindowsOK, RequestsOK

LEMMA TypeInit == Init => AdmissionTypeOK
BY AdmissionAssumption DEF Init, AdmissionTypeOK, AdmissionAssumption, Places, Tiers

LEMMA TypeAlways == Spec => []AdmissionTypeOK
BY TypeInit, TypeStep, PTL DEF Spec

\* Types of the admission: in particular, no clock reading outgrows the bound
\* that the oldest age is chosen by, and no tier lies behind the last one
\* (rate_limit.py 92-101).
THEOREM AdmissionTypeCorrect == Spec => []AdmissionTypeOK
BY TypeAlways

-----------------------------------------------------------------------------
(* Marks stay in their window *)

LEMMA MarksKeptStep ==
  ASSUME AdmissionTypeOK, [Next]_vars, ~Tick,
         NEW k \in Keys, NEW age \in 0 .. Window[k[1]] - 1
  PROVE  marks'[k][age] >= marks[k][age] \/ (PeekBudget(k) /\ age >= PeekWindow)
<1>1. WindowsOK
  BY DEF AdmissionTypeOK, WindowsOK
<1>2. age \in Ages(k) /\ age \in Nat /\ marks[k][age] \in Nat
  BY <1>1, Bounds DEF WindowsOK
<1>3. ASSUME NEW r \in Requests, TrimWindow(r) PROVE marks'[k][age] = marks[k][age]
  <2>1. KeyOf(r) \in Keys /\ KeyOf(r)[1] = tier[r] /\ Window[tier[r]] \in Nat
    BY KeyOfType, Bounds
  <2>2. lag[r] \in Nat
    BY AdmissionAssumption DEF AdmissionTypeOK, AdmissionAssumption
  <2>3. /\ \A j \in Keys : j # KeyOf(r) => marks'[j] = marks[j]
        /\ \A x \in Ages(KeyOf(r)) :
             x < Window[tier[r]] => marks'[KeyOf(r)][x] = marks[KeyOf(r)][x]
    BY <1>1, <1>3, <2>1, <2>2, TrimKeeps DEF TrimWindow
  <2>4. KeyOf(r) = k => age < Window[tier[r]]
    BY <2>1
  <2> QED
    BY <1>2, <2>3, <2>4
<1>4. ASSUME NEW r \in Requests, MarkWindow(r) PROVE marks'[k][age] >= marks[k][age]
  <2>1. /\ \A j \in Keys : j # KeyOf(r) => marks'[j] = marks[j]
        /\ marks'[KeyOf(r)][lag[r]] = marks[KeyOf(r)][lag[r]] + 1
        /\ \A x \in Ages(KeyOf(r)) : x # lag[r] => marks'[KeyOf(r)][x] = marks[KeyOf(r)][x]
    BY <1>1, <1>4, KeyOfType, MarkCounts DEF MarkWindow, AdmissionTypeOK
  <2> QED
    BY <1>2, <2>1
<1>5. ASSUME NEW j \in Keys, PeekBudget(j)
      PROVE  marks'[k][age] = marks[k][age] \/ (PeekBudget(k) /\ age >= PeekWindow)
  <2>1. PeekWindow \in Nat
    BY Bounds
  <2>2. /\ \A i \in Keys : i # j => marks'[i] = marks[i]
        /\ \A x \in Ages(j) : x < PeekWindow => marks'[j][x] = marks[j][x]
    BY <1>1, <1>5, <2>1, TrimKeeps DEF PeekBudget
  <2>3. CASE age < PeekWindow
    BY <1>2, <2>2, <2>3
  <2>4. CASE age >= PeekWindow
    BY <1>5, <2>2, <2>4
  <2> QED
    BY <1>2, <2>1, <2>3, <2>4
<1> QED
  BY <1>2, <1>3, <1>4, <1>5, MarkSteps

\* However late a request is with the clock it has read and whoever else trims
\* the same window (rate_limit.py 46): a mark counts against its user, address
\* or activity for as long as the window lasts, unless the diagnostic route is
\* asked for a window configured to be longer than its own sixty seconds (134).
THEOREM MarksStay == Spec => MarksKept
<1>1. AdmissionTypeOK /\ [Next]_vars
        => [\/ Tick
            \/ \A k \in Keys : \A age \in 0 .. Window[k[1]] - 1 :
                 \/ marks'[k][age] >= marks[k][age]
                 \/ PeekBudget(k) /\ age >= PeekWindow]_vars
  BY MarksKeptStep
<1> QED
  BY <1>1, TypeAlways, PTL DEF Spec, MarksKept

-----------------------------------------------------------------------------
(* How often a challenge is guessed *)

Holders(c) == {r \in Requests : header[r] = c}

\* What makes GuessesBounded inductive: a challenge whose answer can still be
\* looked up has been compared with none, and each request that has looked it up
\* compares once.
GuessesLeft ==
  \A c \in Challenges :
    /\ c \in live => attempts[c] = 0
    /\ attempts[c] + Cardinality(Holders(c)) <= Cardinality(Requests)

LEMMA RequestsFinite ==
  ASSUME NEW S \in SUBSET Requests
  PROVE  /\ IsFiniteSet(S) /\ Cardinality(S) \in Nat
         /\ Cardinality(Requests) \in Nat /\ Cardinality(S) <= Cardinality(Requests)
BY AdmissionAssumption, FS_Subset, FS_CardinalityType DEF AdmissionAssumption

LEMMA FewerHolders ==
  ASSUME NEW c, Holders(c)' \subseteq Holders(c)
  PROVE  Cardinality(Holders(c)') <= Cardinality(Holders(c))
<1>1. Holders(c) \in SUBSET Requests
  BY DEF Holders
<1> QED
  BY <1>1, RequestsFinite, FS_Subset

LEMMA HoldersCount ==
  \A c : Cardinality(Holders(c)) \in Nat /\ Cardinality(Holders(c)') \in Nat
<1>1. \A c : Holders(c) \in SUBSET Requests /\ Holders(c)' \in SUBSET Requests
  BY DEF Holders
<1> QED
  BY <1>1, RequestsFinite

\* Besides the look, the comparison and the issue of a challenge no step touches
\* any, except that a request may end and one may expire.
LEMMA ChallengeSteps ==
  ASSUME RequestsOK, [Next]_vars
  PROVE  \/ /\ UNCHANGED attempts /\ live' \subseteq live
            /\ \/ UNCHANGED header
               \/ \E r \in Requests : header' = [header EXCEPT ![r] = NoChallenge]
         \/ \E r \in Requests :
              ConsumeChallenge(r) \/ \E c \in Challenges : LookUpChallenge(r, c)
         \/ \E c \in Challenges : IssueChallenge(c)
<1> DEFINE Leaves(r) == /\ UNCHANGED <<attempts, live>>
                        /\ \/ UNCHANGED header
                           \/ header' = [header EXCEPT ![r] = NoChallenge]
<1>1. ASSUME NEW r \in Requests, CountWindow(r) PROVE Leaves(r)
  BY <1>1 DEF CountWindow, Finish, requestVars
<1>2. ASSUME NEW r \in Requests, MarkWindow(r) PROVE Leaves(r)
  BY <1>2 DEF MarkWindow, Finish
<1>3. ASSUME NEW r \in Requests, RefuseChallenge(r) \/ Fail(r) PROVE Leaves(r)
  BY <1>3 DEF RefuseChallenge, Fail, Finish
<1>4. ASSUME NEW r \in Requests,
             \/ \E s \in Users \X Ips \X Activities : Arrive(r, s)
             \/ TrimWindow(r)
      PROVE  Leaves(r)
  BY <1>4 DEF Arrive, TrimWindow, requestVars
<1> QED
  BY <1>1, <1>2, <1>3, <1>4
  DEF Next, RequestStep, ChallengeExpires, PeekBudget, Tick, requestVars, vars

LEMMA GuessesLeftStep ==
  ASSUME RequestsOK, GuessesLeft, [Next]_vars
  PROVE  GuessesLeft'
<1>1. NoChallenge \notin Challenges
  BY AdmissionAssumption DEF AdmissionAssumption
<1>2. /\ Cardinality(Requests) \in Nat
      /\ \A c \in Challenges : attempts[c] \in Nat
  BY RequestsFinite DEF RequestsOK
<1>3. CASE /\ UNCHANGED attempts /\ live' \subseteq live
           /\ \/ UNCHANGED header
              \/ \E r \in Requests : header' = [header EXCEPT ![r] = NoChallenge]
  <2>1. \A c \in Challenges : Holders(c)' \subseteq Holders(c)
    BY <1>1, <1>3 DEF Holders, RequestsOK
  <2>2. \A c \in Challenges : Cardinality(Holders(c)') <= Cardinality(Holders(c))
    BY <2>1, FewerHolders
  <2> QED
    BY <1>2, <1>3, <2>2, HoldersCount DEF GuessesLeft
<1>4. ASSUME NEW r \in Requests, ConsumeChallenge(r) PROVE GuessesLeft'
  <2>1. PICK h \in Challenges \cup {NoChallenge} : h = header[r]
    BY DEF RequestsOK
  <2>2. /\ live' = live \ {h}
        /\ attempts' = [attempts EXCEPT ![h] = attempts[h] + 1]
        /\ header' = [header EXCEPT ![r] = NoChallenge]
    BY <1>4, <2>1 DEF ConsumeChallenge, Finish
  <2>3. ASSUME NEW c \in Challenges
        PROVE  /\ c \in live' => attempts'[c] = 0
               /\ attempts'[c] + Cardinality(Holders(c)') <= Cardinality(Requests)
    <3>1. CASE c = h
      <4>1. Holders(c)' = Holders(c) \ {r} /\ r \in Holders(c)
        BY <1>1, <2>1, <2>2, <3>1 DEF Holders, RequestsOK
      <4>2. IsFiniteSet(Holders(c))
        BY RequestsFinite DEF Holders
      <4>3. Cardinality(Holders(c)') = Cardinality(Holders(c)) - 1
        BY <4>1, <4>2, FS_RemoveElement
      <4>4. attempts'[c] = attempts[c] + 1
        BY <2>2, <3>1 DEF RequestsOK
      <4> QED
        BY <1>2, <2>2, <3>1, <4>3, <4>4, HoldersCount DEF GuessesLeft
    <3>2. CASE c # h
      <4>1. Holders(c)' \subseteq Holders(c)
        BY <1>1, <2>1, <2>2 DEF Holders, RequestsOK
      <4>2. Cardinality(Holders(c)') <= Cardinality(Holders(c))
        BY <4>1, FewerHolders
      <4>3. attempts'[c] = attempts[c]
        BY <2>2, <3>2 DEF RequestsOK
      <4> QED
        BY <1>2, <2>2, <4>2, <4>3, HoldersCount DEF GuessesLeft
    <3> QED
      BY <3>1, <3>2
  <2> QED
    BY <2>3 DEF GuessesLeft
<1>5. ASSUME NEW r \in Requests, NEW h \in Challenges, LookUpChallenge(r, h)
      PROVE  GuessesLeft'
  <2>1. /\ h \in live /\ UNCHANGED <<live, attempts>>
        /\ header' = [header EXCEPT ![r] = h]
    BY <1>5 DEF LookUpChallenge
  <2>2. ASSUME NEW c \in Challenges
        PROVE  attempts[c] + Cardinality(Holders(c)') <= Cardinality(Requests)
    <3>1. CASE c = h
      <4>1. attempts[c] = 0
        BY <2>1, <3>1 DEF GuessesLeft
      <4>2. Cardinality(Holders(c)') <= Cardinality(Requests)
        BY RequestsFinite DEF Holders
      <4> QED
        BY <1>2, <4>1, <4>2, HoldersCount
    <3>2. CASE c # h
      <4>1. Holders(c)' \subseteq Holders(c)
        BY <2>1, <3>2 DEF Holders, RequestsOK
      <4>2. Cardinality(Holders(c)') <= Cardinality(Holders(c))
        BY <4>1, FewerHolders
      <4> QED
        BY <1>2, <4>2, HoldersCount DEF GuessesLeft
    <3> QED
      BY <3>1, <3>2
  <2> QED
    BY <2>1, <2>2 DEF GuessesLeft
<1>6. ASSUME NEW h \in Challenges, IssueChallenge(h) PROVE GuessesLeft'
  <2>1. /\ live' = live \cup {h} /\ UNCHANGED header
        /\ attempts' = [attempts EXCEPT ![h] = 0]
    BY <1>6 DEF IssueChallenge, requestVars
  <2>2. \A c : Holders(c)' = Holders(c)
    BY <2>1 DEF Holders
  <2>3. Cardinality(Holders(h)) <= Cardinality(Requests)
    BY RequestsFinite DEF Holders
  <2> QED
    BY <1>2, <2>1, <2>2, <2>3, HoldersCount DEF GuessesLeft, RequestsOK
<1> QED
  BY <1>3, <1>4, <1>5, <1>6, ChallengeSteps

LEMMA GuessesLeftInit == Init => GuessesLeft
<1> SUFFICES ASSUME Init PROVE GuessesLeft
  OBVIOUS
<1>1. \A c \in Challenges : attempts[c] = 0 /\ Cardinality(Holders(c)) <= Cardinality(Requests)
  BY RequestsFinite DEF Init, Holders
<1> QED
  BY <1>1, HoldersCount DEF GuessesLeft

LEMMA GuessesLeftBound ==
  ASSUME RequestsOK, GuessesLeft
  PROVE  GuessesBounded
<1>1. \A c \in Challenges : attempts[c] \in Nat
  BY DEF RequestsOK
<1> QED
  BY <1>1, HoldersCount, RequestsFinite DEF GuessesLeft, GuessesBounded

\* A challenge that many requests answer at once is compared with the answers of
\* those that had looked it up before the first one deleted it, and with no other:
\* the bound is the number of requests under way, not the number of tries
\* (rate_limit.py 119-127).
THEOREM GuessesAreBounded == Spec => []GuessesBounded
<1>1. AdmissionTypeOK => RequestsOK
  BY DEF AdmissionTypeOK, RequestsOK
<1> QED
  BY <1>1, TypeAlways, GuessesLeftInit, GuessesLeftStep, GuessesLeftBound, PTL DEF Spec

-----------------------------------------------------------------------------
(* How far a window is overrun *)

\* Requests that have counted a window and not marked it yet.
Marking(k) == {r \in Requests : pc[r] = "mark" /\ KeyOf(r) = k}

\* What makes OvershootBounded inductive: whoever is about to mark has found a
\* place free, and is a request being handled.
OvershootInv ==
  \A k \in Keys :
    Fresh(k) + Cardinality(Marking(k)) <= Limit[k[1]] + Cardinality(Requests) - 1

FreshAges(k) == 0 .. Window[k[1]] - 1

\* Counts are numbers, and a window's fresh marks are among all its marks.
LEMMA FreshCount ==
  WindowsOK => \A k \in Keys : Fresh(k) \in Nat /\ Size(k) \in Nat /\ Fresh(k) <= Size(k)
<1> SUFFICES ASSUME WindowsOK, NEW k \in Keys
             PROVE  Fresh(k) \in Nat /\ Size(k) \in Nat /\ Fresh(k) <= Size(k)
  OBVIOUS
<1>1. /\ FreshAges(k) \subseteq Ages(k)
      /\ IsFiniteSet(Ages(k)) /\ IsFiniteSet(FreshAges(k))
      /\ \A age \in Ages(k) : marks[k][age] \in Nat
  <2>1. /\ Ages(k) = 0 .. OldestAge[k[1]] /\ FreshAges(k) \subseteq Ages(k)
        /\ {Window[k[1]], OldestAge[k[1]]} \subseteq Nat
    BY Bounds DEF FreshAges
  <2>2. IsFiniteSet(Ages(k))
    BY <2>1, FS_Interval
  <2>3. IsFiniteSet(FreshAges(k))
    BY <2>1, <2>2, FS_Subset
  <2> QED
    BY <2>1, <2>2, <2>3 DEF WindowsOK
<1>2. Fresh(k) = Cardinality(MarkSet(marks[k], FreshAges(k)))
  BY CountOfMarkSet DEF Fresh, FreshAges
<1>3. Size(k) = Cardinality(MarkSet(marks[k], Ages(k)))
  BY CountOfMarkSet DEF Size
<1>4. Fresh(k) \in Nat /\ Size(k) \in Nat
  BY <1>1, <1>2, <1>3, MarkSetFinite
<1>5. \A age \in FreshAges(k) : marks[k][age] <= marks[k][age]
  BY <1>1
<1> QED
  BY <1>1, <1>2, <1>3, <1>4, <1>5, FewerMarks

LEMMA FreshCountNext == WindowsOK' => \A k \in Keys : Fresh(k)' \in Nat
<1>1. WindowsOK => \A k \in Keys : Fresh(k) \in Nat
  BY FreshCount
<1>2. (WindowsOK => \A k \in Keys : Fresh(k) \in Nat)'
  BY <1>1, PTL
<1> QED
  BY <1>2

\* The fresh marks after a step, by the marks of each age.
LEMMA FreshNext ==
  ASSUME NEW k \in Keys
  PROVE  Fresh(k)' = Cardinality(MarkSet(marks'[k], FreshAges(k)))
BY DEF Fresh, CountOf, MarkSet, FreshAges

LEMMA FreshFewer ==
  ASSUME WindowsOK, WindowsOK', NEW k \in Keys,
         \A age \in FreshAges(k) : marks'[k][age] <= marks[k][age]
  PROVE  Fresh(k)' <= Fresh(k)
<1>1. /\ IsFiniteSet(FreshAges(k))
      /\ \A age \in FreshAges(k) : marks[k][age] \in Nat /\ marks'[k][age] \in Nat
  <2>1. FreshAges(k) \subseteq Ages(k) /\ Window[k[1]] \in Nat
    BY Bounds DEF FreshAges
  <2>2. IsFiniteSet(FreshAges(k))
    <3>1. Window[k[1]] - 1 \in Int
      BY <2>1
    <3> QED
      BY <3>1, FS_Interval DEF FreshAges
  <2> QED
    BY <2>1, <2>2 DEF WindowsOK
<1>2. Fresh(k) = Cardinality(MarkSet(marks[k], FreshAges(k)))
  BY CountOfMarkSet DEF Fresh, FreshAges
<1> QED
  BY <1>1, <1>2, FreshNext, FewerMarks

LEMMA FreshOneMore ==
  ASSUME WindowsOK, WindowsOK', NEW k \in Keys, NEW x \in Ages(k),
         marks'[k][x] = marks[k][x] + 1,
         \A age \in Ages(k) : age # x => marks'[k][age] = marks[k][age]
  PROVE  Fresh(k)' <= Fresh(k) + 1
<1>1. /\ IsFiniteSet(FreshAges(k)) /\ FreshAges(k) \subseteq Ages(k)
      /\ \A age \in FreshAges(k) : marks[k][age] \in Nat
  <2>1. FreshAges(k) \subseteq Ages(k) /\ Window[k[1]] \in Nat
    BY Bounds DEF FreshAges
  <2>2. IsFiniteSet(FreshAges(k))
    <3>1. Window[k[1]] - 1 \in Int
      BY <2>1
    <3> QED
      BY <3>1, FS_Interval DEF FreshAges
  <2> QED
    BY <2>1, <2>2 DEF WindowsOK
<1>2. Fresh(k) = Cardinality(MarkSet(marks[k], FreshAges(k))) /\ Fresh(k) \in Nat
  BY CountOfMarkSet, FreshCount DEF Fresh, FreshAges
<1>3. CASE x \in FreshAges(k)
  <2>1. Cardinality(MarkSet(marks'[k], FreshAges(k)))
          = Cardinality(MarkSet(marks[k], FreshAges(k))) + 1
    BY <1>1, <1>3, OneMoreMark
  <2> QED
    BY <1>2, <2>1, FreshNext
<1>4. CASE x \notin FreshAges(k)
  <2>1. \A age \in FreshAges(k) : marks'[k][age] <= marks[k][age]
    BY <1>1, <1>4
  <2>2. Fresh(k)' <= Fresh(k)
    BY <2>1, FreshFewer
  <2>3. Fresh(k)' \in Nat
    <3>1. WindowsOK' => \A j \in Keys : Fresh(j)' \in Nat
      BY FreshCountNext
    <3> QED
      BY <3>1
  <2> QED
    BY <1>2, <2>2, <2>3
<1> QED
  BY <1>3, <1>4

LEMMA FreshTick ==
  ASSUME WindowsOK, Tick, NEW k \in Keys
  PROVE  Fresh(k)' <= Fresh(k)
<1>1. /\ marks'[k][0] = 0
      /\ \A age \in 1 .. Window[k[1]] - 1 : marks'[k][age] = marks[k][age - 1]
  BY TickAges
<1>2. /\ Window[k[1]] \in Nat
      /\ \A age \in 0 .. Window[k[1]] - 1 : marks[k][age] \in Nat
  BY Bounds DEF WindowsOK
<1>3. Fresh(k) = Cardinality(MarkSet(marks[k], 0 .. Window[k[1]] - 1))
  BY CountOfMarkSet DEF Fresh
<1>4. Fresh(k)' = Cardinality(MarkSet(marks'[k], 0 .. Window[k[1]] - 1))
  BY FreshNext DEF FreshAges
<1> QED
  BY <1>1, <1>2, <1>3, <1>4, OlderMarks

LEMMA MarkingCount ==
  \A k : /\ IsFiniteSet(Marking(k))
         /\ {Cardinality(Marking(k)), Cardinality(Marking(k)'), Cardinality(Requests)}
              \subseteq Nat
         /\ Cardinality(Marking(k)) <= Cardinality(Requests)
         /\ Cardinality(Marking(k)') <= Cardinality(Requests)
<1>1. \A k : Marking(k) \in SUBSET Requests /\ Marking(k)' \in SUBSET Requests
  BY DEF Marking
<1> QED
  BY <1>1, RequestsFinite

\* A window with no more fresh marks and nobody new about to mark it is fine.
LEMMA WindowKept ==
  ASSUME WindowsOK, WindowsOK', OvershootInv, NEW k \in Keys,
         Fresh(k)' <= Fresh(k), Marking(k)' \subseteq Marking(k)
  PROVE  Fresh(k)' + Cardinality(Marking(k)') <= Limit[k[1]] + Cardinality(Requests) - 1
<1>1. Cardinality(Marking(k)') <= Cardinality(Marking(k))
  BY MarkingCount, FS_Subset
<1>2. {Fresh(k), Fresh(k)', Limit[k[1]]} \subseteq Nat
  BY FreshCount, FreshCountNext, Bounds
<1> QED
  BY <1>1, <1>2, MarkingCount DEF OvershootInv

\* Only a request that has found a place comes to mark, and no other changes the
\* window it is at.
LEMMA MarkingSteps ==
  ASSUME RequestsOK, [Next]_vars,
         NEW r \in Requests, pc'[r] = "mark"
  PROVE  \/ pc[r] = "mark" /\ KeyOf(r)' = KeyOf(r)
         \/ /\ CountWindow(r) /\ Size(KeyOf(r)) < Limit[tier[r]]
            /\ UNCHANGED <<marks, scopes, tier>>
            /\ pc' = [pc EXCEPT ![r] = "mark"]
<1>1. ASSUME NEW q \in Requests, NEW place, place # "mark",
             pc' = [pc EXCEPT ![q] = place],
             \A s \in Requests : s # q => tier'[s] = tier[s] /\ scopes'[s] = scopes[s]
      PROVE  pc[r] = "mark" /\ KeyOf(r)' = KeyOf(r)
  BY <1>1 DEF KeyOf, RequestsOK
<1>2. ASSUME NEW q \in Requests, Finish(q)
      PROVE  pc[r] = "mark" /\ KeyOf(r)' = KeyOf(r)
  <2>1. \A s \in Requests : s # q => tier'[s] = tier[s] /\ scopes'[s] = scopes[s]
    BY <1>2 DEF Finish, RequestsOK
  <2> QED
    BY <1>1, <1>2, <2>1 DEF Finish, Goto
<1>3. ASSUME NEW q \in Requests, NEW s \in Users \X Ips \X Activities, Arrive(q, s)
      PROVE  pc[r] = "mark" /\ KeyOf(r)' = KeyOf(r)
  <2>1. \A p \in Requests : p # q => tier'[p] = tier[p] /\ scopes'[p] = scopes[p]
    BY <1>3 DEF Arrive, RequestsOK
  <2> QED
    BY <1>1, <1>3, <2>1 DEF Arrive, Goto
<1>4. ASSUME NEW q \in Requests,
             TrimWindow(q) \/ \E c \in Challenges : LookUpChallenge(q, c)
      PROVE  pc[r] = "mark" /\ KeyOf(r)' = KeyOf(r)
  BY <1>1, <1>4 DEF TrimWindow, LookUpChallenge, Goto, requestVars
<1>5. ASSUME NEW q \in Requests, MarkWindow(q)
      PROVE  pc[r] = "mark" /\ KeyOf(r)' = KeyOf(r)
  <2>1. CASE Finish(q)
    BY <1>2, <2>1
  <2>2. CASE ~Finish(q)
    <3>1. \A s \in Requests : s # q => tier'[s] = tier[s] /\ scopes'[s] = scopes[s]
      BY <1>5, <2>2 DEF MarkWindow, RequestsOK
    <3> QED
      BY <1>1, <1>5, <2>2, <3>1 DEF MarkWindow, Goto
  <2> QED
    BY <2>1, <2>2
<1>6. ASSUME NEW q \in Requests, RefuseChallenge(q) \/ ConsumeChallenge(q) \/ Fail(q)
      PROVE  pc[r] = "mark" /\ KeyOf(r)' = KeyOf(r)
  BY <1>2, <1>6 DEF RefuseChallenge, ConsumeChallenge, Fail
<1>7. ASSUME NEW q \in Requests, CountWindow(q)
      PROVE  \/ pc[r] = "mark" /\ KeyOf(r)' = KeyOf(r)
             \/ /\ q = r /\ Size(KeyOf(r)) < Limit[tier[r]]
                /\ UNCHANGED <<marks, scopes, tier>>
                /\ pc' = [pc EXCEPT ![r] = "mark"]
  <2>1. CASE Finish(q)
    BY <1>2, <2>1
  <2>2. CASE /\ Size(KeyOf(q)) < Limit[tier[q]]
             /\ Goto(q, "mark")
             /\ UNCHANGED <<marks, requestVars>>
    BY <2>2 DEF Goto, RequestsOK, requestVars, KeyOf
  <2> QED
    BY <1>7, <2>1, <2>2 DEF CountWindow
<1>8. CASE UNCHANGED <<pc, tier, scopes>>
  BY <1>8 DEF KeyOf
<1> QED
  BY <1>3, <1>4, <1>5, <1>6, <1>7, <1>8
  DEF Next, RequestStep, IssueChallenge, ChallengeExpires, PeekBudget, Tick, requestVars,
      vars

LEMMA OvershootStep ==
  ASSUME AdmissionTypeOK, OvershootInv, [Next]_vars
  PROVE  OvershootInv'
<1> SUFFICES ASSUME NEW k \in Keys
             PROVE  Fresh(k)' + Cardinality(Marking(k)')
                      <= Limit[k[1]] + Cardinality(Requests) - 1
  BY DEF OvershootInv
<1>1. WindowsOK /\ WindowsOK' /\ RequestsOK
  BY WindowsStep DEF AdmissionTypeOK, WindowsOK, RequestsOK
<1>2. {Fresh(k), Fresh(k)', Size(k), Limit[k[1]]} \subseteq Nat /\ Fresh(k) <= Size(k)
  BY <1>1, FreshCount, FreshCountNext, Bounds
<1>3. CASE \E r \in Requests : r \in Marking(k)' /\ r \notin Marking(k)
  <2>1. PICK r \in Requests : r \in Marking(k)' /\ r \notin Marking(k)
    BY <1>3
  <2>2. /\ Size(KeyOf(r)) < Limit[tier[r]] /\ UNCHANGED <<marks, scopes, tier>>
        /\ KeyOf(r)' = k
    BY <1>1, <2>1, MarkingSteps DEF Marking
  <2>3. Size(k) < Limit[k[1]] /\ UNCHANGED marks
    BY <2>2, KeyOfType DEF KeyOf
  <2>4. Fresh(k)' = Fresh(k)
    BY <2>3 DEF Fresh, CountOf
  <2> QED
    BY <1>2, <2>3, <2>4, MarkingCount
<1>4. ASSUME Marking(k)' \subseteq Marking(k)
      PROVE  Fresh(k)' + Cardinality(Marking(k)')
               <= Limit[k[1]] + Cardinality(Requests) - 1
  <2>1. CASE UNCHANGED marks
    <3>1. Fresh(k)' = Fresh(k)
      BY <2>1 DEF Fresh, CountOf
    <3> QED
      BY <1>1, <1>2, <1>4, <3>1, WindowKept
  <2>2. CASE \/ \E r \in Requests : TrimWindow(r)
             \/ \E j \in Keys : PeekBudget(j)
    <3>1. \A age \in FreshAges(k) : marks'[k][age] <= marks[k][age]
      <4>1. ASSUME NEW j \in Keys, NEW window \in Nat, NEW delay \in Nat,
                   Trim(j, window, delay)
            PROVE  \A age \in FreshAges(k) : marks'[k][age] <= marks[k][age]
        <5>1. /\ \A i \in Keys : i # j => marks'[i] = marks[i]
              /\ \A age \in Ages(j) : marks'[j][age] <= marks[j][age]
          BY <1>1, <4>1, TrimKeeps
        <5>2. \A age \in FreshAges(k) : age \in Ages(k) /\ marks[k][age] \in Nat
          BY <1>1, Bounds DEF WindowsOK, FreshAges
        <5> QED
          BY <5>1, <5>2
      <4>2. ASSUME NEW r \in Requests, TrimWindow(r)
            PROVE  \A age \in FreshAges(k) : marks'[k][age] <= marks[k][age]
        <5>1. KeyOf(r) \in Keys /\ KeyOf(r)[1] = tier[r] /\ Window[tier[r]] \in Nat
          BY KeyOfType, Bounds
        <5>2. lag[r] \in Nat
          BY AdmissionAssumption DEF AdmissionTypeOK, AdmissionAssumption
        <5> QED
          BY <4>1, <4>2, <5>1, <5>2 DEF TrimWindow
      <4>3. ASSUME NEW j \in Keys, PeekBudget(j)
            PROVE  \A age \in FreshAges(k) : marks'[k][age] <= marks[k][age]
        BY <4>1, <4>3, Bounds DEF PeekBudget
      <4> QED
        BY <2>2, <4>2, <4>3
    <3>2. Fresh(k)' <= Fresh(k)
      BY <1>1, <3>1, FreshFewer
    <3> QED
      BY <1>1, <1>4, <3>2, WindowKept
  <2>3. CASE Tick
    <3>1. Fresh(k)' <= Fresh(k)
      BY <1>1, <2>3, FreshTick
    <3> QED
      BY <1>1, <1>4, <3>1, WindowKept
  <2>4. ASSUME NEW r \in Requests, MarkWindow(r)
        PROVE  Fresh(k)' + Cardinality(Marking(k)')
                 <= Limit[k[1]] + Cardinality(Requests) - 1
    <3>1. /\ KeyOf(r) \in Keys /\ lag[r] \in 0 .. MaxLag /\ pc[r] = "mark"
          /\ AddMark(KeyOf(r), lag[r])
      BY <2>4, KeyOfType DEF MarkWindow, AdmissionTypeOK
    <3>2. CASE KeyOf(r) = k
      <4>1. Fresh(k)' <= Fresh(k) + 1
        BY <1>1, <3>1, <3>2, MarkCounts, Bounds, FreshOneMore
      <4>2. r \in Marking(k) /\ r \notin Marking(k)'
        <5>1. pc'[r] # "mark"
          BY <2>4 DEF MarkWindow, Finish, Goto, AdmissionTypeOK
        <5> QED
          BY <3>1, <3>2, <5>1 DEF Marking
      <4>3. Marking(k)' \in SUBSET (Marking(k) \ {r})
        BY <1>4, <4>2
      <4>4. /\ IsFiniteSet(Marking(k) \ {r})
            /\ Cardinality(Marking(k) \ {r}) = Cardinality(Marking(k)) - 1
        BY <4>2, MarkingCount, FS_RemoveElement
      <4>5. Cardinality(Marking(k)') <= Cardinality(Marking(k)) - 1
        BY <4>3, <4>4, FS_Subset
      <4> QED
        BY <1>2, <4>1, <4>5, MarkingCount DEF OvershootInv
    <3>3. CASE KeyOf(r) # k
      <4>1. marks'[k] = marks[k]
        BY <1>1, <3>1, <3>3, MarkCounts
      <4>2. Fresh(k)' = Fresh(k)
        BY <4>1 DEF Fresh, CountOf
      <4> QED
        BY <1>1, <1>2, <1>4, <4>2, WindowKept
    <3> QED
      BY <3>2, <3>3
  <2> QED
    BY <2>1, <2>2, <2>3, <2>4, MarkSteps
<1> QED
  BY <1>3, <1>4 DEF Marking

LEMMA OvershootInit == Init => OvershootInv
<1> SUFFICES ASSUME Init, NEW k \in Keys
             PROVE  Fresh(k) + Cardinality(Marking(k)) <= Limit[k[1]] + Cardinality(Requests) - 1
  BY DEF OvershootInv
<1>1. Marking(k) = {}
  BY DEF Init, Marking
<1>2. Fresh(k) = 0
  <2>1. FreshAges(k) \subseteq Ages(k)
    BY Bounds DEF FreshAges
  <2>2. \A age \in FreshAges(k) : marks[k][age] = 0
    BY <2>1 DEF Init
  <2>3. MarkSet(marks[k], FreshAges(k)) = {}
    <3>1. ASSUME NEW e \in MarkSet(marks[k], FreshAges(k)) PROVE FALSE
      BY <2>2, InMarkSet
    <3> QED
      BY <3>1
  <2> QED
    BY <2>3, CountOfMarkSet, FS_EmptySet DEF Fresh, FreshAges
<1>3. Cardinality(Marking(k)) = 0
  BY <1>1, FS_EmptySet
<1> QED
  BY <1>2, <1>3, Bounds, MarkingCount

LEMMA OvershootIsBounded ==
  ASSUME WindowsOK, OvershootInv
  PROVE  OvershootBounded
BY FreshCount, MarkingCount, Bounds DEF OvershootInv, OvershootBounded

\* Two commands lie between counting a window and marking it, so a limit can be
\* overrun; however many requests race, by fewer than are handled at the same
\* time (rate_limit.py 46-51).
THEOREM OvershootIsLimited == Spec => []OvershootBounded
<1>1. AdmissionTypeOK => WindowsOK
  BY DEF AdmissionTypeOK, WindowsOK
<1> QED
  BY <1>1, TypeAlways, OvershootInit, OvershootStep, OvershootIsBounded, PTL DEF Spec
=============================================================================
