------------------------- MODULE OrderNumbersProofs -------------------------
(***************************************************************************)
(* For every number of calls, every length of day and of key life, every   *)
(* stall and skew that fit between them: no number is drawn twice.         *)
(***************************************************************************)
EXTENDS OrderNumbers, TLAPS

\* From here on the counter of a day may be dropped.
EndOf(d) == d * DayLength + KeyLife - MaxSkew

Drawn(c) == call[c].sequence > 0

\* A running call has read a clock not long ago.
CallsInTime ==
  \A c \in Calls : Running(c) =>
    /\ now <= call[c].deadline /\ call[c].deadline <= now + MaxStall
    /\ call[c].deadline - MaxStall <= call[c].seconds + MaxSkew
    /\ call[c].seconds <= call[c].deadline - MaxStall + MaxSkew

ExpiryLate == \A d \in Days : expiry[d] # Never => EndOf(d) <= expiry[d]

\* Until its end, the counter of a day is no smaller than what was drawn from it.
CounterCovers ==
  \A c \in Calls : Drawn(c) /\ now < EndOf(Day(c)) => call[c].sequence <= counter[Day(c)]

DrawnDistinct ==
  \A b, c \in Calls :
    b # c /\ Drawn(b) /\ Drawn(c) /\ Day(b) = Day(c) => call[b].sequence # call[c].sequence

DrawnAfterIncrement ==
  \A c \in Calls :
    /\ At(c, "expire") \/ At(c, "issued") => Drawn(c)
    /\ At(c, "idle") \/ At(c, "incr") => ~Drawn(c)

NumbersInv ==
  /\ OrderNumbersTypeOK
  /\ CallsInTime
  /\ ExpiryLate
  /\ CounterCovers
  /\ DrawnDistinct
  /\ DrawnAfterIncrement

-----------------------------------------------------------------------------
\* A second lies in its day.
LEMMA DayBounds ==
  ASSUME NEW s \in Nat
  PROVE  /\ DayOf(s) \in Nat
         /\ DayOf(s) * DayLength <= s
         /\ s < DayOf(s) * DayLength + DayLength
<1> QED
  BY OrderNumbersAssumption, SMT DEF DayOf

\* A second that may be read has a counter.
LEMMA DayInRange ==
  ASSUME NEW s \in 0 .. Horizon + MaxSkew
  PROVE  DayOf(s) \in Days
<1> DEFINE last == Horizon + MaxSkew
<1>1. /\ s \in Nat /\ last \in Nat /\ s <= last
      /\ DayLength \in Nat \ {0}
  BY OrderNumbersAssumption
<1>2. /\ DayOf(s) \in Nat /\ DayOf(last) \in Nat
      /\ DayOf(s) * DayLength <= s
      /\ last < DayOf(last) * DayLength + DayLength
  BY <1>1, DayBounds
<1>3. DayOf(s) <= DayOf(last)
  <2> DEFINE p == DayOf(s)
  <2> DEFINE q == DayOf(last)
  <2>1. SUFFICES ASSUME q + 1 <= p PROVE FALSE
    BY <1>2
  <2>2. (q + 1) * DayLength <= p * DayLength
    <3> HIDE DEF p, q
    <3>1. p \in Nat /\ q \in Nat
      BY <1>2 DEF p, q
    <3> QED
      BY <1>1, <2>1, <3>1, SMT
  <2>3. (q + 1) * DayLength = q * DayLength + DayLength
    BY <1>1, <1>2, SMT
  <2> QED
    BY <1>1, <1>2, <2>2, <2>3, SMT
<1> QED
  BY <1>2, <1>3 DEF Days

\* A second is read well before the end of its day's counter, and KeyLife later
\* is past it, even on clocks that are off.
LEMMA EndBounds ==
  ASSUME NEW s \in Nat
  PROVE  /\ EndOf(DayOf(s)) \in Int
         /\ s + MaxSkew + MaxStall < EndOf(DayOf(s))
         /\ EndOf(DayOf(s)) <= s - MaxSkew + KeyLife
<1> DEFINE start == DayOf(s) * DayLength
<1>1. start \in Nat /\ start <= s /\ s < start + DayLength
  BY DayBounds, OrderNumbersAssumption
<1>2. EndOf(DayOf(s)) = start + KeyLife - MaxSkew
  BY DEF EndOf
<1> HIDE DEF start
<1> QED
  BY <1>1, <1>2, OrderNumbersAssumption

\* Two numbers agree only in both parts.
LEMMA Unpack ==
  ASSUME NEW p \in Nat, NEW q \in Nat, NEW i \in Sequence, NEW j \in Sequence,
         p * SequenceSpace + i = q * SequenceSpace + j
  PROVE  p = q /\ i = j
<1> DEFINE n == SequenceSpace
<1>1. n \in Nat \ {0} /\ i \in Nat /\ j \in Nat /\ i < n /\ j < n
  BY OrderNumbersAssumption DEF Sequence
<1>2. ASSUME NEW x \in Nat, NEW y \in Nat, x < y PROVE x * n + n <= y * n
  <2>1. (x + 1) * n <= y * n
    BY <1>1, <1>2, SMT
  <2>2. (x + 1) * n = x * n + n
    BY <1>1, SMT
  <2> QED
    BY <2>1, <2>2
<1>3. p * n \in Nat /\ q * n \in Nat
  BY <1>1, SMT
<1>4. ~(p < q)
  <2>1. p < q => p * n + n <= q * n
    BY <1>2
  <2> QED
    BY <1>1, <1>3, <2>1, SMT
<1>5. ~(q < p)
  <2>1. q < p => q * n + n <= p * n
    BY <1>2
  <2> QED
    BY <1>1, <1>3, <2>1, SMT
<1>6. p = q
  BY <1>4, <1>5
<1> QED
  BY <1>1, <1>3, <1>6

-----------------------------------------------------------------------------
\* What a call in the middle of its work may rely on.
LEMMA RunningCall ==
  ASSUME OrderNumbersTypeOK, CallsInTime, NEW c \in Calls, Running(c)
  PROVE  /\ Day(c) \in Days
         /\ EndOf(Day(c)) \in Int
         /\ now < EndOf(Day(c))
         /\ EndOf(Day(c)) <= Renewed
<1>1. call[c].seconds \in 0 .. Horizon + MaxSkew /\ now \in Nat /\ call[c].deadline \in Nat
  BY DEF OrderNumbersTypeOK
<1>2. call[c].seconds \in Nat
  BY <1>1, OrderNumbersAssumption
<1>3. /\ EndOf(Day(c)) \in Int
      /\ call[c].seconds + MaxSkew + MaxStall < EndOf(Day(c))
      /\ EndOf(Day(c)) <= call[c].seconds - MaxSkew + KeyLife
  BY <1>2, EndBounds DEF Day
<1>4. /\ now <= call[c].deadline /\ call[c].deadline <= now + MaxStall
      /\ call[c].deadline - MaxStall <= call[c].seconds + MaxSkew
      /\ call[c].seconds <= call[c].deadline - MaxStall + MaxSkew
  BY DEF CallsInTime
<1> QED
  BY <1>1, <1>2, <1>3, <1>4, DayInRange, OrderNumbersAssumption DEF Day, Renewed

LEMMA InitNumbers ==
  ASSUME Init
  PROVE  NumbersInv
<1>1. OrderNumbersTypeOK
  <2>1. 0 \in 0 .. Horizon /\ 0 \in Sequence /\ 0 \in 0 .. Horizon + MaxSkew
    BY OrderNumbersAssumption DEF Sequence
  <2> QED
    BY <2>1 DEF Init, OrderNumbersTypeOK, Never
<1>2. \A c \in Calls : call[c].at = "idle" /\ call[c].sequence = 0
  BY DEF Init
<1>3. \A d \in Days : expiry[d] = Never
  BY DEF Init
<1>4. \A c \in Calls : ~Drawn(c) /\ ~Running(c) /\ ~At(c, "expire") /\ ~At(c, "issued")
  <2>1. TAKE c \in Calls
  <2>2. ~(0 > 0)
    OBVIOUS
  <2>3. ~Drawn(c)
    BY <1>2, <2>2 DEF Drawn
  <2> QED
    BY <1>2, <2>3 DEF Running, At
<1> QED
  BY <1>1, <1>3, <1>4
  DEF NumbersInv, CallsInTime, ExpiryLate, CounterCovers, DrawnDistinct, DrawnAfterIncrement

\* Reading the clock.
LEMMA ReadClockStep ==
  ASSUME NumbersInv, NEW c \in Calls, ReadClock(c)
  PROVE  NumbersInv'
<1>0. /\ OrderNumbersTypeOK /\ CallsInTime /\ ExpiryLate /\ CounterCovers
      /\ DrawnDistinct /\ DrawnAfterIncrement
  BY DEF NumbersInv
<1>1. PICK s \in (now - MaxSkew) .. (now + MaxSkew) :
        /\ s >= 0
        /\ call' = [call EXCEPT ![c] =
                      [at |-> "incr", seconds |-> s, deadline |-> now + MaxStall,
                       sequence |-> 0]]
  BY DEF ReadClock
<1>2. /\ now \in 0 .. Horizon /\ s \in 0 .. Horizon + MaxSkew /\ now + MaxStall \in Nat
      /\ 0 \in Sequence
  BY <1>0, <1>1, OrderNumbersAssumption DEF OrderNumbersTypeOK, Sequence
<1>3. UNCHANGED <<now, counter, expiry>>
  BY DEF ReadClock
<1>4. OrderNumbersTypeOK'
  BY <1>0, <1>1, <1>2, <1>3 DEF OrderNumbersTypeOK
<1>5. \A b \in Calls \ {c} : call'[b] = call[b]
  BY <1>0, <1>1 DEF OrderNumbersTypeOK
<1>6. call'[c] = [at |-> "incr", seconds |-> s, deadline |-> now + MaxStall, sequence |-> 0]
  BY <1>0, <1>1 DEF OrderNumbersTypeOK
<1>7. CallsInTime'
  <2>1. ASSUME NEW b \in Calls, Running(b)'
        PROVE  /\ now' <= call'[b].deadline /\ call'[b].deadline <= now' + MaxStall
               /\ call'[b].deadline - MaxStall <= call'[b].seconds + MaxSkew
               /\ call'[b].seconds <= call'[b].deadline - MaxStall + MaxSkew
    <3>1. CASE b = c
      BY <1>1, <1>2, <1>3, <1>6, <3>1, OrderNumbersAssumption
    <3>2. CASE b # c
      BY <1>0, <1>3, <1>5, <2>1, <3>2 DEF CallsInTime, Running, At
    <3> QED
      BY <3>1, <3>2
  <2> QED
    BY <2>1 DEF CallsInTime
<1>8. /\ ~Drawn(c)'
      /\ \A b \in Calls \ {c} : Drawn(b)' = Drawn(b) /\ Day(b)' = Day(b)
  BY <1>5, <1>6 DEF Drawn, Day
<1>9. CounterCovers'
  BY <1>0, <1>3, <1>5, <1>8 DEF CounterCovers, EndOf
<1>10. DrawnDistinct'
  BY <1>0, <1>5, <1>8 DEF DrawnDistinct
<1>11. DrawnAfterIncrement'
  BY <1>0, <1>5, <1>6, <1>8 DEF DrawnAfterIncrement, At
<1>12. ExpiryLate'
  BY <1>0, <1>3 DEF ExpiryLate, EndOf
<1> QED
  BY <1>4, <1>7, <1>9, <1>10, <1>11, <1>12 DEF NumbersInv

\* INCR gives a number that nobody has drawn from this counter.
LEMMA IncrementStep ==
  ASSUME NumbersInv, NEW c \in Calls, Increment(c)
  PROVE  NumbersInv'
<1> DEFINE k == Day(c)
<1> DEFINE n == counter[k] + 1
<1>0. /\ OrderNumbersTypeOK /\ CallsInTime /\ ExpiryLate /\ CounterCovers
      /\ DrawnDistinct /\ DrawnAfterIncrement
  BY DEF NumbersInv
<1>1. /\ Running(c) /\ ~Drawn(c)
      /\ n < SequenceSpace
      /\ counter' = [counter EXCEPT ![k] = n]
      /\ call' = [call EXCEPT ![c].at = "expire", ![c].sequence = n]
      /\ UNCHANGED <<now, expiry>>
  BY <1>0 DEF Increment, KeyOf, Running, DrawnAfterIncrement
<1>2. k \in Days /\ now < EndOf(k) /\ EndOf(k) \in Int
  BY <1>0, <1>1, RunningCall
<1>3. /\ counter[k] \in Nat /\ n \in Sequence /\ n > 0
      /\ counter'[k] = n
      /\ \A d \in Days \ {k} : counter'[d] = counter[d]
  BY <1>0, <1>1, <1>2, OrderNumbersAssumption DEF OrderNumbersTypeOK, Sequence
<1>4. OrderNumbersTypeOK'
  BY <1>0, <1>1, <1>3 DEF OrderNumbersTypeOK
<1>5. \A b \in Calls \ {c} : call'[b] = call[b]
  BY <1>0, <1>1 DEF OrderNumbersTypeOK
<1>6. /\ call'[c].at = "expire" /\ call'[c].sequence = n
      /\ call'[c].seconds = call[c].seconds /\ call'[c].deadline = call[c].deadline
  BY <1>0, <1>1 DEF OrderNumbersTypeOK
<1> HIDE DEF n
<1>7. /\ Drawn(c)' /\ Day(c)' = k
      /\ \A b \in Calls \ {c} : Drawn(b)' = Drawn(b) /\ Day(b)' = Day(b)
  BY <1>3, <1>5, <1>6 DEF Drawn, Day
<1>8. CallsInTime'
  BY <1>0, <1>1, <1>5, <1>6 DEF CallsInTime, Running, At
<1>9. \A b \in Calls \ {c} : Drawn(b) /\ Day(b) = k => call[b].sequence <= counter[k]
  BY <1>0, <1>2 DEF CounterCovers
<1>10. \A b \in Calls : call[b].sequence \in Nat /\ Day(b) \in Days
  BY <1>0, DayInRange, OrderNumbersAssumption DEF OrderNumbersTypeOK, Sequence, Day
<1>11. counter[k] < n
  BY <1>3 DEF n
<1>12. CounterCovers'
  <2>1. ASSUME NEW b \in Calls, Drawn(b)', now < EndOf(Day(b)')
        PROVE  call'[b].sequence <= counter'[Day(b)']
    <3>1. CASE b = c
      BY <1>3, <1>6, <1>7, <3>1 DEF Sequence
    <3>2. CASE b # c /\ Day(b) = k
      BY <1>3, <1>5, <1>7, <1>9, <1>10, <1>11, <2>1, <3>2 DEF Sequence
    <3>3. CASE b # c /\ Day(b) # k
      BY <1>0, <1>3, <1>5, <1>7, <1>10, <2>1, <3>3 DEF CounterCovers
    <3> QED
      BY <3>1, <3>2, <3>3
  <2> QED
    BY <1>1, <2>1 DEF CounterCovers, EndOf
<1>13. DrawnDistinct'
  <2>1. ASSUME NEW b \in Calls \ {c}, Drawn(b)', Day(b)' = k
        PROVE  call'[b].sequence # n
    BY <1>3, <1>5, <1>7, <1>9, <1>10, <1>11, <2>1 DEF Sequence
  <2> QED
    BY <1>0, <1>5, <1>6, <1>7, <2>1 DEF DrawnDistinct
<1>14. DrawnAfterIncrement'
  BY <1>0, <1>5, <1>6, <1>7 DEF DrawnAfterIncrement, At
<1>15. ExpiryLate'
  BY <1>0, <1>1 DEF ExpiryLate, EndOf
<1> QED
  BY <1>4, <1>8, <1>12, <1>13, <1>14, <1>15 DEF NumbersInv

\* EXPIRE puts the end of the key behind the end of its day's counter.
LEMMA ExpireStep ==
  ASSUME NumbersInv, NEW c \in Calls, Expire(c)
  PROVE  NumbersInv'
<1>0. /\ OrderNumbersTypeOK /\ CallsInTime /\ ExpiryLate /\ CounterCovers
      /\ DrawnDistinct /\ DrawnAfterIncrement
  BY DEF NumbersInv
<1>1. /\ Running(c) /\ At(c, "expire")
      /\ expiry' = [expiry EXCEPT ![Day(c)] = Renewed] \/ UNCHANGED expiry
      /\ call' = [call EXCEPT ![c].at = "issued"]
      /\ UNCHANGED <<now, counter>>
  BY DEF Expire, KeyOf, Running
<1>2. Day(c) \in Days /\ EndOf(Day(c)) <= Renewed /\ Renewed \in Nat
  BY <1>0, <1>1, RunningCall, OrderNumbersAssumption DEF OrderNumbersTypeOK, Renewed
<1>3. OrderNumbersTypeOK'
  BY <1>0, <1>1, <1>2 DEF OrderNumbersTypeOK
<1>4. ExpiryLate'
  BY <1>0, <1>1, <1>2 DEF ExpiryLate, EndOf, OrderNumbersTypeOK
<1>5. \A b \in Calls : /\ call'[b].seconds = call[b].seconds
                       /\ call'[b].deadline = call[b].deadline
                       /\ call'[b].sequence = call[b].sequence
                       /\ b # c => call'[b].at = call[b].at
                       /\ b = c => call'[b].at = "issued"
  BY <1>0, <1>1 DEF OrderNumbersTypeOK
<1>6. \A b \in Calls : Drawn(b)' = Drawn(b) /\ Day(b)' = Day(b)
  BY <1>5 DEF Drawn, Day
<1>7. CallsInTime'
  BY <1>0, <1>1, <1>5 DEF CallsInTime, Running, At
<1>8. CounterCovers' /\ DrawnDistinct'
  BY <1>0, <1>1, <1>5, <1>6 DEF CounterCovers, DrawnDistinct, EndOf
<1>9. DrawnAfterIncrement'
  BY <1>0, <1>1, <1>5, <1>6 DEF DrawnAfterIncrement, At
<1> QED
  BY <1>3, <1>4, <1>7, <1>8, <1>9 DEF NumbersInv

LEMMA DieStep ==
  ASSUME NumbersInv, NEW c \in Calls, Die(c)
  PROVE  NumbersInv'
<1>0. /\ OrderNumbersTypeOK /\ CallsInTime /\ ExpiryLate /\ CounterCovers
      /\ DrawnDistinct /\ DrawnAfterIncrement
  BY DEF NumbersInv
<1>1. /\ call' = [call EXCEPT ![c].at = "dead"]
      /\ UNCHANGED <<now, counter, expiry>>
  BY DEF Die
<1>2. OrderNumbersTypeOK'
  BY <1>0, <1>1 DEF OrderNumbersTypeOK
<1>3. \A b \in Calls : /\ call'[b].seconds = call[b].seconds
                       /\ call'[b].deadline = call[b].deadline
                       /\ call'[b].sequence = call[b].sequence
                       /\ b # c => call'[b].at = call[b].at
                       /\ b = c => call'[b].at = "dead"
  BY <1>0, <1>1 DEF OrderNumbersTypeOK
<1>4. \A b \in Calls : Drawn(b)' = Drawn(b) /\ Day(b)' = Day(b)
  BY <1>3 DEF Drawn, Day
<1>5. CallsInTime'
  BY <1>0, <1>1, <1>3 DEF CallsInTime, Running, At
<1>6. CounterCovers' /\ DrawnDistinct' /\ ExpiryLate'
  BY <1>0, <1>1, <1>3, <1>4 DEF CounterCovers, DrawnDistinct, ExpiryLate, EndOf
<1>7. DrawnAfterIncrement'
  BY <1>0, <1>3, <1>4 DEF DrawnAfterIncrement, At
<1> QED
  BY <1>2, <1>5, <1>6, <1>7 DEF NumbersInv

\* Only a counter past its end is dropped.
LEMMA DropKeyStep ==
  ASSUME NumbersInv, NEW d \in Days, DropKey(d)
  PROVE  NumbersInv'
<1>0. /\ OrderNumbersTypeOK /\ CallsInTime /\ ExpiryLate /\ CounterCovers
      /\ DrawnDistinct /\ DrawnAfterIncrement
  BY DEF NumbersInv
<1>1. /\ expiry[d] # Never /\ expiry[d] <= now
      /\ counter' = [counter EXCEPT ![d] = 0]
      /\ expiry' = [expiry EXCEPT ![d] = Never]
      /\ UNCHANGED <<now, call>>
  BY DEF DropKey
<1>2. OrderNumbersTypeOK'
  BY <1>0, <1>1, OrderNumbersAssumption DEF OrderNumbersTypeOK, Sequence
<1>3. /\ \A c \in Calls : Drawn(c)' = Drawn(c) /\ Day(c)' = Day(c)
      /\ CallsInTime' /\ DrawnDistinct' /\ DrawnAfterIncrement'
  BY <1>0, <1>1
  DEF CallsInTime, DrawnDistinct, DrawnAfterIncrement, Running, At, Day, Drawn
<1>4. ExpiryLate'
  BY <1>0, <1>1 DEF ExpiryLate, EndOf, OrderNumbersTypeOK
<1>5. ~(now < EndOf(d))
  <2>1. EndOf(d) <= expiry[d]
    BY <1>0, <1>1 DEF ExpiryLate
  <2>2. EndOf(d) \in Int /\ expiry[d] \in Nat /\ now \in Nat
    <3>1. d \in Nat /\ DayLength \in Nat /\ KeyLife \in Nat /\ MaxSkew \in Nat
      BY OrderNumbersAssumption DEF Days
    <3> QED
      BY <1>0, <1>1, <3>1 DEF EndOf, OrderNumbersTypeOK
  <2> QED
    BY <1>1, <2>1, <2>2
<1>6. CounterCovers'
  <2>1. \A c \in Calls : Day(c) \in Days
    BY <1>0, DayInRange DEF OrderNumbersTypeOK, Day
  <2>2. \A k \in Days \ {d} : counter'[k] = counter[k]
    BY <1>0, <1>1 DEF OrderNumbersTypeOK
  <2> QED
    BY <1>0, <1>1, <1>3, <1>5, <2>1, <2>2 DEF CounterCovers, EndOf
<1> QED
  BY <1>2, <1>3, <1>4, <1>6 DEF NumbersInv

LEMMA TickStep ==
  ASSUME NumbersInv, Tick
  PROVE  NumbersInv'
<1>0. /\ OrderNumbersTypeOK /\ CallsInTime /\ ExpiryLate /\ CounterCovers
      /\ DrawnDistinct /\ DrawnAfterIncrement
  BY DEF NumbersInv
<1>1. /\ now < Horizon
      /\ \A c \in Calls : Running(c) => now < call[c].deadline
      /\ now' = now + 1
      /\ UNCHANGED <<counter, expiry, call>>
  BY DEF Tick
<1>2. OrderNumbersTypeOK'
  BY <1>0, <1>1, OrderNumbersAssumption DEF OrderNumbersTypeOK
<1>3. CallsInTime'
  BY <1>0, <1>1, OrderNumbersAssumption DEF CallsInTime, Running, At, OrderNumbersTypeOK
<1>4. \A c \in Calls : Drawn(c)' = Drawn(c) /\ Day(c)' = Day(c) /\ EndOf(Day(c)) \in Int
  BY <1>0, <1>1, EndBounds, OrderNumbersAssumption DEF Drawn, Day, OrderNumbersTypeOK
<1>5. CounterCovers'
  <2>1. ASSUME NEW c \in Calls, Drawn(c), now + 1 < EndOf(Day(c))
        PROVE  call[c].sequence <= counter[Day(c)]
    <3>1. now < EndOf(Day(c))
      BY <1>0, <1>4, <2>1 DEF OrderNumbersTypeOK
    <3> QED
      BY <1>0, <2>1, <3>1 DEF CounterCovers
  <2> QED
    BY <1>1, <1>4, <2>1 DEF CounterCovers, EndOf
<1>6. DrawnDistinct' /\ ExpiryLate' /\ DrawnAfterIncrement'
  BY <1>0, <1>1, <1>4 DEF DrawnDistinct, ExpiryLate, EndOf, DrawnAfterIncrement, At
<1> QED
  BY <1>2, <1>3, <1>5, <1>6 DEF NumbersInv

LEMMA NumbersStep ==
  ASSUME NumbersInv, [Next]_vars
  PROVE  NumbersInv'
<1>1. CASE UNCHANGED vars
  BY <1>1
  DEF vars, NumbersInv, OrderNumbersTypeOK, CallsInTime, ExpiryLate, CounterCovers,
      DrawnDistinct, DrawnAfterIncrement, Running, At, Drawn, Day, EndOf
<1>2. CASE Next
  BY <1>2, ReadClockStep, IncrementStep, ExpireStep, DieStep, DropKeyStep, TickStep DEF Next
<1> QED
  BY <1>1, <1>2

\* The invariant that the theorems below follow from: how long a counter lives,
\* which calls may still draw from it, and what they have drawn so far
\* (seckill.py 198-204).
THEOREM NumbersInvariant == Spec => []NumbersInv
<1> QED
  BY InitNumbers, NumbersStep, PTL DEF Spec

\* The types of OrderNumbers.
THEOREM OrderNumbersTyped == Spec => []OrderNumbersTypeOK
<1>1. NumbersInv => OrderNumbersTypeOK
  BY DEF NumbersInv
<1> QED
  BY <1>1, NumbersInvariant, PTL

\* No two calls return the same order number (seckill.py 198-204): whatever the
\* number of hosts, their clocks and the deaths between INCR and EXPIRE.
THEOREM NumbersAreUnique == Spec => []UniqueNumbers
<1>1. ASSUME NumbersInv PROVE UniqueNumbers
  <2>1. SUFFICES ASSUME NEW b \in Calls, NEW c \in Calls, b # c,
                        At(b, "issued"), At(c, "issued"), Number(b) = Number(c)
                 PROVE  FALSE
    BY DEF UniqueNumbers
  <2>2. /\ call[b].seconds \in Nat /\ call[c].seconds \in Nat
        /\ call[b].sequence \in Sequence /\ call[c].sequence \in Sequence
    BY <1>1, OrderNumbersAssumption DEF NumbersInv, OrderNumbersTypeOK
  <2>3. call[b].seconds = call[c].seconds /\ call[b].sequence = call[c].sequence
    BY <2>1, <2>2, Unpack DEF Number
  <2>4. Drawn(b) /\ Drawn(c) /\ Day(b) = Day(c)
    BY <1>1, <2>1, <2>3 DEF NumbersInv, DrawnAfterIncrement, Day
  <2> QED
    BY <1>1, <2>1, <2>3, <2>4 DEF NumbersInv, DrawnDistinct
<1> QED
  BY <1>1, NumbersInvariant, PTL

\* The counter of a call that has drawn from it is not dropped before the call
\* has renewed it (seckill.py 202-203).
THEOREM CountersAreKept == Spec => []CounterKept
<1>1. ASSUME NumbersInv PROVE CounterKept
  <2>1. SUFFICES ASSUME NEW c \in Calls, At(c, "expire")
                 PROVE  call[c].sequence <= counter[Day(c)]
    BY DEF CounterKept
  <2>2. Running(c) /\ Drawn(c)
    BY <1>1, <2>1 DEF Running, NumbersInv, DrawnAfterIncrement
  <2>3. now < EndOf(Day(c))
    BY <1>1, <2>2, RunningCall DEF NumbersInv
  <2> QED
    BY <1>1, <2>2, <2>3 DEF NumbersInv, CounterCovers
<1> QED
  BY <1>1, NumbersInvariant, PTL
=============================================================================
