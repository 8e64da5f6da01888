---------------------------- MODULE OrderNumbers ----------------------------
(***************************************************************************)
(* How SeckillService draws the number of an order: the second in which    *)
(* the call began, and a counter that Redis keeps for the day of that      *)
(* second and drops two days after it was last renewed.  The number is the *)
(* primary key of grant_orders and part of the key of the order hash.      *)
(*                                                                         *)
(* Calls run on several hosts, whose clocks differ from Redis's by at most *)
(* MaxSkew; between reading the clock and the reply to EXPIRE a call lasts *)
(* at most MaxStall.  A call may die anywhere, and then returns no number. *)
(***************************************************************************)
EXTENDS Integers

CONSTANTS
  Calls,          \* calls of _next_order_id
  DayLength,      \* seconds of a day
  KeyLife,        \* EXPIRE, two days
  MaxStall,       \* how long a call may take
  MaxSkew,        \* how far a host's clock may be off
  SequenceSpace,  \* 2^32: what the counter must stay below
  Horizon         \* bound on the time that is looked at

ASSUME OrderNumbersAssumption ==
  /\ DayLength \in Nat \ {0}
  /\ KeyLife \in Nat /\ MaxStall \in Nat /\ MaxSkew \in Nat /\ Horizon \in Nat
  /\ SequenceSpace \in Nat \ {0}
  \* Even the last call of a day ends before the counter of that day is dropped.
  /\ DayLength + MaxStall + 2 * MaxSkew <= KeyLife

VARIABLES
  now,       \* the time of the Redis server, in seconds
  counter,   \* id:order:{day}; 0 when there is no such key
  expiry,    \* when that key is dropped
  call       \* where each call is, and what it has read

vars == <<now, counter, expiry, call>>

DayOf(seconds) == seconds \div DayLength
Days == 0 .. DayOf(Horizon + MaxSkew)
Never == -1

Sequence == 0 .. SequenceSpace - 1

OrderNumbersTypeOK ==
  /\ now \in 0 .. Horizon
  /\ counter \in [Days -> Sequence]
  /\ expiry \in [Days -> Nat \cup {Never}]
  /\ call \in [Calls -> [at : {"idle", "incr", "expire", "issued", "dead"},
                         seconds : 0 .. Horizon + MaxSkew,
                         deadline : Nat,
                         sequence : Sequence]]

Init ==
  /\ now = 0
  /\ counter = [d \in Days |-> 0]
  /\ expiry = [d \in Days |-> Never]
  /\ call = [c \in Calls |-> [at |-> "idle", seconds |-> 0, deadline |-> 0, sequence |-> 0]]

At(c, place) == call[c].at = place
Running(c) == At(c, "incr") \/ At(c, "expire")
Day(c) == DayOf(call[c].seconds)

-----------------------------------------------------------------------------
\* datetime.now(UTC): the second and the day come from one reading.
ReadClock(c) ==
  /\ At(c, "idle")
  /\ \E s \in (now - MaxSkew) .. (now + MaxSkew) :
       /\ s >= 0
       /\ call' = [call EXCEPT ![c] =
                     [at |-> "incr", seconds |-> s, deadline |-> now + MaxStall,
                      sequence |-> 0]]
  /\ UNCHANGED <<now, counter, expiry>>

\* Faulty variant: the clock is read again for the key of the counter.
KeyOfToday(c) == DayOf(now)

\* The day in the key is the day of the second in the number.
KeyOf(c) == Day(c)

\* INCR.  A new key has no TTL.  SequenceSpace bounds the claims of a day.
Increment(c) ==
  /\ At(c, "incr")
  /\ counter[KeyOf(c)] + 1 < SequenceSpace
  /\ counter' = [counter EXCEPT ![KeyOf(c)] = @ + 1]
  /\ call' = [call EXCEPT ![c].at = "expire", ![c].sequence = counter[KeyOf(c)] + 1]
  /\ UNCHANGED <<now, expiry>>

\* Faulty variant: the key is kept for what may be left of the day.
RenewedForADay == now + DayLength

Renewed == now + KeyLife

\* EXPIRE, which does nothing when there is no key, and the number is returned.
Expire(c) ==
  /\ At(c, "expire")
  /\ \/ counter[KeyOf(c)] > 0 /\ expiry' = [expiry EXCEPT ![KeyOf(c)] = Renewed]
     \/ counter[KeyOf(c)] = 0 /\ UNCHANGED expiry
  /\ call' = [call EXCEPT ![c].at = "issued"]
  /\ UNCHANGED <<now, counter>>

\* The process dies or a command raises: the claim fails, and after INCR the
\* key may be left without a TTL.
Die(c) ==
  /\ Running(c)
  /\ call' = [call EXCEPT ![c].at = "dead"]
  /\ UNCHANGED <<now, counter, expiry>>

\* Redis drops a key at its time or a little later.
DropKey(d) ==
  /\ expiry[d] # Never /\ expiry[d] <= now
  /\ counter' = [counter EXCEPT ![d] = 0]
  /\ expiry' = [expiry EXCEPT ![d] = Never]
  /\ UNCHANGED <<now, call>>

Tick ==
  /\ now < Horizon
  /\ \A c \in Calls : Running(c) => now < call[c].deadline
  /\ now' = now + 1
  /\ UNCHANGED <<counter, expiry, call>>

Next ==
  \/ \E c \in Calls : ReadClock(c) \/ Increment(c) \/ Expire(c) \/ Die(c)
  \/ \E d \in Days : DropKey(d)
  \/ Tick

Spec == Init /\ [][Next]_vars

-----------------------------------------------------------------------------
\* (seconds << 32) | sequence
Number(c) == call[c].seconds * SequenceSpace + call[c].sequence

\* No two calls return the same number, on whatever hosts and whenever the
\* counter of a day is dropped: the day's key outlives the last call that can
\* still draw from it (seckill.py 198-204).
UniqueNumbers ==
  \A b, c \in Calls :
    b # c /\ At(b, "issued") /\ At(c, "issued") => Number(b) # Number(c)

\* The counter a call has drawn from is still there, and no smaller, until the
\* call has renewed it: EXPIRE never misses.
CounterKept ==
  \A c \in Calls : At(c, "expire") => call[c].sequence <= counter[Day(c)]
=============================================================================
