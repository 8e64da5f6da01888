---------------------------- MODULE MCFulfilment ----------------------------
(* Small sales for the fulfilment of orders, and the faults each run allows *)
EXTENDS Fulfilment, TLC

CONSTANTS u1, u2, a1, a2, w1, w2, c1

OneUser == {u1}
TwoUsers == {u1, u2}
OneActivity == {a1}
TwoActivities == {a1, a2}
OneUnit == a1 :> 1
TwoUnitsAndOne == a1 :> 2 @@ a2 :> 1

OneWorker == {w1}
TwoWorkers == {w1, w2}
MCCancellers == {c1}
MCProcess == c1 :> w1

Faults(crash, lapse, error, expiry) ==
  [crash |-> crash, lapse |-> lapse, error |-> error, expiry |-> expiry]

NoFaults == Faults(0, 0, 0, 0)
OneCrash == Faults(1, 0, 0, 0)
CrashAndError == Faults(1, 0, 1, 0)
=============================================================================
