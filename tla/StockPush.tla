----------------------------- MODULE StockPush -----------------------------
(***************************************************************************)
(* The live stock of an activity, as a browser shows it.  The route reads  *)
(* the stock, subscribes to the channel of the activity, sends what it has *)
(* read as the first frame and then one frame per message.  seckill.lua    *)
(* publishes what is left after every accepted claim; nobody publishes     *)
(* when a unit returns, or when an activity is published again and its     *)
(* stock is set.  Pub/Sub delivers in order and keeps nothing for those    *)
(* who are not subscribed.                                                 *)
(***************************************************************************)
EXTENDS SeckillRedis, SequencesExt

CONSTANT Viewers    \* open pages

VARIABLES
  viewer,    \* what each page has read, has waiting, and shows
  missed     \* history: pages past which the stock has moved unseen

pushVars == <<viewer, missed>>

Away == [at |-> "away"]
ViewerPlaces == {"loaded", "streaming"}

Watches(v, a) == viewer[v] # Away /\ viewer[v].activity = a
Subscribed(v) == viewer[v] # Away /\ viewer[v].at = "streaming"

PushTypeOK ==
  /\ \A v \in Viewers : viewer[v] # Away =>
       /\ viewer[v].at \in ViewerPlaces
       /\ viewer[v].activity \in Activities
       /\ viewer[v].shown \in Nat
       /\ viewer[v].frames \in Seq(Nat)
  /\ missed \subseteq Viewers

PushInit ==
  /\ viewer = [v \in Viewers |-> Away]
  /\ missed = {}

-----------------------------------------------------------------------------
\* The first frame is read here, before the subscription.
LoadStock(v, a) ==
  /\ viewer[v] = Away
  /\ viewer' = [viewer EXCEPT ![v] =
                  [at |-> "loaded", activity |-> a, shown |-> stock[a], frames |-> <<>>]]
  /\ missed' = missed \ {v}

\* SUBSCRIBE is acknowledged: messages are queued from now on, behind the first
\* frame, which leaves with what was read, however old.
SubscribeToStock(v) ==
  /\ viewer[v] # Away /\ viewer[v].at = "loaded"
  /\ viewer' = [viewer EXCEPT ![v].at = "streaming"]
  /\ UNCHANGED missed

SendFrame(v) ==
  /\ viewer[v] # Away /\ viewer[v].at = "streaming"
  /\ viewer[v].frames # <<>>
  /\ viewer' = [viewer EXCEPT ![v].shown = Head(viewer[v].frames),
                                 ![v].frames = Tail(@)]
  /\ UNCHANGED missed

Leave(v) ==
  /\ viewer[v] # Away
  /\ viewer' = [viewer EXCEPT ![v] = Away]
  /\ missed' = missed \ {v}

ViewerStep(v) ==
  \/ \E a \in Activities : LoadStock(v, a)
  \/ SubscribeToStock(v)
  \/ SendFrame(v)
  \/ Leave(v)

-----------------------------------------------------------------------------
\* Faulty variant: the stock read before DECR is published.
RemainingBefore(a) == stock[a]

\* What seckill.lua publishes.
Remaining(a) == stock[a] - 1

\* PUBLISH: one more frame for everybody who is subscribed.
Broadcast(a) ==
  /\ viewer' = [v \in Viewers |->
       IF Watches(v, a) /\ Subscribed(v)
       THEN [viewer[v] EXCEPT !.frames = Append(@, Remaining(a))]
       ELSE viewer[v]]
  /\ missed' = (missed \cup {v \in Viewers : Watches(v, a)})
                  \ {v \in Viewers : Watches(v, a) /\ Subscribed(v)}

\* A unit returns, or the stock is set, and nobody is told.
Unannounced ==
  /\ UNCHANGED viewer
  /\ missed' = missed \cup {v \in Viewers :
                              \E a \in Activities : Watches(v, a) /\ stock'[a] # stock[a]}

\* What a step on the Redis keys means for the pages: seckill.lua publishes in
\* the same script as it appends to the stream.
PushFollows ==
  \/ stream' # stream /\ Broadcast(Last(stream').activity)
  \/ stream' = stream /\ Unannounced

-----------------------------------------------------------------------------
\* A page that has shown all its frames shows the stock, unless since the last
\* claim a unit has returned or a publication has set the stock, neither of
\* which is announced, or a claim fell between reading the first frame and
\* subscribing; the next claim puts it right again.  The frames carry what is
\* left, not a difference, and one channel keeps their order (activities.py
\* 80-105, seckill.lua 70, against seckill.py 83 and cancel.lua 27).
ShownIsCurrent ==
  \A v \in Viewers \ missed :
    viewer[v] # Away /\ viewer[v].at = "streaming" /\ viewer[v].frames = <<>>
      => viewer[v].shown = stock[viewer[v].activity]
=============================================================================
