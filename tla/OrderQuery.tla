----------------------------- MODULE OrderQuery -----------------------------
(***************************************************************************)
(* A user asks what became of an order: GET /orders/{id}, or the           *)
(* assistant's tool.  Both look for the row first and, where there is      *)
(* none, for the hash.  These are two round trips to two stores, and       *)
(* everything of module Fulfilment may happen between them: the row may be *)
(* committed, its worker may die, the scanner may cancel the order.        *)
(***************************************************************************)
EXTENDS Fulfilment

CONSTANT Queries    \* requests that may be under way at once

VARIABLES
  query,    \* requests that found no row and read the hash next
  told      \* history: the final answers given, by order

queryVars == <<query, told>>
queryAllVars == <<vars, queryVars>>

NotAsking == [asking |-> FALSE]

\* knew: somebody had been told of success when this request began.
Asking == [asking : {TRUE}, order : Orders, knew : BOOLEAN]

OrderQueryTypeOK ==
  /\ query \in [Queries -> {NotAsking} \cup Asking]
  /\ told \in [Orders -> SUBSET Settled]

OrderQueryInit ==
  /\ Init
  /\ query = [q \in Queries |-> NotAsking]
  /\ told = [o \in Orders |-> {}]

-----------------------------------------------------------------------------
Tell(o, status) == told' = [told EXCEPT ![o] = @ \cup ({status} \cap Settled)]

\* Faulty variant: a row is not enough while Redis has a final answer.
RowUnlessSettled(o) == HasRow(o) /\ hash[o] \notin Settled

\* A row is shown without looking any further.
RowAnswers(o) == HasRow(o)

\* session.get: a row answers "success".
AskRow(q, o) ==
  /\ query[q] = NotAsking
  /\ \/ RowAnswers(o) /\ Tell(o, "success") /\ UNCHANGED query
     \/ /\ ~RowAnswers(o)
        /\ query' = [query EXCEPT ![q] =
                       [asking |-> TRUE, order |-> o, knew |-> "success" \in told[o]]]
        /\ UNCHANGED told

\* HGETALL: a hash with a user in it answers with its status; none, or one
\* without a user, is "not found".
AskHash(q, o) ==
  /\ query[q].asking /\ query[q].order = o
  /\ query' = [query EXCEPT ![q] = NotAsking]
  /\ \/ ~Partial(o) /\ Tell(o, hash[o])
     \/ Partial(o) /\ UNCHANGED told

\* A store does not answer, or the client is gone.
QueryFails(q) ==
  /\ query[q].asking
  /\ query' = [query EXCEPT ![q] = NotAsking]
  /\ UNCHANGED told

QueryStep(q) ==
  \/ \E o \in Accepted : AskRow(q, o) \/ AskHash(q, o)
  \/ QueryFails(q)

OrderQueryNext ==
  \/ Next /\ UNCHANGED queryVars
  \/ \E q \in Queries : QueryStep(q) /\ UNCHANGED vars

OrderQuerySpec == OrderQueryInit /\ [][OrderQueryNext]_queryAllVars

-----------------------------------------------------------------------------
(* What may be said of an order, one answer after the other *)

\* Two final answers for one order never contradict one another, although the
\* row is committed before the hash is written and the two are read apart.  The
\* exception is an order whose grant was committed and which the scanner took
\* back all the same, because its worker was gone before it wrote the hash
\* (grant_consumer.py 130-138, order_timeout.py 86-91): its row says success
\* and its hash says cancelled, until it expires.  A lock that lapses under its
\* owner may break even this and is excluded.
AnswersStand ==
  budget["lapse"] = Budget["lapse"] =>
    \A o \in Accepted :
      Cardinality(told[o]) > 1 =>
        HasRow(o) /\ hash[o] \in {"failed", "cancelled", "none"}

\* Success is never taken back, not even of an order the scanner has cancelled:
\* once somebody has been told, a request that finds no row under the number of
\* the order will find "success" in the hash, as long as there is one
\* (orders.py 20-38).  This, too, takes a lock that does not lapse.
SuccessStands ==
  budget["lapse"] = Budget["lapse"] =>
    \A q \in Queries :
      query[q].asking /\ query[q].knew =>
        hash[query[q].order] = "success" \/ query[q].order \in expired
=============================================================================
