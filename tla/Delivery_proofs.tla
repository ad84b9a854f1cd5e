--------------------------- MODULE Delivery_proofs --------------------------
(***************************************************************************)
(* Theorems about Delivery, for any queues, tasks and numbers of retries,  *)
(* refusals, stops and crashes: what left Redis was received, what was     *)
(* archived is accounted for, and only a failure lets a task overtake an   *)
(* older one of its shard.                                                 *)
(***************************************************************************)
EXTENDS Delivery, SequenceTheorems, TLAPS

\* Wherever both are in s, i is before j.
Before(s, i, j) == \A x, y \in DOMAIN s : s[x] = i /\ s[y] = j => x < y

\* The last clause of TypeOK, for one queue.
Listed(q) ==
  /\ worker[q] # None => mode # "down" /\ status[q][worker[q]] = "active"
  /\ IsInjective(pending[q])
  /\ ToSet(pending[q]) = {i \in Ids : status[q][i] = "pending"}

\* What is in a queue arrived there once, and carries what it arrived with.
Account(q) ==
  /\ IsInjective(arrived[q]) /\ ToSet(arrived[q]) \subseteq DOMAIN Tasks
  /\ \A i \in Ids :
       /\ Exists(q, i) => i \in ToSet(arrived[q]) /\ body[q][i] = Tasks[i].body
       /\ Received(q, i) => i \in ToSet(arrived[q])
       /\ status[q][i] = "retry" => retried[q][i] > 0

Reported(i) == i \in failedDeliveries \cup unreported \cup orphaned

\* What the handler of q has made of the task in its hands.
Handled(q) ==
  worker[q] # None =>
    /\ result[q] = "ok" /\ Routed(body[q][worker[q]]) => Received(q, worker[q])
    /\ result[q] = "error" /\ LastAttempt(q, worker[q]) =>
         Reported(worker[q]) \/ Corrupt(body[q][worker[q]])

\* GoneMeansReceived and DeadLetterAccounted, for one queue.
Gone(q) ==
  \A i \in Ids : i \in ToSet(arrived[q]) /\ ~Exists(q, i) /\ Routed(Tasks[i].body) => Received(q, i)
Dead(q) ==
  \A i \in Ids : status[q][i] = "archived" => Reported(i) \/ Corrupt(body[q][i])

\* A task none of whose attempts has failed, and that no crash has orphaned.
Fresh(q, i) ==
  /\ retried[q][i] = 0
  /\ \/ status[q][i] = "pending"
     \/ status[q][i] = "active" /\ worker[q] = i

\* Whatever arrived after it waits behind it: nobody has taken it.
Behind(q, i, j) ==
  /\ status[q][j] = "pending" /\ ~Received(q, j)
  /\ status[q][i] = "pending" => Before(pending[q], i, j)

InLine(q) ==
  \A m, n \in DOMAIN arrived[q] :
    m < n /\ Fresh(q, arrived[q][m]) => Behind(q, arrived[q][m], arrived[q][n])

\* TypeOK without its last clause.
TypesOK ==
  /\ AsynqType
  /\ mode \in {"down", "up", "stopping"}
  /\ worker \in [Queues -> Ids \cup {None}]
  /\ result \in [Queues -> {"running", "ok", "error"}]
  /\ failedDeliveries \subseteq Ids /\ unreported \subseteq Ids /\ orphaned \subseteq Ids
  /\ received \in [Queues -> Seq([id : Ids, body : Bodies])]

Queue(q) == Listed(q) /\ Account(q) /\ Handled(q) /\ Gone(q) /\ Dead(q) /\ InLine(q)

\* The inductive invariant.
IInv == TypesOK /\ \A q \in Queues : Queue(q)

-----------------------------------------------------------------------------
(* Sequences of ids *)

\* One more at the end is behind all the others.
LEMMA AtTheEnd ==
  ASSUME NEW s \in Seq(Ids), NEW e \in Ids, IsInjective(s), e \notin ToSet(s)
  PROVE  /\ Append(s, e) \in Seq(Ids) /\ IsInjective(Append(s, e))
         /\ ToSet(Append(s, e)) = ToSet(s) \cup {e}
         /\ \A i, j : i # e /\ Before(s, i, j) => Before(Append(s, e), i, j)
         /\ \A i : i # e => Before(Append(s, e), i, e)
<1> DEFINE t == Append(s, e)
<1>1. /\ t \in Seq(Ids) /\ DOMAIN t = 1 .. Len(s) + 1 /\ DOMAIN s = 1 .. Len(s) /\ Len(s) \in Nat
      /\ t[Len(s) + 1] = e /\ \A k \in 1 .. Len(s) : t[k] = s[k] /\ s[k] # e
  BY DEF ToSet
<1> HIDE DEF t
<1>2. IsInjective(t)
  BY <1>1 DEF IsInjective
<1>3. ToSet(t) = ToSet(s) \cup {e}
  BY <1>1 DEF ToSet
<1>4. ASSUME NEW i, NEW j, i # e, j = e \/ Before(s, i, j) PROVE Before(t, i, j)
  BY <1>1, <1>4 DEF Before
<1> QED
  BY <1>1, <1>2, <1>3, <1>4 DEF t

\* One put in front is before all the others.
LEMMA AtTheFront ==
  ASSUME NEW s \in Seq(Ids), NEW e \in Ids, IsInjective(s), e \notin ToSet(s)
  PROVE  /\ <<e>> \o s \in Seq(Ids) /\ IsInjective(<<e>> \o s)
         /\ ToSet(<<e>> \o s) = ToSet(s) \cup {e}
         /\ \A i, j : i # e /\ j # e /\ Before(s, i, j) => Before(<<e>> \o s, i, j)
         /\ \A j : j # e => Before(<<e>> \o s, e, j)
<1> DEFINE t == <<e>> \o s
<1>1. <<e>> \in Seq(Ids) /\ Len(<<e>>) = 1 /\ <<e>>[1] = e
  OBVIOUS
<1>2. /\ t \in Seq(Ids) /\ Len(t) = 1 + Len(s) /\ Len(s) \in Nat
      /\ \A k \in 1 .. 1 + Len(s) : t[k] = IF k <= 1 THEN <<e>>[k] ELSE s[k - 1]
  BY <1>1, ConcatProperties
<1> HIDE DEF t
<1>3. DOMAIN t = 1 .. Len(s) + 1 /\ DOMAIN s = 1 .. Len(s)
  BY <1>2
<1>4. t[1] = e /\ \A k \in 2 .. Len(s) + 1 : k - 1 \in DOMAIN s /\ t[k] = s[k - 1] /\ t[k] # e
  BY <1>1, <1>2, <1>3 DEF ToSet
<1>5. \A k \in DOMAIN t : k = 1 \/ k \in 2 .. Len(s) + 1
  BY <1>2, <1>3
<1>6. IsInjective(t)
  <2>1. ASSUME NEW x \in DOMAIN t, NEW y \in DOMAIN t, t[x] = t[y] PROVE x = y
    <3>1. x \in Int /\ y \in Int
      BY <1>3
    <3>2. CASE x = 1 \/ y = 1
      BY <1>4, <1>5, <2>1, <3>2
    <3>3. CASE x \in 2 .. Len(s) + 1 /\ y \in 2 .. Len(s) + 1
      <4>1. x - 1 \in DOMAIN s /\ y - 1 \in DOMAIN s /\ s[x - 1] = s[y - 1]
        BY <1>4, <2>1, <3>3
      <4>2. x - 1 = y - 1
        BY <4>1 DEF IsInjective
      <4> QED
        BY <3>1, <4>2
    <3> QED
      BY <1>5, <3>2, <3>3
  <2> QED
    BY <2>1 DEF IsInjective
<1>7. ToSet(t) = ToSet(s) \cup {e}
  <2>1. \A k \in DOMAIN s : k + 1 \in 2 .. Len(s) + 1 /\ (k + 1) - 1 = k /\ k + 1 \in DOMAIN t
    BY <1>2, <1>3
  <2>2. \A k \in DOMAIN s : t[k + 1] = s[k]
    BY <2>1, <1>4
  <2>3. 1 \in DOMAIN t
    BY <1>2, <1>3
  <2> QED
    BY <1>4, <1>5, <2>1, <2>2, <2>3 DEF ToSet
<1>8. ASSUME NEW i, NEW j, j # e, i = e \/ Before(s, i, j) PROVE Before(t, i, j)
  <2>1. ASSUME NEW x \in DOMAIN t, NEW y \in DOMAIN t, t[x] = i, t[y] = j PROVE x < y
    <3>1. y \in 2 .. Len(s) + 1
      BY <1>4, <1>5, <1>8, <2>1
    <3>2. CASE x = 1
      BY <3>1, <3>2
    <3>3. CASE x \in 2 .. Len(s) + 1
      <4>1. x - 1 \in DOMAIN s /\ y - 1 \in DOMAIN s /\ s[x - 1] = i /\ s[y - 1] = j /\ i # e
        BY <1>4, <2>1, <3>1, <3>3
      <4>2. x - 1 < y - 1
        BY <1>8, <4>1 DEF Before
      <4> QED
        BY <1>3, <4>2, <3>1, <3>3
    <3> QED
      BY <1>5, <3>2, <3>3
  <2> QED
    BY <2>1 DEF Before
<1> QED
  BY <1>2, <1>6, <1>7, <1>8 DEF t

\* Without its head the others keep their order; the head is before all of them.
LEMMA WithoutHead ==
  ASSUME NEW s \in Seq(Ids), s # <<>>, IsInjective(s)
  PROVE  /\ Head(s) \in ToSet(s) /\ Tail(s) \in Seq(Ids) /\ IsInjective(Tail(s))
         /\ ToSet(Tail(s)) = ToSet(s) \ {Head(s)}
         /\ \A i, j : Before(s, i, j) => Before(Tail(s), i, j)
         /\ \A i \in ToSet(s) : ~Before(s, i, Head(s))
<1> DEFINE t == Tail(s)
<1>1. /\ t \in Seq(Ids) /\ Len(t) = Len(s) - 1 /\ Len(s) \in Nat \ {0} /\ Len(t) \in Nat
      /\ \A k \in 1 .. Len(t) : t[k] = s[k + 1]
  BY HeadTailProperties, EmptySeq
<1>2. Head(s) = s[1] /\ DOMAIN s = 1 .. Len(s)
  OBVIOUS
<1> HIDE DEF t
<1>3. DOMAIN t = 1 .. Len(s) - 1
  BY <1>1
<1>4. \A k \in DOMAIN t : k + 1 \in DOMAIN s /\ k + 1 # 1 /\ t[k] = s[k + 1]
  BY <1>1, <1>2, <1>3
<1>5. \A k \in DOMAIN s : k # 1 => k - 1 \in DOMAIN t /\ (k - 1) + 1 = k
  BY <1>1, <1>2, <1>3
<1>6. 1 \in DOMAIN s
  BY <1>1, <1>2
<1>7. IsInjective(t)
  BY <1>1, <1>3, <1>4 DEF IsInjective
<1>8. ToSet(t) = ToSet(s) \ {Head(s)}
  <2>1. ASSUME NEW x \in ToSet(t) PROVE x \in ToSet(s) /\ x # Head(s)
    BY <1>2, <1>4, <1>6 DEF ToSet, IsInjective
  <2>2. ASSUME NEW x \in ToSet(s), x # Head(s) PROVE x \in ToSet(t)
    <3>1. PICK k \in DOMAIN s : s[k] = x
      BY DEF ToSet
    <3>2. k - 1 \in DOMAIN t /\ (k - 1) + 1 = k
      BY <1>2, <1>5, <2>2, <3>1
    <3> QED
      BY <1>4, <3>1, <3>2 DEF ToSet
  <2> QED
    BY <2>1, <2>2
<1>9. ASSUME NEW i, NEW j, Before(s, i, j) PROVE Before(t, i, j)
  BY <1>1, <1>3, <1>4, <1>9 DEF Before
<1>10. ASSUME NEW i \in ToSet(s) PROVE ~Before(s, i, Head(s))
  <2>1. PICK k \in DOMAIN s : s[k] = i
    BY DEF ToSet
  <2>2. ~(k < 1)
    BY <1>2, <2>1
  <2> QED
    BY <1>2, <1>6, <2>1, <2>2 DEF Before
<1> QED
  BY <1>1, <1>2, <1>6, <1>7, <1>8, <1>9, <1>10 DEF t, ToSet

-----------------------------------------------------------------------------
(* What changes and what does not *)

LEMMA Sets ==
  /\ Statuses = {"absent", "pending", "active", "retry", "archived"}
  /\ \A i \in DOMAIN Tasks : i \in Ids /\ Tasks[i].queue \in Queues /\ Tasks[i].body \in Bodies
  /\ None \notin Ids /\ MaxRetry \in Nat /\ NoBody \notin Bodies
BY DeliveryAssumption, AsynqAssumption DEF Statuses

\* What the invariant says of q stays where q does not change.
LEMMA QueueStays ==
  ASSUME NEW q \in Queues, Queue(q),
         status'[q] = status[q], retried'[q] = retried[q], body'[q] = body[q],
         pending'[q] = pending[q], arrived'[q] = arrived[q], received'[q] = received[q],
         worker'[q] = worker[q], result'[q] = result[q],
         worker[q] # None => mode' # "down",
         failedDeliveries \subseteq failedDeliveries', unreported \subseteq unreported',
         orphaned \subseteq orphaned'
  PROVE  Queue(q)'
<1>1. Listed(q)'
  BY DEF Queue, Listed
<1>2. Account(q)' /\ Gone(q)'
  BY DEF Queue, Account, Gone, Exists, Received
<1>3. Handled(q)' /\ Dead(q)'
  BY DEF Queue, Handled, Dead, Received, Reported, LastAttempt
<1>4. InLine(q)'
  BY DEF Queue, InLine, Fresh, Behind, Received
<1> QED
  BY <1>1, <1>2, <1>3, <1>4 DEF Queue

\* Where nothing arrives, Account rests on what comes to exist and to be received.
LEMMA AccountStays ==
  ASSUME NEW q \in Queues, Account(q), arrived'[q] = arrived[q],
         \A i \in Ids :
           /\ Exists(q, i)' => Exists(q, i) /\ body'[q][i] = body[q][i]
           /\ Received(q, i)' => Received(q, i) \/ Exists(q, i)
           /\ status'[q][i] = "retry" => retried'[q][i] > 0
  PROVE  Account(q)'
BY DEF Account

\* Where nothing arrives, InLine rests on what is still fresh.
LEMMA InLineStays ==
  ASSUME NEW q \in Queues, TypesOK, Account(q), InLine(q), arrived'[q] = arrived[q],
         \A i, j \in Ids :
           i # j /\ Fresh(q, i)' => Fresh(q, i) /\ (Behind(q, i, j) => Behind(q, i, j)')
  PROVE  InLine(q)'
<1> SUFFICES ASSUME NEW m \in DOMAIN arrived[q], NEW n \in DOMAIN arrived[q], m < n,
                    Fresh(q, arrived[q][m])'
             PROVE  Behind(q, arrived[q][m], arrived[q][n])'
  BY DEF InLine
<1>1. DOMAIN arrived[q] = 1 .. Len(arrived[q]) /\ arrived[q][m] \in Ids /\ arrived[q][n] \in Ids
  BY DEF TypesOK, AsynqType
<1>2. arrived[q][m] # arrived[q][n]
  BY <1>1 DEF Account, IsInjective
<1> QED
  BY <1>1, <1>2 DEF InLine

\* The status of one task changes.
LEMMA StatusMoves ==
  ASSUME TypesOK, NEW q \in Queues, NEW i \in Ids, NEW st \in Statuses,
         status' = [status EXCEPT ![q][i] = st]
  PROVE  /\ status' \in [Queues -> [Ids -> Statuses]] /\ status'[q][i] = st
         /\ \A k \in Ids \ {i} : status'[q][k] = status[q][k]
         /\ \A p \in Queues \ {q} : status'[p] = status[p]
BY DEF TypesOK, AsynqType

\* What the task in the hands of q is: in the queue's account, and not waiting.
LEMMA InHand ==
  ASSUME TypesOK, NEW q \in Queues, Queue(q), worker[q] # None
  PROVE  /\ worker[q] \in Ids /\ status[q][worker[q]] = "active" /\ mode # "down"
         /\ Exists(q, worker[q]) /\ worker[q] \notin ToSet(pending[q])
         /\ worker[q] \in DOMAIN Tasks /\ body[q][worker[q]] = Tasks[worker[q]].body
         /\ body[q][worker[q]] \in Bodies
<1>1. worker[q] \in Ids /\ status[q][worker[q]] = "active" /\ mode # "down"
  BY DEF TypesOK, Queue, Listed
<1>2. Exists(q, worker[q]) /\ worker[q] \notin ToSet(pending[q])
  BY <1>1 DEF Queue, Listed, Exists
<1>3. worker[q] \in DOMAIN Tasks /\ body[q][worker[q]] = Tasks[worker[q]].body
  BY <1>1, <1>2 DEF Queue, Account
<1> QED
  BY <1>1, <1>2, <1>3, Sets

\* A step within q: the other queues stay as they are.
LEMMA OneQueue ==
  ASSUME IInv, NEW q \in Queues, TypesOK', Queue(q)',
         \A p \in Queues \ {q} :
           /\ status'[p] = status[p] /\ retried'[p] = retried[p] /\ body'[p] = body[p]
           /\ pending'[p] = pending[p] /\ arrived'[p] = arrived[p] /\ received'[p] = received[p]
           /\ worker'[p] = worker[p] /\ result'[p] = result[p],
         mode' = mode,
         failedDeliveries \subseteq failedDeliveries', unreported \subseteq unreported',
         orphaned \subseteq orphaned'
  PROVE  IInv'
<1>1. ASSUME NEW p \in Queues \ {q} PROVE Queue(p)'
  BY QueueStays DEF IInv, Queue, Listed
<1> QED
  BY <1>1 DEF IInv

-----------------------------------------------------------------------------
(* Each action *)

THEOREM InitIInv == Init => IInv
<1> SUFFICES ASSUME Init PROVE IInv
  OBVIOUS
<1> USE DEF Init, AsynqInit
<1>1. TypesOK
  <2>1. <<>> \in Seq(Ids) /\ <<>> \in Seq([id : Ids, body : Bodies])
    BY EmptySeq
  <2>2. 0 \in 0 .. MaxRetry
    BY Sets
  <2>3. AsynqType
    BY <2>1, <2>2 DEF AsynqType, Statuses
  <2> QED
    BY <2>1, <2>3 DEF TypesOK
<1>2. ASSUME NEW q \in Queues PROVE Queue(q)
  <2>1. pending[q] = <<>> /\ arrived[q] = <<>> /\ received[q] = <<>> /\ worker[q] = None
    OBVIOUS
  <2>2. DOMAIN <<>> = {} /\ \A i \in Ids : status[q][i] = "absent"
    OBVIOUS
  <2>3. Listed(q)
    BY <2>1, <2>2 DEF Listed, ToSet, IsInjective
  <2>4. Account(q) /\ Gone(q)
    BY <2>1, <2>2 DEF Account, Gone, ToSet, IsInjective, Exists, Received
  <2>5. Handled(q) /\ Dead(q) /\ InLine(q)
    BY <2>1, <2>2 DEF Handled, Dead, InLine
  <2> QED
    BY <2>3, <2>4, <2>5 DEF Queue
<1> QED
  BY <1>1, <1>2 DEF IInv

\* A task arrives, for the first time, behind everything in its queue.
LEMMA ArriveIInv == ASSUME IInv, Arrive PROVE IInv'
<1>1. PICK e \in DOMAIN Tasks :
        /\ \A p \in Queues : ~Contains(arrived[p], e)
        /\ Insert(Tasks[e].queue, e, Tasks[e].body)
  BY DEF Arrive
<1> DEFINE q == Tasks[e].queue
           b == Tasks[e].body
<1>2. e \in Ids /\ q \in Queues /\ b \in Bodies
  BY Sets
<1>3. /\ status' = [status EXCEPT ![q][e] = "pending"]
      /\ retried' = [retried EXCEPT ![q][e] = 0] /\ body' = [body EXCEPT ![q][e] = b]
      /\ pending' = [pending EXCEPT ![q] = Append(@, e)]
      /\ arrived' = [arrived EXCEPT ![q] = Append(@, e)]
      /\ UNCHANGED <<mode, worker, result, failedDeliveries, unreported, received, orphaned>>
  BY <1>1 DEF Insert, Arrive, delivery, hands, notes
<1>4. ~Exists(q, e)
  BY <1>1 DEF Insert
<1> HIDE DEF q, b
<1> USE DEF IInv, Queue
<1>5. /\ status' \in [Queues -> [Ids -> Statuses]] /\ status'[q][e] = "pending"
      /\ \A k \in Ids \ {e} : status'[q][k] = status[q][k]
      /\ \A p \in Queues \ {q} : status'[p] = status[p]
  BY <1>2, <1>3, Sets, StatusMoves
<1>6. /\ retried' \in [Queues -> [Ids -> 0 .. MaxRetry]] /\ retried'[q][e] = 0
      /\ \A k \in Ids \ {e} : retried'[q][k] = retried[q][k]
      /\ \A p \in Queues \ {q} : retried'[p] = retried[p]
  <2>1. 0 \in 0 .. MaxRetry
    BY Sets
  <2> QED
    BY <1>2, <1>3, <2>1 DEF TypesOK, AsynqType
<1>7. /\ body' \in [Queues -> [Ids -> Bodies \cup {NoBody}]] /\ body'[q][e] = b
      /\ \A k \in Ids \ {e} : body'[q][k] = body[q][k]
      /\ \A p \in Queues \ {q} : body'[p] = body[p]
  BY <1>2, <1>3 DEF TypesOK, AsynqType
<1>8. pending[q] \in Seq(Ids) /\ IsInjective(pending[q]) /\ e \notin ToSet(pending[q])
  BY <1>2, <1>4 DEF TypesOK, AsynqType, Listed, Exists
<1>9. arrived[q] \in Seq(Ids) /\ IsInjective(arrived[q]) /\ e \notin ToSet(arrived[q])
  <2>1. arrived[q] \in Seq(Ids) /\ DOMAIN arrived[q] = 1 .. Len(arrived[q])
    BY <1>2 DEF TypesOK, AsynqType
  <2> QED
    BY <1>1, <1>2, <2>1 DEF Account, Contains, ToSet
<1>10. /\ pending'[q] = Append(pending[q], e) /\ arrived'[q] = Append(arrived[q], e)
       /\ \A p \in Queues \ {q} : pending'[p] = pending[p] /\ arrived'[p] = arrived[p]
  BY <1>2, <1>3 DEF TypesOK, AsynqType
<1>11. /\ pending'[q] \in Seq(Ids) /\ IsInjective(pending'[q])
       /\ ToSet(pending'[q]) = ToSet(pending[q]) \cup {e}
       /\ \A i, j : i # e /\ Before(pending[q], i, j) => Before(pending'[q], i, j)
       /\ \A i : i # e => Before(pending'[q], i, e)
  BY <1>2, <1>8, <1>10, AtTheEnd
<1>12. /\ arrived'[q] \in Seq(Ids) /\ IsInjective(arrived'[q])
       /\ ToSet(arrived'[q]) = ToSet(arrived[q]) \cup {e}
  BY <1>2, <1>9, <1>10, AtTheEnd
<1>13. TypesOK'
  <2>1. pending' \in [Queues -> Seq(Ids)] /\ arrived' \in [Queues -> Seq(Ids)]
    BY <1>2, <1>3, <1>10, <1>11, <1>12 DEF TypesOK, AsynqType
  <2> QED
    BY <1>3, <1>5, <1>6, <1>7, <2>1 DEF TypesOK, AsynqType
<1>14. worker[q] # e
  BY <1>2, <1>4, Sets DEF Listed, Exists
<1>15. ~Received(q, e)
  BY <1>2, <1>9 DEF Account
<1>16. Listed(q)'
  BY <1>2, <1>3, <1>5, <1>11, <1>14, InHand DEF Listed
<1>17. Account(q)'
  <2>1. ASSUME NEW i \in Ids, Exists(q, i)'
        PROVE  i \in ToSet(arrived'[q]) /\ body'[q][i] = Tasks[i].body
    <3>1. CASE i = e
      BY <1>7, <1>12, <3>1 DEF b
    <3>2. CASE i # e
      BY <1>2, <1>5, <1>7, <1>12, <2>1, <3>2 DEF Account, Exists
    <3> QED
      BY <3>1, <3>2
  <2>2. \A i \in Ids : status'[q][i] = "retry" => retried'[q][i] > 0
    BY <1>2, <1>5, <1>6 DEF Account
  <2>3. \A i \in Ids : Received(q, i)' => i \in ToSet(arrived'[q])
    BY <1>2, <1>3, <1>12 DEF Account, Received
  <2> QED
    BY <1>2, <1>12, <2>1, <2>2, <2>3 DEF Account
<1>18. Handled(q)'
  BY <1>2, <1>3, <1>6, <1>7, <1>14, InHand DEF Handled, Received, Reported, LastAttempt
<1>19. Gone(q)' /\ Dead(q)'
  BY <1>2, <1>3, <1>5, <1>7, <1>12 DEF Gone, Dead, Exists, Received, Reported
<1>20. InLine(q)'
  <2> SUFFICES ASSUME NEW m \in DOMAIN arrived'[q], NEW n \in DOMAIN arrived'[q], m < n,
                      NEW i, i = arrived'[q][m], NEW j, j = arrived'[q][n], Fresh(q, i)'
               PROVE  Behind(q, i, j)'
    BY DEF InLine, Fresh, Behind, Received, Before
  <2>1. /\ DOMAIN arrived[q] = 1 .. Len(arrived[q]) /\ DOMAIN arrived'[q] = 1 .. Len(arrived[q]) + 1
        /\ Len(arrived[q]) \in Nat /\ arrived'[q][Len(arrived[q]) + 1] = e
        /\ \A k \in DOMAIN arrived[q] : arrived'[q][k] = arrived[q][k] /\ arrived[q][k] \in Ids
    BY <1>2, <1>9, <1>10
  <2>2. m \in DOMAIN arrived[q] /\ i = arrived[q][m] /\ i \in Ids
    BY <2>1
  <2>3. i # e
    BY <1>9, <2>2 DEF ToSet
  <2>4. Fresh(q, i)
    BY <1>2, <1>3, <1>5, <1>6, <2>2, <2>3 DEF Fresh
  <2>5. CASE n \in DOMAIN arrived[q]
    <3>1. j = arrived[q][n] /\ j \in Ids /\ j # e
      BY <1>9, <2>1, <2>5 DEF ToSet
    <3>2. Behind(q, i, j)
      BY <1>2, <2>2, <2>4, <2>5, <3>1 DEF InLine
    <3> QED
      BY <1>3, <1>5, <1>11, <2>2, <2>3, <3>1, <3>2 DEF Behind, Received
  <2>6. CASE n = Len(arrived[q]) + 1
    <3>1. j = e
      BY <2>1, <2>6
    <3> QED
      BY <1>3, <1>5, <1>11, <1>15, <2>2, <2>3, <3>1 DEF Behind, Received
  <2> QED
    BY <2>1, <2>5, <2>6
<1>21. Queue(q)'
  BY <1>16, <1>17, <1>18, <1>19, <1>20
<1> HIDE DEF Queue, IInv
<1> QED
  BY <1>2, <1>3, <1>5, <1>6, <1>7, <1>10, <1>13, <1>21, OneQueue

\* A worker takes what is before everything else that is pending.
LEMMA FetchIInv == ASSUME IInv, NEW q \in Queues, Fetch(q) PROVE IInv'
<1>1. PICK e \in Ids : Dequeue(q, e) /\ worker' = [worker EXCEPT ![q] = e]
  BY DEF Fetch
<1>2. /\ mode = "up" /\ worker[q] = None /\ result' = [result EXCEPT ![q] = "running"]
      /\ UNCHANGED <<mode, failedDeliveries, unreported, received, orphaned>>
  BY DEF Fetch, notes
<1>3. /\ pending[q] # <<>> /\ e = Head(pending[q]) /\ status' = [status EXCEPT ![q][e] = "active"]
      /\ pending' = [pending EXCEPT ![q] = Tail(@)] /\ UNCHANGED <<retried, body, arrived>>
  BY <1>1 DEF Dequeue
<1> USE DEF IInv, Queue
<1>4. /\ status' \in [Queues -> [Ids -> Statuses]] /\ status'[q][e] = "active"
      /\ \A k \in Ids \ {e} : status'[q][k] = status[q][k]
      /\ \A p \in Queues \ {q} : status'[p] = status[p]
  <2>1. "active" \in Statuses /\ TypesOK
    BY DEF Statuses
  <2> HIDE DEF IInv, Queue
  <2> QED
    BY <1>3, <2>1, StatusMoves
<1>5. /\ worker' \in [Queues -> Ids \cup {None}] /\ worker'[q] = e
      /\ result' \in [Queues -> {"running", "ok", "error"}] /\ result'[q] = "running"
      /\ \A p \in Queues \ {q} : worker'[p] = worker[p] /\ result'[p] = result[p]
  BY <1>1, <1>2 DEF TypesOK
<1>6. /\ e \in ToSet(pending[q]) /\ pending'[q] \in Seq(Ids) /\ IsInjective(pending'[q])
      /\ ToSet(pending'[q]) = ToSet(pending[q]) \ {e}
      /\ \A i, j : Before(pending[q], i, j) => Before(pending'[q], i, j)
      /\ \A i \in ToSet(pending[q]) : ~Before(pending[q], i, e)
  <2>1. pending[q] \in Seq(Ids) /\ IsInjective(pending[q]) /\ pending'[q] = Tail(pending[q])
    BY <1>3 DEF TypesOK, AsynqType, Listed
  <2> QED
    BY <1>3, <2>1, WithoutHead
<1>7. \A p \in Queues \ {q} : pending'[p] = pending[p]
  BY <1>3 DEF TypesOK, AsynqType
<1>8. TypesOK'
  <2>1. pending' \in [Queues -> Seq(Ids)]
    BY <1>3, <1>6 DEF TypesOK, AsynqType
  <2> QED
    BY <1>2, <1>3, <1>4, <1>5, <2>1 DEF TypesOK, AsynqType
<1>9. status[q][e] = "pending"
  BY <1>6 DEF Listed
<1>10. Listed(q)'
  BY <1>2, <1>4, <1>5, <1>6 DEF Listed
<1>11. Account(q)'
  BY <1>2, <1>3, <1>4, <1>9, AccountStays DEF Account, Exists, Received
<1>12. Handled(q)'
  BY <1>5 DEF Handled
<1>13. Gone(q)' /\ Dead(q)'
  BY <1>2, <1>3, <1>4, <1>9 DEF Gone, Dead, Exists, Received, Reported
<1>14. InLine(q)'
  <2>1. ASSUME NEW i \in Ids, NEW j \in Ids, i # j, Fresh(q, i)'
        PROVE  Fresh(q, i) /\ (Behind(q, i, j) => Behind(q, i, j)')
    <3>1. Fresh(q, i) /\ status[q][i] = "pending"
      <4>1. CASE i = e
        BY <1>3, <1>9, <2>1, <4>1 DEF Fresh
      <4>2. CASE i # e
        BY <1>3, <1>4, <1>5, <2>1, <4>2 DEF Fresh
      <4> QED
        BY <4>1, <4>2
    <3>2. i \in ToSet(pending[q])
      BY <3>1 DEF Listed
    <3>3. ASSUME Behind(q, i, j) PROVE Behind(q, i, j)'
      <4>1. Before(pending[q], i, j) /\ j # e
        BY <1>6, <3>1, <3>2, <3>3 DEF Behind
      <4> QED
        BY <1>2, <1>4, <1>6, <3>3, <4>1 DEF Behind, Received
    <3> QED
      BY <3>1, <3>3
  <2> QED
    BY <1>3, <2>1, InLineStays
<1>15. Queue(q)'
  BY <1>10, <1>11, <1>12, <1>13, <1>14
<1> HIDE DEF Queue, IInv
<1> QED
  BY <1>2, <1>3, <1>4, <1>5, <1>7, <1>8, <1>15, OneQueue

\* What Handle may do: the task is received or not, and the answer is an error only where
\* it could not be decoded or, on the last attempt, the failure was noted down.
LEMMA HandleOutcome ==
  ASSUME IInv, NEW q \in Queues, Handle(q)
  PROVE  LET e == worker[q] IN
         /\ e # None /\ UNCHANGED <<mode, worker, orphaned, redis>>
         /\ \E r \in {"ok", "error"} :
              /\ result' = [result EXCEPT ![q] = r]
              /\ r = "ok" /\ Routed(body[q][e]) =>
                   received' = [received EXCEPT ![q] = Append(@, [id |-> e, body |-> body[q][e]])]
              /\ r = "error" /\ LastAttempt(q, e) =>
                   Corrupt(body[q][e]) \/ e \in failedDeliveries' \cup unreported'
         /\ \/ received' = received
            \/ received' = [received EXCEPT ![q] = Append(@, [id |-> e, body |-> body[q][e]])]
         /\ failedDeliveries' \in {failedDeliveries, failedDeliveries \cup {e}}
         /\ unreported' \in {unreported, unreported \cup {e}}
<1> DEFINE e == worker[q]
           b == body[q][e]
           arrives == received' = [received EXCEPT ![q] = Append(@, [id |-> e, body |-> b])]
           quiet == UNCHANGED <<failedDeliveries, unreported, received>>
<1>1. e # None /\ UNCHANGED <<mode, worker, orphaned, redis>>
  BY DEF Handle
<1>2. ASSUME SaveFailedDelivery(q, e)
      PROVE  /\ failedDeliveries' \in {failedDeliveries, failedDeliveries \cup {e}}
             /\ unreported' \in {unreported, unreported \cup {e}}
             /\ LastAttempt(q, e) => e \in failedDeliveries' \cup unreported'
  BY <1>2 DEF SaveFailedDelivery, notes
<1>3. \/ Corrupt(b) /\ Returns(q, "error") /\ quiet
      \/ ~Routed(b) /\ Returns(q, "ok") /\ quiet
      \/ arrives /\ Returns(q, "ok") /\ UNCHANGED <<failedDeliveries, unreported>>
      \/ (arrives \/ UNCHANGED received) /\ Returns(q, "error") /\ SaveFailedDelivery(q, e)
  BY DEF Handle, notes
<1> HIDE DEF b
<1> QED
  BY <1>1, <1>2, <1>3 DEF Returns, b

LEMMA HandleIInv == ASSUME IInv, NEW q \in Queues, Handle(q) PROVE IInv'
<1>a. PICK e : e = worker[q]
  OBVIOUS
<1>b. PICK new : new = [id |-> e, body |-> body[q][e]]
  OBVIOUS
<1>1. PICK r \in {"ok", "error"} :
        /\ result' = [result EXCEPT ![q] = r]
        /\ r = "ok" /\ Routed(body[q][e]) => received' = [received EXCEPT ![q] = Append(@, new)]
        /\ r = "error" /\ LastAttempt(q, e) =>
             Corrupt(body[q][e]) \/ e \in failedDeliveries' \cup unreported'
  BY <1>a, <1>b, HandleOutcome
<1>2. /\ e # None /\ UNCHANGED <<mode, worker, orphaned>>
      /\ UNCHANGED <<status, retried, body, pending, arrived>>
      /\ received' = received \/ received' = [received EXCEPT ![q] = Append(@, new)]
      /\ failedDeliveries' \in {failedDeliveries, failedDeliveries \cup {e}}
      /\ unreported' \in {unreported, unreported \cup {e}}
  BY <1>a, <1>b, HandleOutcome DEF redis
<1>3. TypesOK /\ Queue(q)
  BY DEF IInv
<1>4. /\ e \in Ids /\ status[q][e] = "active" /\ Exists(q, e) /\ body[q][e] \in Bodies
  BY <1>a, <1>2, <1>3, InHand
<1>5. new \in [id : Ids, body : Bodies] /\ new.id = e
  BY <1>b, <1>4
<1>6. received[q] \in Seq([id : Ids, body : Bodies])
  BY <1>3 DEF TypesOK
<1>7. /\ received' \in [Queues -> Seq([id : Ids, body : Bodies])]
      /\ \A p \in Queues \ {q} : received'[p] = received[p]
      /\ received'[q] = received[q] \/ received'[q] = Append(received[q], new)
  <2>1. Append(received[q], new) \in Seq([id : Ids, body : Bodies])
    BY <1>5, <1>6
  <2> QED
    BY <1>2, <1>3, <2>1 DEF TypesOK
<1>8. /\ \A i \in Ids : Received(q, i) => Received(q, i)'
      /\ \A i \in Ids : Received(q, i)' => Received(q, i) \/ i = e
      /\ received'[q] = Append(received[q], new) => Received(q, e)'
  <2>1. CASE received'[q] = received[q]
    <3>1. received[q] # Append(received[q], new)
      BY <1>5, <1>6
    <3> QED
      BY <2>1, <3>1 DEF Received
  <2>2. CASE received'[q] = Append(received[q], new)
    <3>1. /\ DOMAIN received[q] = 1 .. Len(received[q]) /\ Len(received[q]) \in Nat
          /\ DOMAIN received'[q] = 1 .. Len(received[q]) + 1
          /\ received'[q][Len(received[q]) + 1] = new
          /\ \A k \in DOMAIN received[q] : received'[q][k] = received[q][k]
      BY <1>5, <1>6, <2>2
    <3> QED
      <4>1. ASSUME NEW i \in Ids, Received(q, i) PROVE Received(q, i)'
        BY <3>1, <4>1 DEF Received
      <4>2. ASSUME NEW i \in Ids, Received(q, i)' PROVE Received(q, i) \/ i = e
        <5>1. PICK k \in DOMAIN received'[q] : received'[q][k].id = i
          BY <4>2 DEF Received
        <5> QED
          BY <1>5, <3>1, <5>1 DEF Received
      <4>3. Received(q, e)'
        <5>1. Len(received[q]) + 1 \in DOMAIN received'[q]
          BY <3>1
        <5> QED
          BY <1>5, <3>1, <5>1 DEF Received
      <4> QED
        BY <4>1, <4>2, <4>3
  <2> QED
    BY <1>7, <2>1, <2>2
<1>9. /\ result' \in [Queues -> {"running", "ok", "error"}] /\ result'[q] = r
      /\ \A p \in Queues \ {q} : result'[p] = result[p]
  BY <1>1, <1>3 DEF TypesOK
<1>10. TypesOK'
  BY <1>2, <1>3, <1>4, <1>7, <1>9 DEF TypesOK, AsynqType
<1>11. Listed(q)'
  BY <1>2, <1>3 DEF Queue, Listed
<1>12. Account(q)'
  BY <1>2, <1>3, <1>4, <1>8, AccountStays DEF Queue, Account, Exists
<1>13. Handled(q)'
  <2>1. worker'[q] = e
    BY <1>a, <1>2
  <2>2. ASSUME r = "ok", Routed(body[q][e]) PROVE Received(q, e)'
    BY <1>1, <1>3, <1>8, <2>2 DEF TypesOK
  <2>3. ASSUME r = "error", LastAttempt(q, e) PROVE Reported(e)' \/ Corrupt(body[q][e])
    BY <1>1, <2>3 DEF Reported
  <2> QED
    BY <1>2, <1>9, <2>1, <2>2, <2>3 DEF Handled, LastAttempt, Received
<1>14. Gone(q)'
  BY <1>2, <1>3, <1>8 DEF Queue, Gone, Exists
<1>15. Dead(q)'
  BY <1>2, <1>3 DEF Queue, Dead, Reported
<1>16. InLine(q)'
  <2>1. ASSUME NEW i \in Ids, NEW j \in Ids, i # j, Fresh(q, i)'
        PROVE  Fresh(q, i) /\ (Behind(q, i, j) => Behind(q, i, j)')
    BY <1>2, <1>4, <1>8, <2>1 DEF Fresh, Behind
  <2> QED
    BY <1>2, <1>3, <2>1, InLineStays DEF Queue
<1>17. Queue(q)'
  BY <1>11, <1>12, <1>13, <1>14, <1>15, <1>16 DEF Queue
<1> QED
  BY <1>2, <1>7, <1>9, <1>10, <1>17, OneQueue

\* asynq takes the task out of the hands of its worker: an answer of its handler, or none
\* where a crash left the task alone, ends its attempt.
LEMMA AttemptEnds ==
  ASSUME IInv, NEW q \in Queues, NEW e \in Ids, status[q][e] = "active",
         RetryOrArchive(q, e), worker'[q] # e,
         worker' = worker \/ worker' = [worker EXCEPT ![q] = None],
         LastAttempt(q, e) => Reported(e)' \/ Corrupt(body[q][e]),
         orphaned' \in {orphaned, orphaned \cup {e}},
         UNCHANGED <<mode, result, failedDeliveries, unreported, received>>
  PROVE  IInv'
<1> USE DEF IInv, Queue
<1>1. PICK st \in {"retry", "archived"} :
        /\ status' = [status EXCEPT ![q][e] = st] /\ UNCHANGED <<body, pending, arrived>>
        /\ st = "archived" => LastAttempt(q, e)
        /\ \/ st = "retry" /\ retried[q][e] < MaxRetry /\ retried' = [retried EXCEPT ![q][e] = @ + 1]
           \/ st = "archived" /\ UNCHANGED retried
  <2>1. retried[q][e] \in 0 .. MaxRetry /\ MaxRetry \in Nat
    BY Sets DEF TypesOK, AsynqType
  <2> QED
    BY <2>1 DEF RetryOrArchive, LastAttempt
<1>2. /\ status' \in [Queues -> [Ids -> Statuses]] /\ status'[q][e] = st
      /\ \A k \in Ids \ {e} : status'[q][k] = status[q][k]
      /\ \A p \in Queues \ {q} : status'[p] = status[p]
  <2>1. st \in Statuses /\ TypesOK
    BY DEF Statuses
  <2> HIDE DEF IInv, Queue
  <2> QED
    BY <1>1, <2>1, StatusMoves
<1>3. /\ retried' \in [Queues -> [Ids -> 0 .. MaxRetry]]
      /\ st = "retry" => retried'[q][e] > 0
      /\ \A k \in Ids \ {e} : retried'[q][k] = retried[q][k]
      /\ \A p \in Queues \ {q} : retried'[p] = retried[p]
  <2>1. retried[q][e] \in 0 .. MaxRetry /\ MaxRetry \in Nat
    BY Sets DEF TypesOK, AsynqType
  <2>2. CASE st = "retry"
    <3>1. retried[q][e] + 1 \in 0 .. MaxRetry /\ retried[q][e] + 1 > 0
      BY <1>1, <2>1, <2>2
    <3>2. retried' = [retried EXCEPT ![q][e] = retried[q][e] + 1]
      BY <1>1, <2>2
    <3> QED
      BY <3>1, <3>2 DEF TypesOK, AsynqType
  <2>3. CASE st = "archived"
    BY <1>1, <2>3 DEF TypesOK, AsynqType
  <2> QED
    BY <2>2, <2>3
<1>4. /\ worker' \in [Queues -> Ids \cup {None}] /\ worker'[q] \in {worker[q], None}
      /\ \A p \in Queues \ {q} : worker'[p] = worker[p]
  BY DEF TypesOK
<1>5. TypesOK'
  BY <1>1, <1>2, <1>3, <1>4 DEF TypesOK, AsynqType
<1>6. Listed(q)'
  BY <1>1, <1>2, <1>4 DEF Listed
<1>7. Account(q)'
  <2>1. ASSUME NEW i \in Ids, status'[q][i] = "retry" PROVE retried'[q][i] > 0
    BY <1>2, <1>3, <2>1 DEF Account
  <2> QED
    BY <1>1, <1>2, <2>1, AccountStays DEF Exists, Received
<1>8. Handled(q)'
  <2>1. worker'[q] # None => worker'[q] = worker[q] /\ worker[q] \in Ids \ {e}
    BY <1>4, Sets DEF TypesOK
  <2> QED
    BY <1>1, <1>3, <2>1 DEF Handled, Received, Reported, LastAttempt
<1>9. Gone(q)'
  BY <1>1, <1>2 DEF Gone, Exists, Received
<1>10. Dead(q)'
  <2>1. st = "archived" => Reported(e)' \/ Corrupt(body[q][e])
    BY <1>1
  <2> QED
    BY <1>1, <1>2, <2>1 DEF Dead, Reported
<1>11. InLine(q)'
  <2>1. ASSUME NEW i \in Ids, NEW j \in Ids, i # j, Fresh(q, i)'
        PROVE  Fresh(q, i) /\ (Behind(q, i, j) => Behind(q, i, j)')
    <3>1. i # e
      BY <1>2, <2>1 DEF Fresh
    <3>2. Fresh(q, i)
      BY <1>2, <1>3, <1>4, <2>1, <3>1, Sets DEF Fresh
    <3>3. ASSUME Behind(q, i, j) PROVE Behind(q, i, j)'
      <4>1. j # e
        BY <3>3 DEF Behind
      <4> QED
        BY <1>1, <1>2, <3>1, <3>3, <4>1 DEF Behind, Received
    <3> QED
      BY <3>2, <3>3
  <2> QED
    BY <1>1, <2>1, InLineStays
<1>12. Queue(q)'
  BY <1>6, <1>7, <1>8, <1>9, <1>10, <1>11
<1> HIDE DEF Queue, IInv
<1> QED
  BY <1>1, <1>2, <1>3, <1>4, <1>5, <1>12, OneQueue

\* A task whose handler succeeded leaves Redis: it was received, or had no route.
LEMMA CompleteIInv ==
  ASSUME IInv, NEW q \in Queues, Settle(q), result[q] = "ok"
  PROVE  IInv'
<1> USE DEF IInv, Queue
<1>a. PICK e : e = worker[q]
  OBVIOUS
<1>1. /\ e # None /\ Complete(q, e) /\ worker' = [worker EXCEPT ![q] = None]
      /\ UNCHANGED <<mode, result, failedDeliveries, unreported, received, orphaned>>
  BY <1>a DEF Settle, notes
<1>2. /\ status' = [status EXCEPT ![q][e] = "absent"] /\ body' = [body EXCEPT ![q][e] = NoBody]
      /\ UNCHANGED <<retried, pending, arrived>>
  BY <1>1 DEF Complete
<1>3. /\ e \in Ids /\ status[q][e] = "active" /\ Exists(q, e) /\ body[q][e] = Tasks[e].body
      /\ Routed(body[q][e]) => Received(q, e)
  <2>1. /\ e \in Ids /\ status[q][e] = "active" /\ Exists(q, e) /\ body[q][e] = Tasks[e].body
    BY <1>a, <1>1, InHand
  <2>2. Routed(body[q][e]) => Received(q, e)
    BY <1>a, <1>1 DEF Handled
  <2> QED
    BY <2>1, <2>2
<1>4. /\ status' \in [Queues -> [Ids -> Statuses]] /\ status'[q][e] = "absent"
      /\ \A k \in Ids \ {e} : status'[q][k] = status[q][k]
      /\ \A p \in Queues \ {q} : status'[p] = status[p]
  <2>1. "absent" \in Statuses /\ TypesOK
    BY DEF Statuses
  <2> HIDE DEF IInv, Queue
  <2> QED
    BY <1>2, <1>3, <2>1, StatusMoves
<1>5. /\ body' \in [Queues -> [Ids -> Bodies \cup {NoBody}]]
      /\ \A k \in Ids \ {e} : body'[q][k] = body[q][k]
      /\ \A p \in Queues \ {q} : body'[p] = body[p]
  BY <1>2, <1>3 DEF TypesOK, AsynqType
<1>6. /\ worker' \in [Queues -> Ids \cup {None}] /\ worker'[q] = None
      /\ \A p \in Queues \ {q} : worker'[p] = worker[p]
  BY <1>1 DEF TypesOK
<1>7. TypesOK'
  BY <1>1, <1>2, <1>4, <1>5, <1>6 DEF TypesOK, AsynqType
<1>8. Listed(q)'
  BY <1>2, <1>3, <1>4, <1>6 DEF Listed
<1>9. Account(q)'
  <2>1. ASSUME NEW i \in Ids
        PROVE  /\ Exists(q, i)' => Exists(q, i) /\ body'[q][i] = body[q][i]
               /\ Received(q, i)' => Received(q, i) \/ Exists(q, i)
               /\ status'[q][i] = "retry" => retried'[q][i] > 0
    BY <1>1, <1>2, <1>4, <1>5 DEF Account, Exists, Received
  <2> QED
    BY <1>2, <2>1, AccountStays
<1>10. Handled(q)'
  BY <1>6 DEF Handled
<1>11. Gone(q)'
  <2>1. ASSUME NEW i \in Ids, i \in ToSet(arrived[q]), ~Exists(q, i)', Routed(Tasks[i].body)
        PROVE  Received(q, i)
    <3>1. CASE i = e
      BY <1>3, <2>1, <3>1
    <3>2. CASE i # e
      BY <1>4, <2>1, <3>2 DEF Gone, Exists
    <3> QED
      BY <3>1, <3>2
  <2> QED
    BY <1>1, <1>2, <2>1 DEF Gone, Received
<1>12. Dead(q)'
  BY <1>1, <1>4, <1>5 DEF Dead, Reported
<1>13. InLine(q)'
  <2>1. ASSUME NEW i \in Ids, NEW j \in Ids, i # j, Fresh(q, i)'
        PROVE  Fresh(q, i) /\ (Behind(q, i, j) => Behind(q, i, j)')
    <3>1. i # e /\ Fresh(q, i)
      BY <1>2, <1>4, <1>6, <2>1, Sets DEF Fresh
    <3> QED
      BY <1>1, <1>2, <1>3, <1>4, <3>1 DEF Behind, Received
  <2> QED
    BY <1>2, <2>1, InLineStays
<1>14. Queue(q)'
  BY <1>8, <1>9, <1>10, <1>11, <1>12, <1>13
<1> HIDE DEF Queue, IInv
<1> QED
  BY <1>1, <1>2, <1>4, <1>5, <1>6, <1>7, <1>14, OneQueue

LEMMA SettleIInv == ASSUME IInv, NEW q \in Queues, Settle(q) PROVE IInv'
<1>1. CASE result[q] = "ok"
  BY <1>1, CompleteIInv
<1>2. CASE result[q] # "ok"
  <2>a. PICK e : e = worker[q]
    OBVIOUS
  <2>1. /\ e # None /\ result[q] = "error" /\ RetryOrArchive(q, e)
        /\ worker' = [worker EXCEPT ![q] = None]
        /\ UNCHANGED <<mode, result, failedDeliveries, unreported, received, orphaned>>
    BY <1>2, <2>a DEF Settle, notes, IInv, TypesOK
  <2>2. e \in Ids /\ status[q][e] = "active"
    BY <2>a, <2>1, InHand DEF IInv
  <2>3. LastAttempt(q, e) => Reported(e)' \/ Corrupt(body[q][e])
    BY <2>a, <2>1 DEF IInv, Queue, Handled, Reported
  <2>4. worker'[q] # e
    BY <2>1 DEF IInv, TypesOK
  <2> QED
    BY <2>a, <2>1, <2>2, <2>3, <2>4, AttemptEnds
<1> QED
  BY <1>1, <1>2

\* The attempt of an orphaned task counts as failed, and as its last if it was.
LEMMA RecoverIInv == ASSUME IInv, NEW q \in Queues, Recover(q) PROVE IInv'
<1>1. PICK e \in Ids :
        /\ status[q][e] = "active" /\ worker[q] # e /\ RetryOrArchive(q, e)
        /\ orphaned' = IF LastAttempt(q, e) THEN orphaned \cup {e} ELSE orphaned
  BY DEF Recover
<1>2. UNCHANGED <<mode, worker, result, failedDeliveries, unreported, received>>
  BY DEF Recover, hands, notes
<1>3. LastAttempt(q, e) => Reported(e)'
  BY <1>1 DEF Reported
<1> QED
  BY <1>1, <1>2, <1>3, AttemptEnds

\* A task becomes pending again, at the end of its queue if it failed before, or at the
\* front if it was in the hands of a worker that stops.
LEMMA PendingAgain ==
  ASSUME IInv, NEW q \in Queues, NEW e \in Ids, status[q][e] \in {"active", "retry"},
         status' = [status EXCEPT ![q][e] = "pending"],
         \/ status[q][e] = "retry" /\ pending' = [pending EXCEPT ![q] = Append(@, e)]
         \/ worker[q] = e /\ pending' = [pending EXCEPT ![q] = <<e>> \o @],
         worker' = worker \/ worker' = [worker EXCEPT ![q] = None],
         worker'[q] # e,
         UNCHANGED <<retried, body, arrived, mode, result, failedDeliveries, unreported,
                     received, orphaned>>
  PROVE  IInv'
<1> USE DEF IInv, Queue
<1>1. /\ status' \in [Queues -> [Ids -> Statuses]] /\ status'[q][e] = "pending"
      /\ \A k \in Ids \ {e} : status'[q][k] = status[q][k]
      /\ \A p \in Queues \ {q} : status'[p] = status[p]
  <2>1. "pending" \in Statuses /\ TypesOK
    BY DEF Statuses
  <2> HIDE DEF IInv, Queue
  <2> QED
    BY <2>1, StatusMoves
<1>2. /\ worker' \in [Queues -> Ids \cup {None}] /\ worker'[q] \in {worker[q], None}
      /\ \A p \in Queues \ {q} : worker'[p] = worker[p]
  BY DEF TypesOK
<1>3. pending[q] \in Seq(Ids) /\ IsInjective(pending[q]) /\ e \notin ToSet(pending[q])
  BY DEF TypesOK, AsynqType, Listed
<1>4. /\ pending'[q] \in Seq(Ids) /\ IsInjective(pending'[q])
      /\ ToSet(pending'[q]) = ToSet(pending[q]) \cup {e}
      /\ \A i, j : i # e /\ j # e /\ Before(pending[q], i, j) => Before(pending'[q], i, j)
      /\ worker[q] = e => \A j : j # e => Before(pending'[q], e, j)
      /\ \A p \in Queues \ {q} : pending'[p] = pending[p]
  <2>1. CASE status[q][e] = "retry" /\ pending' = [pending EXCEPT ![q] = Append(@, e)]
    <3>1. pending'[q] = Append(pending[q], e) /\ \A p \in Queues \ {q} : pending'[p] = pending[p]
      BY <2>1 DEF TypesOK, AsynqType
    <3>2. worker[q] # e
      BY <2>1, Sets DEF Listed
    <3> QED
      BY <1>3, <3>1, <3>2, AtTheEnd
  <2>2. CASE worker[q] = e /\ pending' = [pending EXCEPT ![q] = <<e>> \o @]
    <3>1. pending'[q] = <<e>> \o pending[q] /\ \A p \in Queues \ {q} : pending'[p] = pending[p]
      BY <2>2 DEF TypesOK, AsynqType
    <3> QED
      BY <1>3, <3>1, AtTheFront
  <2> QED
    BY <2>1, <2>2
<1>5. TypesOK'
  <2>1. pending' \in [Queues -> Seq(Ids)]
    BY <1>4 DEF TypesOK, AsynqType
  <2> QED
    BY <1>1, <1>2, <2>1 DEF TypesOK, AsynqType
<1>6. Listed(q)'
  BY <1>1, <1>2, <1>4 DEF Listed
<1>7. Account(q)'
  <2>1. ASSUME NEW i \in Ids
        PROVE  /\ Exists(q, i)' => Exists(q, i) /\ body'[q][i] = body[q][i]
               /\ Received(q, i)' => Received(q, i) \/ Exists(q, i)
               /\ status'[q][i] = "retry" => retried'[q][i] > 0
    BY <1>1 DEF Account, Exists, Received
  <2> QED
    BY <2>1, AccountStays
<1>8. Handled(q)'
  <2>1. worker'[q] # None => worker'[q] = worker[q]
    BY <1>2
  <2> QED
    BY <2>1 DEF Handled, Received, Reported, LastAttempt
<1>9. Gone(q)' /\ Dead(q)'
  BY <1>1 DEF Gone, Dead, Exists, Received, Reported
<1>10. InLine(q)'
  <2>1. ASSUME NEW i \in Ids, NEW j \in Ids, i # j, Fresh(q, i)'
        PROVE  Fresh(q, i) /\ (Behind(q, i, j) => Behind(q, i, j)')
    <3>1. Fresh(q, i) /\ (i = e => worker[q] = e)
      <4>1. CASE i = e
        <5>1. retried[q][e] = 0
          BY <2>1, <4>1 DEF Fresh
        <5>2. status[q][e] # "retry"
          BY <5>1 DEF Account
        <5> QED
          BY <4>1, <5>1, <5>2 DEF Fresh
      <4>2. CASE i # e
        BY <1>1, <1>2, <2>1, <4>2, Sets DEF Fresh
      <4> QED
        BY <4>1, <4>2
    <3>2. ASSUME Behind(q, i, j) PROVE Behind(q, i, j)'
      <4>1. j # e
        BY <3>2 DEF Behind
      <4>2. status'[q][j] = "pending" /\ ~Received(q, j)'
        BY <1>1, <3>2, <4>1 DEF Behind, Received
      <4>3. ASSUME status'[q][i] = "pending" PROVE Before(pending'[q], i, j)
        BY <1>1, <1>4, <2>1, <3>1, <3>2, <4>1, <4>3 DEF Behind
      <4> QED
        BY <4>2, <4>3 DEF Behind, Before
    <3> QED
      BY <3>1, <3>2
  <2> QED
    BY <2>1, InLineStays
<1>11. Queue(q)'
  BY <1>6, <1>7, <1>8, <1>9, <1>10
<1> HIDE DEF Queue, IInv
<1> QED
  BY <1>1, <1>2, <1>4, <1>5, <1>11, OneQueue

LEMMA BackoffIInv == ASSUME IInv, NEW q \in Queues, Backoff(q) PROVE IInv'
<1>1. PICK e \in Ids : Forward(q, e)
  BY DEF Backoff
<1>2. /\ status[q][e] = "retry" /\ status' = [status EXCEPT ![q][e] = "pending"]
      /\ pending' = [pending EXCEPT ![q] = Append(@, e)]
      /\ UNCHANGED <<retried, body, arrived, mode, worker, result, failedDeliveries, unreported,
                     received, orphaned>>
  BY <1>1 DEF Forward, Backoff, delivery, hands, notes
<1>3. worker[q] # e
  BY <1>2, Sets DEF IInv, Queue, Listed
<1> QED
  BY <1>2, <1>3, PendingAgain

LEMMA RequeueIInv == ASSUME IInv, NEW q \in Queues, Requeue(q) PROVE IInv'
<1>a. PICK e : e = worker[q]
  OBVIOUS
<1>1. /\ e # None /\ status' = [status EXCEPT ![q][e] = "pending"]
      /\ pending' = [pending EXCEPT ![q] = <<e>> \o @] /\ worker' = [worker EXCEPT ![q] = None]
      /\ UNCHANGED <<retried, body, arrived, mode, result, failedDeliveries, unreported,
                     received, orphaned>>
  BY <1>a DEF Requeue, notes
<1>2. e \in Ids /\ status[q][e] = "active"
  BY <1>a, <1>1, InHand DEF IInv
<1>3. worker'[q] # e
  BY <1>1 DEF IInv, TypesOK
<1> QED
  BY <1>a, <1>1, <1>2, <1>3, PendingAgain

\* The process dies: what was in hand is active and in no hand, and none of it fresh.
LEMMA CrashIInv == ASSUME IInv, CrashConsumer PROVE IInv'
<1>1. /\ mode' = "down" /\ worker' = [q \in Queues |-> None]
      /\ UNCHANGED <<result, failedDeliveries, unreported, received, orphaned>>
      /\ UNCHANGED <<status, retried, body, pending, arrived>>
  BY DEF CrashConsumer, notes, redis
<1>2. TypesOK'
  BY <1>1 DEF IInv, TypesOK, AsynqType
<1>3. ASSUME NEW q \in Queues PROVE Queue(q)'
  <2>1. TypesOK /\ Queue(q) /\ worker'[q] = None
    BY <1>1 DEF IInv
  <2>2. Listed(q)' /\ Handled(q)'
    BY <1>1, <2>1 DEF Queue, Listed, Handled
  <2>3. Account(q)' /\ Gone(q)' /\ Dead(q)'
    BY <1>1, <2>1 DEF Queue, Account, Gone, Dead, Exists, Received, Reported
  <2>4. InLine(q)'
    <3>1. ASSUME NEW i \in Ids, NEW j \in Ids, i # j, Fresh(q, i)'
          PROVE  Fresh(q, i) /\ (Behind(q, i, j) => Behind(q, i, j)')
      BY <1>1, <2>1, <3>1, Sets DEF Fresh, Behind, Received
    <3> QED
      BY <1>1, <2>1, <3>1, InLineStays DEF Queue
  <2> QED
    BY <2>2, <2>3, <2>4 DEF Queue
<1> QED
  BY <1>2, <1>3 DEF IInv

\* The process starts, is told to stop, or stops with empty hands.
LEMMA LifeIInv ==
  ASSUME IInv, StartConsumer \/ Stop \/ Stopped \/ UNCHANGED vars
  PROVE  IInv'
<1>1. UNCHANGED <<worker, result, failedDeliveries, unreported, received, orphaned,
                  status, retried, body, pending, arrived>>
  BY DEF StartConsumer, Stop, Stopped, vars, delivery, hands, notes, redis
<1>2. /\ mode' \in {"down", "up", "stopping"}
      /\ \A q \in Queues : worker[q] # None => mode' # "down"
  BY DEF IInv, TypesOK, Queue, Listed, StartConsumer, Stop, Stopped, vars, delivery
<1>3. TypesOK'
  BY <1>1, <1>2 DEF IInv, TypesOK, AsynqType
<1>4. ASSUME NEW q \in Queues PROVE Queue(q)'
  BY <1>1, <1>2, QueueStays DEF IInv
<1> QED
  BY <1>3, <1>4 DEF IInv

THEOREM StepIInv == IInv /\ [Next]_vars => IInv'
<1> SUFFICES ASSUME IInv, [Next]_vars PROVE IInv'
  OBVIOUS
<1>1. CASE Arrive
  BY <1>1, ArriveIInv
<1>2. ASSUME NEW q \in Queues, Serve(q) PROVE IInv'
  BY <1>2, FetchIInv, HandleIInv, SettleIInv, BackoffIInv, RecoverIInv DEF Serve
<1>3. ASSUME NEW q \in Queues, Requeue(q) PROVE IInv'
  BY <1>3, RequeueIInv
<1>4. CASE CrashConsumer
  BY <1>4, CrashIInv
<1>5. CASE StartConsumer \/ Stop \/ Stopped \/ UNCHANGED vars
  BY <1>5, LifeIInv
<1> QED
  BY <1>1, <1>2, <1>3, <1>4, <1>5 DEF Next, Step, Drained

\* The inductive invariant holds throughout.
THEOREM Invariant == Spec => []IInv
<1>1. Init => IInv
  BY InitIInv
<1>2. IInv /\ [Next]_vars => IInv'
  BY StepIInv
<1> QED
  BY <1>1, <1>2, PTL DEF Spec

-----------------------------------------------------------------------------
(* What the consumer promises *)

\* The variables keep their types; a worker holds an active task, and a queue lists
\* what is pending, each task once.
THEOREM TypeCorrect == Spec => []TypeOK
<1>1. IInv => TypeOK
  BY DEF IInv, TypesOK, TypeOK, Queue, Listed
<1> QED
  BY <1>1, Invariant, PTL

\* A task is received before one that arrived earlier only if an attempt of the earlier
\* one failed or a crash left it alone, whatever the number of restarts and of returns
\* to the front of the queue.
THEOREM OrderKept == Spec => []OvertakenOnlyAfterFailure
<1>1. IInv => OvertakenOnlyAfterFailure
  <2> SUFFICES ASSUME IInv, NEW q \in Queues, NEW m \in DOMAIN arrived[q],
                      NEW n \in DOMAIN arrived[q], NEW i, i = arrived[q][m],
                      NEW j, j = arrived[q][n],
                      m < n, Received(q, j), Exists(q, i),
                      ~(retried[q][i] > 0), status[q][i] # "archived",
                      ~(status[q][i] = "active" /\ worker[q] # i)
               PROVE  FALSE
    BY DEF OvertakenOnlyAfterFailure
  <2>1. i \in Ids /\ retried[q][i] \in Nat /\ status[q][i] \in Statuses
    <3>1. DOMAIN arrived[q] = 1 .. Len(arrived[q]) /\ i \in Ids
      BY DEF IInv, TypesOK, AsynqType
    <3> QED
      BY <3>1, Sets DEF IInv, TypesOK, AsynqType
  <2>2. retried[q][i] = 0
    BY <2>1
  <2>3. status[q][i] # "retry"
    BY <2>1 DEF IInv, Queue, Account
  <2>4. Fresh(q, i)
    BY <2>1, <2>2, <2>3 DEF Fresh, Exists, Statuses
  <2>5. Behind(q, i, j)
    BY <2>4 DEF IInv, Queue, InLine
  <2> QED
    BY <2>5 DEF Behind
<1> QED
  BY <1>1, Invariant, PTL

\* What left Redis was received by srp-hub-api, unless its route refuses it: no crash,
\* stop or lost answer makes a task vanish.
THEOREM NothingVanishes == Spec => []GoneMeansReceived
<1>1. IInv => GoneMeansReceived
  <2> SUFFICES ASSUME IInv, NEW q \in Queues, NEW i \in DOMAIN Tasks,
                      Contains(arrived[q], i), ~Exists(q, i), Routed(Tasks[i].body)
               PROVE  Received(q, i)
    BY DEF GoneMeansReceived
  <2>1. i \in Ids
    BY Sets
  <2>2. i \in ToSet(arrived[q])
    <3>1. arrived[q] \in Seq(Ids)
      BY DEF IInv, TypesOK, AsynqType
    <3> QED
      BY <3>1 DEF Contains, ToSet
  <2> QED
    BY <2>1, <2>2 DEF IInv, Queue, Gone
<1> QED
  BY <1>1, Invariant, PTL

\* Every task in asynq's archive is a row of failed_deliveries, or its row was refused by
\* SQLite, or nobody saw its last attempt end, or it could not be decoded.
THEOREM ArchiveAccounted == Spec => []DeadLetterAccounted
<1>1. IInv => DeadLetterAccounted
  BY DEF IInv, Queue, Dead, Reported, DeadLetterAccounted
<1> QED
  BY <1>1, Invariant, PTL
=============================================================================
