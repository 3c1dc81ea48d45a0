------------------------ MODULE DistributedQueueProofs ------------------------
(***************************************************************************)
(* Theorems about DistributedQueue for any number of workers, reconcilers, *)
(* messages, enqueues and attempts, checked by TLAPS: the state keeps its  *)
(* types (QueueTypeCorrect), no update of a delivery count is lost         *)
(* (AttemptsCorrect), no delivery is in the hands of two workers           *)
(* (DeliveryCorrect), and the queue does what WorkQueue promises           *)
(* (QueueImplemented).                                                     *)
(***************************************************************************)
EXTENDS DistributedQueue, TLAPS, WellFoundedInduction

-----------------------------------------------------------------------------
(* Lists                                                                   *)

\* A set of numbers has a least one: an argument by induction is one about the least
\* counterexample.
LEMMA LeastNatural ==
    ASSUME NEW T \in SUBSET Nat, T # {}
    PROVE  \E n \in T : \A m \in T : n <= m
<1> DEFINE R == OpToRel(<, Nat)
<1>1. IsWellFoundedOn(R, Nat)
  BY NatLessThanWellFounded
<1> HIDE DEF R
<1>2. PICK n \in T : \A m \in T : <<m, n>> \notin R
  BY <1>1, WFMin
<1>3. \A m \in T : ~(m < n)
  BY <1>2 DEF R, OpToRel
<1> QED
  BY <1>3

\* What is left of a list has the entries the list had.
LEMMA WithoutType ==
    ASSUME NEW S, NEW s \in Seq(S), NEW m
    PROVE  Without(s, m) \in Seq(S)
<1> DEFINE N == Len(s)
           B(f, i) == IF i = 0 THEN <<>>
                      ELSE IF s[i] = m THEN f[i - 1] ELSE Append(f[i - 1], s[i])
           Kept(n, f) == f = [i \in 0 .. n |-> B(f, i)]
<1>1. Without(s, m) = (CHOOSE f : Kept(N, f))[N]
  BY DEF Without
<1>2. N \in Nat /\ \A i \in 1 .. N : s[i] \in S
  OBVIOUS
<1>3. ASSUME NEW n \in Nat, NEW f, Kept(n, f), n <= N PROVE f \in [0 .. n -> Seq(S)]
  <2> DEFINE T == {i \in 0 .. n : f[i] \notin Seq(S)}
  <2>1. SUFFICES ASSUME T # {} PROVE FALSE
    BY <1>3
  <2>0. T \in SUBSET Nat
    OBVIOUS
  <2> HIDE DEF T
  <2>2. PICK i \in T : \A j \in T : i <= j
    BY <2>0, <2>1, LeastNatural
  <2> USE DEF T
  <2>3. f[i] = B(f, i)
    BY <1>3, <2>2
  <2>4. i # 0
    <3>1. <<>> \in Seq(S)
      OBVIOUS
    <3>2. i = 0 => f[i] = <<>>
      BY <2>3
    <3> QED
      BY <2>2, <3>1, <3>2
  <2>5. f[i - 1] \in Seq(S)
    BY <2>2, <2>4
  <2>6. i \in 1 .. N
    BY <1>2, <1>3, <2>2, <2>4
  <2>7. s[i] \in S
    BY <1>2, <2>6
  <2>8. f[i] \in Seq(S)
    BY <2>3, <2>4, <2>5, <2>7
  <2> QED
    BY <2>2, <2>8
<1>4. \A n \in Nat : \E f : Kept(n, f)
  <2> DEFINE T == {n \in Nat : ~\E f : Kept(n, f)}
  <2>1. SUFFICES ASSUME T # {} PROVE FALSE
    OBVIOUS
  <2>0. T \in SUBSET Nat
    OBVIOUS
  <2> HIDE DEF T
  <2>2. PICK n \in T : \A k \in T : n <= k
    BY <2>0, <2>1, LeastNatural
  <2> USE DEF T
  <2>3. Kept(0, [i \in 0 .. 0 |-> <<>>])
    OBVIOUS
  <2>4. n \in Nat \ {0}
    BY <2>2, <2>3
  <2>5. n - 1 \in Nat /\ n - 1 \notin T
    <3>1. n - 1 \in Nat /\ ~(n <= n - 1)
      BY <2>4
    <3> HIDE DEF T
    <3> QED
      BY <2>2, <3>1
  <2>6. PICK f : Kept(n - 1, f)
    BY <2>5
  <2> DEFINE g == [i \in 0 .. n |-> IF i = n THEN B(f, n) ELSE f[i]]
  <2>7. \A i \in 0 .. n - 1 : f[i] = B(f, i)
    BY <2>6
  <2>8. \A i \in 0 .. n : g[i] = B(g, i)
    BY <2>4, <2>7
  <2>9. Kept(n, g)
    BY <2>8
  <2> QED
    BY <2>2, <2>9
<1>5. Kept(N, CHOOSE f : Kept(N, f))
  BY <1>2, <1>4
<1> HIDE DEF Kept
<1> QED
  BY <1>1, <1>2, <1>3, <1>5

-----------------------------------------------------------------------------
(* Types                                                                   *)

\* Where a process is busy with a message.
Named == {"claim", "register", "work", "ack", "delMeta", "unlist", "unlistCas", "append",
          "retryRead", "retryCas", "retryKeys", "retryClear", "pruneCas"}


Swapping == {"claim", "register", "retryCas"}

Local(p) ==
    /\ pc[p] \in Named => msg[p] \in Msgs
    /\ pc[p] \in Swapping => seenMeta[p].gen > 0 /\ seenMeta[p].attempt < MaxAttempt
    /\ pc[p] \in {"requeue", "append"} => todo[p] \subseteq Msgs

TypeInv == TypeOK /\ \A p \in Procs : Local(p)

\* A process that does not move.
Idle(p) == /\ pc'[p] = pc[p] /\ msg'[p] = msg[p]
           /\ seenMeta'[p] = seenMeta[p] /\ todo'[p] = todo[p]
           /\ p \in Workers => delivery'[p] = delivery[p]

StaysAs(p) == \A q \in Procs \ {p} : Idle(q)

\* A function changed in one place keeps its type if the new value has it.
LEMMA UpdateType ==
    ASSUME NEW D, NEW R, NEW f \in [D -> R], NEW d, NEW v \in R
    PROVE  [f EXCEPT ![d] = v] \in [D -> R]
OBVIOUS

\* The empty values have their types.
LEMMA EmptyTypes == NoMeta \in Meta /\ NoDelivery \in Delivery
BY QueueAssumption DEF NoMeta, NoDelivery, Meta, Delivery

\* What a process remembers, and what it finds under the message it is busy with.
LEMMA ProcType ==
    ASSUME TypeInv, NEW p \in Procs
    PROVE  /\ pc[p] \in Locations /\ seenMeta[p] \in Meta /\ seenList[p] \in Seq(Msgs)
           /\ todo[p] \subseteq Msgs \cup Workers /\ drop[p] \subseteq Msgs
           /\ pc[p] \in Named => msg[p] \in Msgs /\ meta[msg[p]] \in Meta
BY DEF TypeInv, TypeOK, Local

\* A process that strikes an entry off what it has to visit keeps the types.
LEMMA VisitedType ==
    ASSUME TypeInv, NEW p \in Procs,
           todo' = todo \/ \E x : todo' = [todo EXCEPT ![p] = todo[p] \ {x}]
    PROVE  todo' \in [Procs -> SUBSET (Msgs \cup Workers)]
<1>1. /\ todo \in [Procs -> SUBSET (Msgs \cup Workers)]
      /\ \A x : todo[p] \ {x} \in SUBSET (Msgs \cup Workers)
  BY DEF TypeInv, TypeOK
<1> QED
  BY <1>1, UpdateType

\* A process that moves on keeps the types.
LEMMA GotoType ==
    ASSUME TypeInv, NEW p \in Procs, NEW l \in Locations, Goto(p, l)
    PROVE  pc' \in [Procs -> Locations]
BY DEF TypeInv, TypeOK, Goto

\* A claim and a retry leave a record.
LEMMA BumpedType ==
    ASSUME TypeInv, NEW p \in Procs, pc[p] \in Swapping
    PROVE  Bumped(p, FALSE) \in Meta
<1>1. seenMeta[p] \in Meta /\ seenMeta[p].attempt < MaxAttempt
  BY DEF TypeInv, TypeOK, Local
<1>2. seenMeta[p].attempt + 1 \in 0 .. MaxAttempt
  BY <1>1, QueueAssumption DEF Meta
<1> QED
  BY <1>1, <1>2 DEF Bumped, Meta

\* What follows an ack.
LEMMA AfterAckType ==
    ASSUME TypeInv, NEW w \in Workers, msg[w] \in Msgs, AfterAck(w)
    PROVE  /\ again' \in [Workers -> BOOLEAN] /\ pc' \in [Procs -> Locations]
           /\ todo' \in [Procs -> SUBSET (Msgs \cup Workers)]
<1>1. again' \in [Workers -> BOOLEAN]
  BY DEF AfterAck, TypeInv, TypeOK
<1>2. pc' \in [Procs -> Locations]
  BY GotoType DEF AfterAck, Procs, Locations
<1>3. todo' \in [Procs -> SUBSET (Msgs \cup Workers)]
  <2>1. todo' = todo \/ todo' = [todo EXCEPT ![w] = {msg[w]}]
    BY DEF AfterAck
  <2>2. /\ todo \in [Procs -> SUBSET (Msgs \cup Workers)]
        /\ {msg[w]} \in SUBSET (Msgs \cup Workers)
    BY DEF TypeInv, TypeOK
  <2> QED
    BY <2>1, <2>2, UpdateType
<1> QED
  BY <1>1, <1>2, <1>3

\* Every step of a process keeps the types.
LEMMA TypeStep ==
    ASSUME TypeInv, NEW p \in Procs,
           (p \in Workers /\ WorkerStep(p)) \/ ReconcilerStep(p)
    PROVE  TypeOK'
<1> USE DEF TypeInv
<1>1. CASE ScanList(p)
  BY <1>1, GotoType DEF ScanList, TypeOK, Locations, shared
<1>2. CASE ScanEntry(p)
  <2>1. CASE seenList[p] = <<>>
    BY <1>2, <2>1, GotoType DEF ScanEntry, TypeOK, Locations, shared
  <2>2. CASE seenList[p] # <<>>
    <3> DEFINE m == Head(seenList[p])
    <3>1. m \in Msgs /\ Tail(seenList[p]) \in Seq(Msgs) /\ meta[m] \in Meta
      BY <2>2, ProcType DEF TypeOK
    <3>2. seenList' \in [Procs -> Seq(Msgs)]
      BY <1>2, <2>2, <3>1 DEF ScanEntry, TypeOK
    <3>3. \/ UNCHANGED <<pc, msg, seenMeta>>
          \/ /\ Goto(p, "claim")
             /\ msg' = [msg EXCEPT ![p] = m] /\ seenMeta' = [seenMeta EXCEPT ![p] = meta[m]]
      BY <1>2, <2>2 DEF ScanEntry
    <3>4. /\ pc' \in [Procs -> Locations] /\ msg' \in [Procs -> Msgs \cup {NoMsg}]
          /\ seenMeta' \in [Procs -> Meta]
      BY <3>1, <3>3, GotoType DEF TypeOK, Locations
    <3> QED
      BY <1>2, <3>2, <3>4 DEF ScanEntry, TypeOK, shared
  <2> QED
    BY <2>1, <2>2
<1>3. CASE ClaimMeta(p)
  <2>1. pc[p] \in Swapping /\ pc[p] \in Named
    BY <1>3 DEF ClaimMeta, Swapping, Named
  <2>2. meta' \in [Msgs -> Meta]
    <3>1. meta' = meta \/ meta' = [meta EXCEPT ![msg[p]] = Bumped(p, FALSE)]
      BY <1>3 DEF ClaimMeta
    <3>2. meta \in [Msgs -> Meta] /\ Bumped(p, FALSE) \in Meta
      BY <2>1, BumpedType DEF TypeOK
    <3> QED
      BY <3>1, <3>2, UpdateType
  <2>3. pc' \in [Procs -> Locations]
    BY <1>3, GotoType DEF ClaimMeta, Locations
  <2>4. seenMeta' \in [Procs -> Meta]
    BY <1>3, EmptyTypes DEF ClaimMeta, TypeOK
  <2> QED
    BY <1>3, <2>2, <2>3, <2>4 DEF ClaimMeta, TypeOK
<1>4. CASE p \in Workers /\ Register(p)
  <2> DEFINE d == [msg     |-> msg[p],
                   gen     |-> seenMeta[p].gen,
                   attempt |-> seenMeta[p].attempt + 1]
  <2>1. msg[p] \in Msgs /\ seenMeta[p] \in Meta /\ seenMeta[p].attempt < MaxAttempt
    BY <1>4, ProcType DEF Register, Named, Swapping, Local
  <2>2. d \in Delivery
    BY <2>1, QueueAssumption DEF Delivery, Meta
  <2> HIDE DEF d
  <2>3. \/ /\ inflight' = [inflight EXCEPT ![p] = @ \cup {msg[p]}]
           /\ delivery' = [delivery EXCEPT ![p] = d]
           /\ seenList' = [seenList EXCEPT ![p] = <<>>]
        \/ UNCHANGED <<inflight, delivery, seenList>>
    BY <1>4 DEF Register, d
  <2>4. /\ inflight' \in [Workers -> SUBSET Msgs] /\ delivery' \in [Workers -> Delivery]
        /\ seenList' \in [Procs -> Seq(Msgs)]
    <3>1. CASE UNCHANGED <<inflight, delivery, seenList>>
      BY <3>1 DEF TypeOK
    <3>2. CASE /\ inflight' = [inflight EXCEPT ![p] = @ \cup {msg[p]}]
               /\ delivery' = [delivery EXCEPT ![p] = d]
               /\ seenList' = [seenList EXCEPT ![p] = <<>>]
      <4>1. inflight' = [inflight EXCEPT ![p] = inflight[p] \cup {msg[p]}]
        BY <3>2
      <4>2. inflight[p] \cup {msg[p]} \in SUBSET Msgs
        BY <1>4, <2>1 DEF TypeOK
      <4>3. inflight' \in [Workers -> SUBSET Msgs]
        BY <4>1, <4>2, UpdateType DEF TypeOK
      <4>4. delivery' \in [Workers -> Delivery]
        BY <2>2, <3>2, UpdateType DEF TypeOK
      <4>5. seenList' \in [Procs -> Seq(Msgs)]
        BY <3>2 DEF TypeOK
      <4> QED
        BY <4>3, <4>4, <4>5
    <3> QED
      BY <2>3, <3>1, <3>2
  <2>5. pc' \in [Procs -> Locations] /\ seenMeta' \in [Procs -> Meta]
    BY <1>4, GotoType, EmptyTypes DEF Register, TypeOK, Locations
  <2> QED
    BY <1>4, <2>4, <2>5 DEF Register, TypeOK
<1>5. CASE p \in Workers /\ (Finish(p) \/ Progress(p))
  BY <1>5, GotoType DEF Finish, Progress, TypeOK, Locations, shared
<1>6. CASE PutBack(p) \/ RetryKeys(p) \/ RepairKeys(p)
  BY <1>6, GotoType DEF PutBack, RetryKeys, RepairKeys, TypeOK, Locations, shared
<1>7. CASE p \in Workers /\ AckTake(p)
  <2>1. msg[p] \in Msgs
    BY <1>7, ProcType DEF AckTake, Named
  <2>2. /\ again' \in [Workers -> BOOLEAN] /\ pc' \in [Procs -> Locations]
        /\ todo' \in [Procs -> SUBSET (Msgs \cup Workers)]
    BY <1>7, <2>1, GotoType, AfterAckType DEF AckTake, TypeOK, Locations
  <2>3. inflight' \in [Workers -> SUBSET Msgs] /\ delivery' \in [Workers -> Delivery]
    <3>1. inflight' = inflight \/ inflight' = [inflight EXCEPT ![p] = inflight[p] \ {msg[p]}]
      BY <1>7 DEF AckTake
    <3>2. inflight \in [Workers -> SUBSET Msgs] /\ inflight[p] \ {msg[p]} \in SUBSET Msgs
      BY <1>7 DEF TypeOK
    <3>3. inflight' \in [Workers -> SUBSET Msgs]
      BY <3>1, <3>2, UpdateType
    <3> QED
      BY <1>7, <3>3, EmptyTypes, UpdateType DEF AckTake, TypeOK
  <2> QED
    BY <1>7, <2>2, <2>3 DEF AckTake, TypeOK
<1>8. CASE p \in Workers /\ AckDelMeta(p)
  BY <1>8, GotoType, EmptyTypes DEF AckDelMeta, TypeOK, Locations
<1>9. CASE p \in Workers /\ (AckUnlist(p) \/ AckUnlistCas(p))
  <2>1. msg[p] \in Msgs
    BY <1>9, ProcType DEF AckUnlist, AckUnlistCas, Named
  <2>2. /\ again' \in [Workers -> BOOLEAN] /\ pc' \in [Procs -> Locations]
        /\ todo' \in [Procs -> SUBSET (Msgs \cup Workers)]
    BY <1>9, <2>1, GotoType, AfterAckType DEF AckUnlist, AckUnlistCas, TypeOK, Locations
  <2>3. seenList' \in [Procs -> Seq(Msgs)]
    <3>1. \/ seenList' = seenList
          \/ seenList' = [seenList EXCEPT ![p] = visible]
          \/ seenList' = [seenList EXCEPT ![p] = <<>>]
      BY <1>9 DEF AckUnlist, AckUnlistCas
    <3>2. seenList \in [Procs -> Seq(Msgs)] /\ visible \in Seq(Msgs) /\ <<>> \in Seq(Msgs)
      BY DEF TypeOK
    <3> QED
      BY <3>1, <3>2, UpdateType
  <2>4. visible' \in Seq(Msgs)
    BY <1>9, WithoutType DEF AckUnlist, AckUnlistCas, TypeOK, shared
  <2> QED
    BY <1>9, <2>2, <2>3, <2>4 DEF AckUnlist, AckUnlistCas, TypeOK, shared
<1>10. CASE p \in Workers /\ RetryRead(p)
  <2>1. msg[p] \in Msgs /\ meta[msg[p]] \in Meta
    BY <1>10, ProcType DEF RetryRead, Named
  <2>2. pc' \in [Procs -> Locations]
    BY <1>10, GotoType DEF RetryRead, Locations
  <2>3. seenMeta' \in [Procs -> Meta] /\ delivery' \in [Workers -> Delivery]
    BY <1>10, <2>1, EmptyTypes DEF RetryRead, TypeOK
  <2> QED
    BY <1>10, <2>2, <2>3 DEF RetryRead, TypeOK, shared
<1>11. CASE RetryCas(p)
  <2>1. pc[p] \in Swapping /\ pc[p] \in Named
    BY <1>11 DEF RetryCas, Swapping, Named
  <2>2. meta' \in [Msgs -> Meta]
    <3>1. meta' = meta \/ meta' = [meta EXCEPT ![msg[p]] = Bumped(p, FALSE)]
      BY <1>11 DEF RetryCas
    <3>2. meta \in [Msgs -> Meta] /\ Bumped(p, FALSE) \in Meta
      BY <2>1, BumpedType DEF TypeOK
    <3> QED
      BY <3>1, <3>2, UpdateType
  <2>3. pc' \in [Procs -> Locations]
    BY <1>11, GotoType DEF RetryCas, Locations
  <2>4. seenMeta' \in [Procs -> Meta]
    BY <1>11, EmptyTypes DEF RetryCas, TypeOK
  <2> QED
    BY <1>11, <2>2, <2>3, <2>4 DEF RetryCas, TypeOK
<1>12. CASE RetryClear(p)
  <2>1. inflight' \in [Workers -> SUBSET Msgs]
    <3>1. \/ inflight' = inflight
          \/ \E x \in Workers : inflight' = [inflight EXCEPT ![x] = inflight[x] \ {msg[p]}]
      BY <1>12 DEF RetryClear
    <3>2. /\ inflight \in [Workers -> SUBSET Msgs]
          /\ \A x \in Workers : inflight[x] \ {msg[p]} \in SUBSET Msgs
      BY DEF TypeOK
    <3> QED
      BY <3>1, <3>2, UpdateType
  <2>2. todo' \in [Procs -> SUBSET (Msgs \cup Workers)]
    <3>1. todo' = todo \/ \E x : todo' = [todo EXCEPT ![p] = todo[p] \ {x}]
      BY <1>12 DEF RetryClear
    <3> QED
      BY <3>1, VisitedType
  <2>3. pc' \in [Procs -> Locations]
    BY <1>12, GotoType DEF RetryClear, TypeOK, Locations
  <2> QED
    BY <1>12, <2>1, <2>2, <2>3 DEF RetryClear, TypeOK
<1>13. CASE EnqueueMeta(p)
  <2>1. CASE UNCHANGED <<meta, lastGen, msg>>
    <3>1. todo' \in [Procs -> SUBSET (Msgs \cup Workers)]
      <4>1. todo' = todo \/ \E x : todo' = [todo EXCEPT ![p] = todo[p] \ {x}]
        BY <1>13 DEF EnqueueMeta
      <4> QED
        BY <4>1, VisitedType
    <3>2. pc' \in [Procs -> Locations]
      BY <1>13, GotoType DEF EnqueueMeta, NextLocation, Locations
    <3> QED
      BY <1>13, <2>1, <3>1, <3>2 DEF EnqueueMeta, TypeOK
  <2>2. ASSUME NEW m \in todo[p], lastGen[m] < MaxGen,
               lastGen' = [lastGen EXCEPT ![m] = @ + 1],
               meta' = [meta EXCEPT ![m] =
                          [gen |-> lastGen[m] + 1, attempt |-> 0, due |-> TRUE]],
               msg' = [msg EXCEPT ![p] = m],
               todo' = [todo EXCEPT ![p] = @ \ {m}],
               Goto(p, "append")
        PROVE  TypeOK'
    <3>1. m \in Msgs
      BY <1>13, <2>2 DEF EnqueueMeta, Local
    <3>2. lastGen[m] + 1 \in 0 .. MaxGen
      BY <2>2, <3>1, QueueAssumption DEF TypeOK
    <3>3. [gen |-> lastGen[m] + 1, attempt |-> 0, due |-> TRUE] \in Meta
      BY <3>2, QueueAssumption DEF Meta
    <3>4. meta' \in [Msgs -> Meta]
      BY <2>2, <3>3 DEF TypeOK
    <3>5. lastGen' \in [Msgs -> 0 .. MaxGen]
      BY <2>2, <3>2 DEF TypeOK
    <3>6. /\ msg' \in [Procs -> Msgs \cup {NoMsg}] /\ pc' \in [Procs -> Locations]
          /\ todo' \in [Procs -> SUBSET (Msgs \cup Workers)]
      BY <2>2, <3>1, GotoType DEF TypeOK, Locations
    <3> QED
      BY <1>13, <3>4, <3>5, <3>6 DEF EnqueueMeta, TypeOK
  <2> QED
    BY <1>13, <2>1, <2>2 DEF EnqueueMeta, Creatable
<1>14. CASE EnqueueAppend(p)
  <2>1. msg[p] \in Msgs
    BY <1>14, ProcType DEF EnqueueAppend, Named
  <2> QED
    BY <1>14, <2>1, GotoType DEF EnqueueAppend, NextLocation, TypeOK, Locations
<1>15. CASE RepairList(p)
  <2>1. \A i \in DOMAIN visible : visible[i] \in Msgs
    BY DEF TypeOK
  <2> QED
    BY <1>15, <2>1, GotoType
       DEF RepairList, Unlisted, Ghosts, Entries, TypeOK, Locations, shared
<1>16. CASE Revisible(p)
  <2>1. visible' \in Seq(Msgs)
    <3>1. visible' = visible \/ \E m \in Msgs : visible' = Append(visible, m)
      BY <1>16 DEF Revisible
    <3>2. visible \in Seq(Msgs) /\ \A m \in Msgs : Append(visible, m) \in Seq(Msgs)
      BY DEF TypeOK
    <3> QED
      BY <3>1, <3>2
  <2>2. todo' \in [Procs -> SUBSET (Msgs \cup Workers)]
    <3>1. todo' = todo \/ \E x : todo' = [todo EXCEPT ![p] = todo[p] \ {x}]
      BY <1>16 DEF Revisible
    <3> QED
      BY <3>1, VisitedType
  <2>3. pc' \in [Procs -> Locations]
    BY <1>16, GotoType DEF Revisible, TypeOK, Locations
  <2> QED
    BY <1>16, <2>1, <2>2, <2>3 DEF Revisible, TypeOK
<1>17. CASE Prune(p)
  <2>1. pc' \in [Procs -> Locations]
    BY <1>17, GotoType DEF Prune, TypeOK, Locations
  <2>2. todo' \in [Procs -> SUBSET (Msgs \cup Workers)]
    BY <1>17 DEF Prune, TypeOK
  <2>3. drop' \in [Procs -> SUBSET Msgs]
    BY <1>17 DEF Prune, TypeOK
  <2>4. msg' \in [Procs -> Msgs \cup {NoMsg}] /\ seenList' \in [Procs -> Seq(Msgs)]
    <3>1. \/ msg' = msg /\ seenList' = seenList
          \/ \E m \in drop[p] : /\ msg' = [msg EXCEPT ![p] = m]
                               /\ seenList' = [seenList EXCEPT ![p] = visible]
      BY <1>17 DEF Prune
    <3>2. drop[p] \subseteq Msgs
      BY ProcType
    <3>3. msg' \in [Procs -> Msgs \cup {NoMsg}]
      BY <3>1, <3>2 DEF TypeOK
    <3>4. seenList' = seenList \/ seenList' = [seenList EXCEPT ![p] = visible]
      BY <3>1
    <3>5. seenList' \in [Procs -> Seq(Msgs)]
      BY <3>4, UpdateType DEF TypeOK
    <3> QED
      BY <3>3, <3>5
  <2> QED
    BY <1>17, <2>1, <2>2, <2>3, <2>4 DEF Prune, TypeOK, shared
<1>18. CASE PruneCas(p)
  BY <1>18, GotoType, WithoutType DEF PruneCas, TypeOK, Locations
<1> QED
  BY <1>1, <1>2, <1>3, <1>4, <1>5, <1>6, <1>7, <1>8, <1>9, <1>10, <1>11, <1>12, <1>13, <1>14,
     <1>15, <1>16, <1>17, <1>18
     DEF WorkerStep, Claim, Process, Ack, Retry, Enqueue, ReconcilerStep, Repair

\* The state of the other processes stays as it is.
LEMMA StaysStep ==
    ASSUME TypeOK, NEW p \in Procs, WorkerStep(p) \/ ReconcilerStep(p)
    PROVE  StaysAs(p)
BY DEF StaysAs, Idle, TypeOK, shared, Goto, AfterAck, WorkerStep, Claim, Process, Ack, Retry,
       Enqueue, ReconcilerStep, Repair, ScanList, ScanEntry, ClaimMeta, Register, Finish,
       Progress, PutBack, AckTake, AckDelMeta, AckUnlist, AckUnlistCas, RetryRead, RetryCas,
       RetryKeys, RetryClear, EnqueueMeta, EnqueueAppend, RepairKeys, RepairList, Revisible,
       Prune, PruneCas

\* A step of a process leaves it busy with a message, or with nothing, as Local says.
LEMMA LocalStep ==
    ASSUME TypeInv, NEW p \in Procs,
           (p \in Workers /\ WorkerStep(p)) \/ ReconcilerStep(p)
    PROVE  Local(p)'
<1> USE DEF TypeInv, TypeOK, Local, Named, Swapping, Goto
<1>1. CASE ScanList(p) \/ PutBack(p) \/ RetryKeys(p) \/ RepairKeys(p) \/ RepairList(p)
  BY <1>1 DEF ScanList, PutBack, RetryKeys, RepairKeys, RepairList
<1>2. CASE ScanEntry(p)
  <2>1. CASE UNCHANGED msg /\ pc'[p] \in {"idle", "scan"}
    BY <2>1
  <2>2. CASE /\ Head(seenList[p]) \in Msgs
             /\ Present(Head(seenList[p])) /\ meta[Head(seenList[p])].attempt < MaxAttempt
             /\ msg' = [msg EXCEPT ![p] = Head(seenList[p])]
             /\ seenMeta' = [seenMeta EXCEPT ![p] = meta[Head(seenList[p])]]
             /\ Goto(p, "claim")
    BY <2>2 DEF Present
  <2>3. seenList[p] # <<>> => Head(seenList[p]) \in Msgs
    OBVIOUS
  <2> QED
    BY <1>2, <2>1, <2>2, <2>3 DEF ScanEntry
<1>3. CASE ClaimMeta(p) \/ RetryCas(p)
  BY <1>3 DEF ClaimMeta, RetryCas
<1>4. CASE Register(p) \/ Finish(p) \/ Progress(p) \/ AckDelMeta(p)
  BY <1>4 DEF Register, Finish, Progress, AckDelMeta, shared
<1>5. CASE AckTake(p) \/ AckUnlist(p) \/ AckUnlistCas(p)
  BY <1>5 DEF AckTake, AckUnlist, AckUnlistCas, AfterAck
<1>6. CASE RetryRead(p)
  BY <1>6 DEF RetryRead, Present
<1>7. CASE RetryClear(p)
  BY <1>7 DEF RetryClear
<1>8. CASE EnqueueMeta(p)
  BY <1>8 DEF EnqueueMeta, NextLocation
<1>9. CASE EnqueueAppend(p)
  BY <1>9 DEF EnqueueAppend, NextLocation
<1>10. CASE Revisible(p) \/ Prune(p) \/ PruneCas(p)
  BY <1>10 DEF Revisible, Prune, PruneCas
<1> QED
  BY <1>1, <1>2, <1>3, <1>4, <1>5, <1>6, <1>7, <1>8, <1>9, <1>10
     DEF WorkerStep, Claim, Process, Ack, Retry, Enqueue, ReconcilerStep, Repair

\* A process that dies keeps the types, and so does the clock.
LEMMA TypeCrash ==
    ASSUME TypeInv, NEW p \in Procs, Crash(p)
    PROVE  TypeInv'
<1> USE DEF TypeInv
<1>1. pc' \in [Procs -> Locations]
  BY GotoType DEF Crash, Locations
<1>2. /\ msg' \in [Procs -> Msgs \cup {NoMsg}] /\ seenMeta' \in [Procs -> Meta]
      /\ seenList' \in [Procs -> Seq(Msgs)]
      /\ todo' \in [Procs -> SUBSET (Msgs \cup Workers)] /\ drop' \in [Procs -> SUBSET Msgs]
  BY EmptyTypes DEF Crash, TypeOK
<1>3. again' \in [Workers -> BOOLEAN]
  BY DEF Crash
<1>4. delivery' \in [Workers -> Delivery]
  BY EmptyTypes DEF Crash, TypeOK
<1>5. TypeOK'
  BY <1>1, <1>2, <1>3, <1>4 DEF Crash, TypeOK, shared
<1>6. \A q \in Procs : Local(q)'
  BY DEF Crash, Goto, TypeOK, Local, Named, Swapping, shared
<1> QED
  BY <1>5, <1>6

LEMMA TypeTimeout ==
    ASSUME TypeInv, NEW m \in Msgs, Timeout(m)
    PROVE  TypeInv'
<1>3. meta' \in [Msgs -> Meta]
  BY DEF Timeout, TypeInv, TypeOK, Meta
<1>4. TypeOK'
  BY <1>3 DEF Timeout, TypeInv, TypeOK, local
<1>5. \A q \in Procs : Local(q)'
  BY DEF Timeout, TypeInv, Local, local
<1> QED
  BY <1>4, <1>5 DEF TypeInv

LEMMA TypeInit == Init => TypeInv
BY EmptyTypes, QueueAssumption DEF Init, TypeInv, TypeOK, Local, Named, Swapping, Locations

LEMMA TypeNext == TypeInv /\ [Next]_vars => TypeInv'
<1> SUFFICES ASSUME TypeInv, [Next]_vars PROVE TypeInv'
  OBVIOUS
<1>1. ASSUME NEW p \in Procs, (p \in Workers /\ WorkerStep(p)) \/ ReconcilerStep(p)
      PROVE  TypeInv'
  <2>1. TypeOK'
    BY <1>1, TypeStep
  <2>2. Local(p)'
    BY <1>1, LocalStep
  <2>3. \A q \in Procs \ {p} : Local(q)'
    BY <1>1, StaysStep DEF TypeInv, Local, StaysAs, Idle
  <2> QED
    BY <2>1, <2>2, <2>3 DEF TypeInv
<1>2. CASE \E p \in Mortal : Crash(p)
  BY <1>2, TypeCrash, QueueAssumption DEF Procs
<1>3. CASE \E m \in Msgs : Timeout(m)
  BY <1>3, TypeTimeout
<1>4. CASE UNCHANGED vars
  BY <1>4 DEF vars, TypeInv, TypeOK, Local
<1> QED
  BY <1>1, <1>2, <1>3, <1>4 DEF Next, Procs

\* The state of the queue and of its users keeps its types.
THEOREM QueueTypeCorrect == Spec => []TypeOK
<1>1. TypeInv => TypeOK
  BY DEF TypeInv
<1> QED
  BY <1>1, TypeInit, TypeNext, PTL DEF Spec

-----------------------------------------------------------------------------
(* No update of a delivery count is lost                                   *)

\* A worker whose cas succeeds replaces the record it has read by one with one more
\* attempt.
Swap(w) == /\ pc[w] \in Swapping /\ msg[w] \in Msgs /\ Unchanged(w)
           /\ meta' = [meta EXCEPT ![msg[w]] = Bumped(w, FALSE)]

\* A message id that is not enqueued gets a record under a number it never had.
Create(m) == /\ ~Present(m)
             /\ lastGen' = [lastGen EXCEPT ![m] = @ + 1]
             /\ meta' = [meta EXCEPT ![m] =
                           [gen |-> lastGen[m] + 1, attempt |-> 0, due |-> TRUE]]

\* The ways a record changes.
LEMMA MetaSteps ==
    ASSUME TypeInv, [Next]_vars
    PROVE  \/ UNCHANGED <<meta, lastGen>>
           \/ UNCHANGED lastGen /\ \E w \in Workers : Swap(w) /\ (ClaimMeta(w) \/ RetryCas(w))
           \/ UNCHANGED lastGen /\ \E m \in Msgs : Timeout(m)
           \/ UNCHANGED lastGen /\ \E w \in Workers : AckDelMeta(w) /\ msg[w] \in Msgs
           \/ \E p \in Procs, m \in Msgs : EnqueueMeta(p) /\ Create(m)
<1>1. ASSUME NEW w \in Workers, ClaimMeta(w) \/ RetryCas(w)
      PROVE  UNCHANGED lastGen /\ (UNCHANGED meta \/ Swap(w))
  <2>1. pc[w] \in Swapping /\ pc[w] \in Named
    BY <1>1 DEF ClaimMeta, RetryCas, Swapping, Named
  <2>2. msg[w] \in Msgs
    BY <2>1 DEF TypeInv, Local, Procs
  <2> QED
    BY <1>1, <2>1, <2>2 DEF ClaimMeta, RetryCas, Swap
<1>2. ASSUME NEW w \in Workers, AckDelMeta(w)
      PROVE  UNCHANGED lastGen /\ msg[w] \in Msgs
  <2>1. msg[w] \in Msgs
    BY <1>2 DEF AckDelMeta, TypeInv, Local, Procs, Named
  <2> QED
    BY <1>2, <2>1 DEF AckDelMeta
<1>3. ASSUME NEW p \in Procs, EnqueueMeta(p)
      PROVE  UNCHANGED <<meta, lastGen>> \/ \E m \in Msgs : Create(m)
  <2>1. todo[p] \subseteq Msgs
    BY <1>3 DEF EnqueueMeta, TypeInv, Local
  <2> QED
    BY <1>3, <2>1 DEF EnqueueMeta, Creatable, Create
<1>4. ASSUME NEW w \in Workers, WorkerStep(w),
             ~ClaimMeta(w), ~RetryCas(w), ~AckDelMeta(w), ~EnqueueMeta(w)
      PROVE  UNCHANGED <<meta, lastGen>>
  BY <1>4 DEF WorkerStep, Claim, Process, Ack, Retry, Enqueue, ScanList, ScanEntry, Register,
              Finish, Progress, PutBack, AckTake, AckUnlist, AckUnlistCas, EnqueueAppend,
              RetryRead, RetryKeys, RetryClear, shared
<1>5. ASSUME NEW r \in Reconcilers, ReconcilerStep(r), ~EnqueueMeta(r)
      PROVE  UNCHANGED <<meta, lastGen>>
  BY <1>5 DEF ReconcilerStep, Repair, Enqueue, RepairKeys, RepairList, Revisible, Prune,
              PruneCas, EnqueueAppend, shared
<1>6. ASSUME NEW m \in Msgs, Timeout(m)
      PROVE  UNCHANGED lastGen
  BY <1>6 DEF Timeout
<1>7. ASSUME NEW p \in Mortal, Crash(p)
      PROVE  UNCHANGED <<meta, lastGen>>
  BY <1>7 DEF Crash, shared
<1>8. CASE UNCHANGED vars
  BY <1>8 DEF vars
<1> QED
  BY <1>1, <1>2, <1>3, <1>4, <1>5, <1>6, <1>7, <1>8 DEF Next, Procs

\* While a message is enqueued its attempts are counted up, and a message that is enqueued
\* again has a number no earlier one had.
Grows ==
    \A m \in Msgs :
        /\ lastGen[m] <= lastGen'[m]
        /\ Present(m) /\ meta'[m].gen = meta[m].gen => meta'[m].attempt >= meta[m].attempt
        /\ \/ meta'[m].gen = 0 /\ (meta'[m].attempt = 0 \/ meta'[m] = meta[m])
           \/ meta'[m].gen = meta[m].gen /\ Present(m) /\ lastGen'[m] = lastGen[m]
           \/ meta'[m].gen = lastGen'[m] /\ lastGen'[m] > lastGen[m]

LEMMA SwapGrows ==
    ASSUME TypeInv, NEW w \in Workers, Swap(w)
    PROVE  /\ meta'[msg[w]].gen = meta[msg[w]].gen /\ Present(msg[w])
           /\ meta'[msg[w]].attempt = meta[msg[w]].attempt + 1
           /\ \A m \in Msgs \ {msg[w]} : meta'[m] = meta[m]
<1>1. seenMeta[w] \in Meta /\ seenMeta[w].gen > 0
  BY DEF TypeInv, TypeOK, Local, Swap, Procs
<1>2. /\ Bumped(w, FALSE).gen = seenMeta[w].gen
      /\ Bumped(w, FALSE).attempt = seenMeta[w].attempt + 1
  BY <1>1 DEF Bumped, Meta
<1>3. /\ meta[msg[w]].gen = seenMeta[w].gen
      /\ meta[msg[w]].attempt = seenMeta[w].attempt
  BY DEF Swap, Unchanged
<1>4. /\ meta'[msg[w]] = Bumped(w, FALSE)
      /\ \A m \in Msgs \ {msg[w]} : meta'[m] = meta[m]
  BY DEF Swap, TypeInv, TypeOK
<1> QED
  BY <1>1, <1>2, <1>3, <1>4 DEF Present

LEMMA GrowsStep ==
    ASSUME TypeInv, [Next]_vars
    PROVE  Grows
<1> DEFINE G(m) ==
        /\ lastGen[m] <= lastGen'[m]
        /\ Present(m) /\ meta'[m].gen = meta[m].gen => meta'[m].attempt >= meta[m].attempt
        /\ \/ meta'[m].gen = 0 /\ (meta'[m].attempt = 0 \/ meta'[m] = meta[m])
           \/ meta'[m].gen = meta[m].gen /\ Present(m) /\ lastGen'[m] = lastGen[m]
           \/ meta'[m].gen = lastGen'[m] /\ lastGen'[m] > lastGen[m]
<1> SUFFICES \A m \in Msgs : G(m)
  BY DEF Grows
<1>1. \A m \in Msgs : /\ meta[m] \in Meta /\ meta[m].gen \in Nat /\ meta[m].attempt \in Nat
                      /\ lastGen[m] \in Nat /\ (meta[m].gen = 0 \/ Present(m))
  BY QueueAssumption DEF TypeInv, TypeOK, Meta, Present
<1>2. \A m \in Msgs : meta'[m] = meta[m] /\ lastGen'[m] = lastGen[m] => G(m)
  BY <1>1
<1>3. CASE UNCHANGED <<meta, lastGen>>
  BY <1>2, <1>3
<1>4. ASSUME UNCHANGED lastGen, NEW w \in Workers, Swap(w) PROVE \A m \in Msgs : G(m)
  BY <1>1, <1>2, <1>4, SwapGrows
<1>5. ASSUME UNCHANGED lastGen, NEW m \in Msgs, Timeout(m) PROVE \A n \in Msgs : G(n)
  <2>1. \A n \in Msgs \ {m} : meta'[n] = meta[n]
    BY <1>5 DEF Timeout, TypeInv, TypeOK
  <2>2. Present(m) /\ meta'[m].gen = meta[m].gen /\ meta'[m].attempt = meta[m].attempt
    BY <1>1, <1>5 DEF Timeout, TypeInv, TypeOK, Meta
  <2> QED
    BY <1>1, <1>2, <1>5, <2>1, <2>2
<1>6. ASSUME UNCHANGED lastGen, NEW w \in Workers, AckDelMeta(w), msg[w] \in Msgs
      PROVE  \A m \in Msgs : G(m)
  <2>1. /\ meta'[msg[w]] = NoMeta
        /\ \A m \in Msgs \ {msg[w]} : meta'[m] = meta[m]
    BY <1>6 DEF AckDelMeta, TypeInv, TypeOK
  <2> QED
    BY <1>1, <1>2, <1>6, <2>1 DEF NoMeta, Present
<1>7. ASSUME NEW m \in Msgs, Create(m) PROVE \A n \in Msgs : G(n)
  <2>1. \A n \in Msgs \ {m} : meta'[n] = meta[n] /\ lastGen'[n] = lastGen[n]
    BY <1>7 DEF Create, TypeInv, TypeOK
  <2>2. meta'[m].gen = lastGen[m] + 1 /\ lastGen'[m] = lastGen[m] + 1 /\ ~Present(m)
    BY <1>7 DEF Create, TypeInv, TypeOK
  <2> QED
    BY <1>1, <1>2, <2>1, <2>2
<1> HIDE DEF G
<1> QED
  BY <1>3, <1>4, <1>5, <1>6, <1>7, MetaSteps

\* No update of the delivery count is lost: while a message is enqueued its attempts never
\* go back, however claims, retries, acks and enqueues interleave.
THEOREM AttemptsCorrect == Spec => AttemptsNeverLost
<1>1. TypeInv /\ [Next]_vars =>
        [\A m \in Msgs : Present(m) /\ meta'[m].gen = meta[m].gen
                           => meta'[m].attempt >= meta[m].attempt]_vars
  BY GrowsStep DEF Grows
<1> QED
  BY <1>1, TypeInit, TypeNext, PTL DEF Spec, AttemptsNeverLost

-----------------------------------------------------------------------------
(* No delivery is in the hands of two workers                              *)

\* A delivery that is held has been counted: the record of that message has as many
\* attempts, or the message is gone.
Counted(w) ==
    pc[w] \in Holding =>
        /\ Held(w).msg = msg[w] /\ Held(w).gen \in 1 .. lastGen[msg[w]]
        /\ meta[msg[w]].gen = Held(w).gen => Held(w).attempt <= meta[msg[w]].attempt

\* What a worker has read is not from the future; it has no delivery before its claim and
\* after its ack or retry.
Seen(w) == /\ pc[w] \in Swapping => seenMeta[w].gen <= lastGen[msg[w]]
           /\ pc[w] \notin {"work", "ack", "retryRead"} => delivery[w] = NoDelivery

Distinct == \A v, w \in Workers :
               pc[v] \in Holding /\ pc[w] \in Holding /\ Held(v) = Held(w) => v = w

\* A record has the number of the last enqueue; one that is absent counts nothing.
RecordOK(m) == /\ meta[m].gen \in {0, lastGen[m]}
               /\ Present(m) \/ meta[m].attempt = 0

DeliveryInv == /\ \A m \in Msgs : RecordOK(m)
               /\ \A w \in Workers : Counted(w) /\ Seen(w)
               /\ Distinct

LEMMA DeliveryInit == Init => DeliveryInv
<1> SUFFICES ASSUME Init PROVE DeliveryInv
  OBVIOUS
<1>1. \A p \in Procs : pc[p] = "idle"
  BY DEF Init
<1>2. \A w \in Workers : pc[w] \notin Holding /\ pc[w] \notin Swapping
  BY <1>1 DEF Procs, Holding, Swapping
<1>3. \A w \in Workers : delivery[w] = NoDelivery
  BY DEF Init
<1>4. \A m \in Msgs : RecordOK(m)
  BY DEF Init, RecordOK, NoMeta
<1> QED
  BY <1>2, <1>3, <1>4 DEF DeliveryInv, Counted, Seen, Distinct

\* A worker holds after a step what it held before it, unless it has just claimed.
Keeps(w) == pc'[w] \in Holding =>
               /\ pc[w] \in Holding /\ Held(w)' = Held(w) /\ msg'[w] = msg[w]

Claims(w) == ClaimMeta(w) /\ Swap(w) /\ pc'[w] = "register"
             /\ UNCHANGED <<msg, seenMeta, lastGen>>

\* A worker reads a record that is stored, and forgets it.
Reads(w) == /\ pc'[w] \in Swapping =>
                 \/ pc[w] \in Swapping /\ UNCHANGED <<seenMeta[w], msg[w]>>
                 \/ msg'[w] \in Msgs /\ seenMeta'[w] = meta[msg'[w]]
            /\ pc'[w] \notin {"work", "ack", "retryRead"} =>
                 \/ delivery'[w] = NoDelivery
                 \/ UNCHANGED delivery[w] /\ pc[w] \notin {"work", "ack", "retryRead"}

LEMMA WorkerKeeps ==
    ASSUME TypeInv, NEW w \in Workers, WorkerStep(w)
    PROVE  (Keeps(w) \/ Claims(w)) /\ Reads(w)
<1> USE DEF Holding, Swapping, Named, Keeps, Reads, Goto, Procs
<1>0. /\ w \in Procs /\ pc \in [Procs -> Locations] /\ msg \in [Procs -> Msgs \cup {NoMsg}]
      /\ seenMeta \in [Procs -> Meta] /\ delivery \in [Workers -> Delivery]
      /\ todo[w] \in SUBSET (Msgs \cup Workers)
      /\ pc[w] \in Named => msg[w] \in Msgs
      /\ seenList[w] \in Seq(Msgs)
  BY DEF TypeInv, TypeOK, Local
<1>1. CASE ScanList(w)
  BY <1>0, <1>1 DEF ScanList
<1>2. CASE ScanEntry(w)
  <2>1. seenList[w] # <<>> => Head(seenList[w]) \in Msgs
    BY <1>0
  <2> QED
    BY <1>0, <1>2, <2>1 DEF ScanEntry
<1>3. CASE ClaimMeta(w)
  BY <1>0, <1>3 DEF ClaimMeta, Claims, Swap
<1>4. CASE Register(w)
  BY <1>0, <1>4 DEF Register, Held
<1>5. CASE Finish(w) \/ Progress(w) \/ PutBack(w)
  BY <1>0, <1>5 DEF Finish, Progress, PutBack, Held
<1>6. CASE AckTake(w)
  BY <1>0, <1>6 DEF AckTake, AfterAck
<1>7. CASE AckDelMeta(w) \/ AckUnlist(w) \/ AckUnlistCas(w)
  BY <1>0, <1>7 DEF AckDelMeta, AckUnlist, AckUnlistCas, AfterAck
<1>8. CASE RetryRead(w)
  BY <1>0, <1>8 DEF RetryRead
<1>9. CASE RetryCas(w) \/ RetryKeys(w) \/ RetryClear(w)
  BY <1>0, <1>9 DEF RetryCas, RetryKeys, RetryClear
<1>10. CASE Enqueue(w)
  BY <1>0, <1>10 DEF Enqueue, EnqueueMeta, EnqueueAppend, NextLocation
<1> QED
  BY <1>1, <1>2, <1>3, <1>4, <1>5, <1>6, <1>7, <1>8, <1>9, <1>10
     DEF WorkerStep, Claim, Process, Ack, Retry, shared

\* ... and so for every worker and every step.
LEMMA HoldsStep ==
    ASSUME TypeInv, [Next]_vars
    PROVE  \A w \in Workers : (Keeps(w) \/ Claims(w)) /\ Reads(w)
<1>1. ASSUME NEW w \in Workers, Idle(w) PROVE Keeps(w) /\ Reads(w)
  BY <1>1 DEF Idle, Keeps, Reads, Held
<1>2. ASSUME NEW p \in Procs, WorkerStep(p) \/ ReconcilerStep(p), NEW v \in Workers \ {p}
      PROVE  Idle(v)
  BY <1>2, StaysStep DEF StaysAs, TypeInv, Procs
<1>4. ASSUME NEW p \in Mortal, Crash(p), NEW v \in Workers PROVE Keeps(v) /\ Reads(v)
  <2>1. CASE v = p
    BY <1>4, <2>1 DEF Crash, Goto, Keeps, Reads, Holding, Swapping, TypeInv, TypeOK, Procs
  <2>2. CASE v # p
    BY <1>1, <1>4, <2>2 DEF Crash, Goto, Idle, TypeInv, TypeOK, Procs
  <2> QED
    BY <2>1, <2>2
<1>5. ASSUME UNCHANGED vars \/ \E m \in Msgs : Timeout(m), NEW v \in Workers PROVE Idle(v)
  BY <1>5 DEF vars, Timeout, local, Idle
<1> QED
  BY <1>1, <1>2, <1>4, <1>5, WorkerKeeps, QueueAssumption DEF Next, Procs

LEMMA OneClaims ==
    ASSUME TypeInv, NEW v \in Workers, NEW w \in Workers, Claims(v), Claims(w)
    PROVE  v = w
BY DEF Claims, ClaimMeta, Goto, TypeInv, TypeOK, Procs

\* The delivery a claim takes is one more than was ever counted.
LEMMA ClaimsNew ==
    ASSUME TypeInv, DeliveryInv, NEW w \in Workers, Claims(w)
    PROVE  /\ Counted(w)'
           /\ \A v \in Workers : pc[v] \in Holding => Held(v) # Held(w)'
<1> DEFINE m == msg[w]
<1>1. /\ m \in Msgs /\ meta[m] \in Meta /\ lastGen[m] \in 0 .. MaxGen
      /\ seenMeta[w] \in Meta /\ seenMeta[w].gen > 0
      /\ seenMeta[w].gen = meta[m].gen /\ seenMeta[w].attempt = meta[m].attempt
  BY DEF TypeInv, TypeOK, Local, Claims, Swap, Unchanged, Procs
<1>2. /\ Held(w)'.msg = m /\ Held(w)'.gen = meta[m].gen
      /\ Held(w)'.attempt = meta[m].attempt + 1
  BY <1>1 DEF Held, Claims
<1>3. meta'[m].gen = meta[m].gen /\ meta'[m].attempt = meta[m].attempt + 1
  BY SwapGrows DEF Claims
<1>4. meta[m].gen \in 1 .. lastGen[m] /\ meta[m].attempt \in Nat
  BY <1>1, QueueAssumption DEF DeliveryInv, RecordOK, Meta
<1>5. Counted(w)'
  BY <1>2, <1>3, <1>4 DEF Counted, Claims
<1>6. ASSUME NEW v \in Workers, pc[v] \in Holding, Held(v) = Held(w)' PROVE FALSE
  <2>1. msg[v] = m /\ Held(v).attempt <= meta[m].attempt
    BY <1>2, <1>6 DEF DeliveryInv, Counted
  <2> QED
    BY <1>2, <1>4, <1>6, <2>1
<1> QED
  BY <1>5, <1>6

\* What is held stays counted while the queue goes on.
LEMMA KeepsCounted ==
    ASSUME TypeInv, TypeInv', DeliveryInv, Grows, NEW w \in Workers, Keeps(w)
    PROVE  Counted(w)'
<1> SUFFICES ASSUME pc'[w] \in Holding PROVE Counted(w)'
  BY DEF Counted
<1> DEFINE m == msg[w]
           d == Held(w)
<1>1. /\ pc[w] \in Holding /\ Held(w)' = d /\ msg'[w] = m
      /\ d.msg = m /\ d.gen \in 1 .. lastGen[m]
      /\ meta[m].gen = d.gen => d.attempt <= meta[m].attempt
  BY DEF Keeps, DeliveryInv, Counted
<1>2. m \in Msgs
  BY <1>1 DEF TypeInv, Local, Holding, Named, Procs
<1>3. d.attempt \in Nat
  <2>1. delivery[w] \in Delivery /\ seenMeta[w] \in Meta
    BY DEF TypeInv, TypeOK, Procs
  <2> QED
    BY <2>1, QueueAssumption DEF Held, Delivery, Meta
<1>4. /\ lastGen[m] \in Nat /\ lastGen'[m] \in Nat /\ meta[m].gen \in Nat
      /\ meta'[m].gen \in Nat /\ meta[m].attempt \in Nat /\ meta'[m].attempt \in Nat
  BY <1>2, QueueAssumption DEF TypeInv, TypeOK, Meta
<1> HIDE DEF m, d
<1>5. d.gen \in 1 .. lastGen'[m]
  BY <1>1, <1>2, <1>4 DEF Grows
<1>6. ASSUME meta'[m].gen = d.gen PROVE d.attempt <= meta'[m].attempt
  <2>1. meta[m].gen = d.gen
    BY <1>1, <1>2, <1>4, <1>6 DEF Grows
  <2>2. meta'[m].attempt >= meta[m].attempt
    BY <1>1, <1>2, <1>6, <2>1 DEF Grows, Present
  <2> QED
    BY <1>1, <1>3, <1>4, <2>1, <2>2
<1> QED
  BY <1>1, <1>5, <1>6 DEF Counted

\* The record of a message stays as RecordOK says.
LEMMA RecordStep ==
    ASSUME TypeInv, TypeInv', NEW m \in Msgs, RecordOK(m), Grows
    PROVE  RecordOK(m)'
<1>1. meta[m].gen \in Nat /\ lastGen[m] \in Nat /\ lastGen'[m] \in Nat
  BY QueueAssumption DEF TypeInv, TypeOK, Meta
<1>2. CASE meta'[m].gen = 0 /\ (meta'[m].attempt = 0 \/ meta'[m] = meta[m])
  BY <1>1, <1>2 DEF RecordOK, Present
<1>3. CASE meta'[m].gen = meta[m].gen /\ Present(m) /\ lastGen'[m] = lastGen[m]
  BY <1>1, <1>3 DEF RecordOK, Present
<1>4. CASE meta'[m].gen = lastGen'[m] /\ lastGen'[m] > lastGen[m]
  <2>1. lastGen'[m] > 0
    BY <1>1, <1>4
  <2> QED
    BY <1>4, <2>1 DEF RecordOK, Present
<1> QED
  BY <1>2, <1>3, <1>4 DEF Grows

LEMMA DeliveryNext == TypeInv /\ TypeInv' /\ DeliveryInv /\ [Next]_vars => DeliveryInv'
<1> SUFFICES ASSUME TypeInv, TypeInv', DeliveryInv, [Next]_vars PROVE DeliveryInv'
  OBVIOUS
<1>1. Grows
  BY GrowsStep
<1>2. \A m \in Msgs : /\ meta[m].gen \in Nat /\ meta'[m].gen \in Nat
                      /\ lastGen[m] \in Nat /\ lastGen'[m] \in Nat
  BY QueueAssumption DEF TypeInv, TypeOK, Meta
<1>3. \A m \in Msgs : RecordOK(m)'
  BY <1>1, <1>2, RecordStep DEF DeliveryInv
<1>4. ASSUME NEW w \in Workers PROVE Counted(w)'
  BY <1>1, HoldsStep, ClaimsNew, KeepsCounted
<1>5. ASSUME NEW w \in Workers PROVE Seen(w)'
  <2>1. Reads(w)
    BY HoldsStep
  <2>2. ASSUME pc'[w] \in Swapping PROVE seenMeta'[w].gen <= lastGen'[msg'[w]]
    <3>1. msg'[w] \in Msgs
      BY <2>2 DEF TypeInv, Local, Swapping, Named, Procs
    <3>2. seenMeta'[w].gen <= lastGen[msg'[w]]
      BY <1>2, <2>1, <2>2, <3>1 DEF Reads, DeliveryInv, Seen, RecordOK
    <3>3. seenMeta'[w].gen \in Nat
      BY QueueAssumption DEF TypeInv, TypeOK, Meta, Procs
    <3> QED
      BY <1>1, <1>2, <3>1, <3>2, <3>3 DEF Grows
  <2>3. pc'[w] \notin {"work", "ack", "retryRead"} => delivery'[w] = NoDelivery
    BY <2>1 DEF Reads, DeliveryInv, Seen
  <2> QED
    BY <2>2, <2>3 DEF Seen
<1>6. ASSUME NEW v \in Workers, NEW w \in Workers, pc'[v] \in Holding, pc'[w] \in Holding,
             Held(v)' = Held(w)'
      PROVE  v = w
  <2>1. CASE Keeps(v) /\ Keeps(w)
    BY <1>6, <2>1 DEF Keeps, DeliveryInv, Distinct
  <2>2. CASE Claims(v) /\ Keeps(w)
    BY <1>6, <2>2, ClaimsNew DEF Keeps
  <2>3. CASE Keeps(v) /\ Claims(w)
    BY <1>6, <2>3, ClaimsNew DEF Keeps
  <2>4. CASE Claims(v) /\ Claims(w)
    BY <2>4, OneClaims
  <2> QED
    BY <2>1, <2>2, <2>3, <2>4, HoldsStep
<1> QED
  BY <1>3, <1>4, <1>5, <1>6 DEF DeliveryInv, Distinct

\* claim() is documented as atomic: however claims, timeouts, retries and stale acks
\* interleave, no delivery is ever in the hands of two workers.
THEOREM DeliveryCorrect == Spec => []UniqueDelivery
<1>1. DeliveryInv => UniqueDelivery
  <2> SUFFICES ASSUME DeliveryInv, NEW v \in Workers, NEW w \in Workers,
                      delivery[v] = delivery[w], delivery[v] # NoDelivery
               PROVE  v = w
    BY DEF UniqueDelivery
  <2>1. pc[v] \in {"work", "ack", "retryRead"} /\ pc[w] \in {"work", "ack", "retryRead"}
    BY DEF DeliveryInv, Seen
  <2> QED
    BY <2>1 DEF DeliveryInv, Distinct, Held, Holding
<1> QED
  BY <1>1, TypeInit, TypeNext, DeliveryInit, DeliveryNext, PTL DEF Spec

-----------------------------------------------------------------------------
(* The queue does what WorkQueue promises                                  *)

SameHeld == \A v \in Workers : Held(v)' = Held(v)

\* A worker that is not between its claim and its ack or retry has no delivery.
LEMMA HoldsNothing ==
    ASSUME DeliveryInv, NEW w \in Workers, pc[w] \notin Holding
    PROVE  Held(w) = NoDelivery
BY DEF DeliveryInv, Seen, Held, Holding

LEMMA HoldsNothingNext ==
    ASSUME DeliveryInv', NEW w \in Workers, pc'[w] \notin Holding
    PROVE  Held(w)' = NoDelivery
BY DEF DeliveryInv, Seen, Held, Holding

\* While one process takes a step, every other one holds what it held.
LEMMA OthersHold ==
    ASSUME TypeInv, NEW p \in Procs, WorkerStep(p) \/ ReconcilerStep(p),
           NEW v \in Workers \ {p}
    PROVE  Held(v)' = Held(v)
<1>1. Idle(v)
  BY StaysStep DEF StaysAs, TypeInv, Procs
<1> QED
  BY <1>1 DEF Idle, Held

\* A step of a process that holds nothing before and after it.
LEMMA QuietStep ==
    ASSUME TypeInv, DeliveryInv, DeliveryInv', NEW p \in Procs,
           WorkerStep(p) \/ ReconcilerStep(p), pc[p] \notin Holding, pc'[p] \notin Holding
    PROVE  SameHeld
BY OthersHold, HoldsNothing, HoldsNothingNext DEF SameHeld

\* A step that is no claim leaves every delivery where it is, or one worker lays down its own.
LEMMA LaysDown ==
    ASSUME TypeInv, DeliveryInv, DeliveryInv', [Next]_vars, \A w \in Workers : ~Claims(w)
    PROVE  SameHeld \/ \E w \in Workers : /\ Held(w)' = NoDelivery
                                          /\ \A v \in Workers \ {w} : Held(v)' = Held(v)
<1>1. \A w \in Workers : Held(w)' = Held(w) \/ Held(w)' = NoDelivery
  BY HoldsStep, HoldsNothingNext DEF Keeps
<1>2. ASSUME NEW p \in Procs, \A v \in Workers \ {p} : Held(v)' = Held(v)
      PROVE  SameHeld \/ \E w \in Workers : /\ Held(w)' = NoDelivery
                                            /\ \A v \in Workers \ {w} : Held(v)' = Held(v)
  BY <1>1, <1>2 DEF SameHeld
<1>3. ASSUME NEW p \in Mortal, Crash(p), NEW v \in Workers \ {p} PROVE Held(v)' = Held(v)
  BY <1>3 DEF Crash, Goto, Held, TypeInv, TypeOK, Procs
<1>4. ASSUME UNCHANGED vars \/ \E m \in Msgs : Timeout(m), NEW v \in Workers
      PROVE  Held(v)' = Held(v)
  BY <1>4 DEF vars, Timeout, local, Held
<1>5. CASE \E p \in Procs : WorkerStep(p) \/ ReconcilerStep(p)
  BY <1>2, <1>5, OthersHold
<1>6. CASE \E p \in Mortal : Crash(p)
  BY <1>2, <1>3, <1>6, QueueAssumption DEF Procs
<1>7. CASE UNCHANGED vars \/ \E m \in Msgs : Timeout(m)
  BY <1>4, <1>7 DEF SameHeld
<1> QED
  BY <1>5, <1>6, <1>7 DEF Next, Procs

\* The state WorkQueue sees.
Queued    == {m \in Msgs : Present(m)}
Counts    == [m \in Msgs |-> meta[m].attempt]
HeldByAll == [w \in Workers |-> Held(w)]
QueueStep == Work!Next \/ UNCHANGED <<Queued, lastGen, Counts, HeldByAll>>

LEMMA SameHeldMaps == SameHeld => UNCHANGED HeldByAll
BY DEF SameHeld, HeldByAll

LEMMA StepQuiet ==
    ASSUME TypeInv, DeliveryInv, DeliveryInv', [Next]_vars, UNCHANGED <<meta, lastGen>>
    PROVE  QueueStep
<1>1. UNCHANGED <<Queued, lastGen, Counts>>
  BY DEF Queued, Counts, Present
<1>2. \A w \in Workers : ~Claims(w)
  <2> SUFFICES ASSUME NEW w \in Workers, Claims(w) PROVE FALSE
    OBVIOUS
  <2>1. msg[w] \in Msgs
    BY DEF Claims, Swap
  <2>2. meta[msg[w]].attempt \in Nat
    BY <2>1, QueueAssumption DEF TypeInv, TypeOK, Meta
  <2>3. meta[msg[w]].attempt = meta[msg[w]].attempt + 1
    BY SwapGrows DEF Claims
  <2> QED
    BY <2>2, <2>3
<1>3. CASE SameHeld
  BY <1>1, <1>3, SameHeldMaps DEF QueueStep
<1>4. ASSUME NEW w \in Workers, Held(w)' = NoDelivery,
             \A v \in Workers \ {w} : Held(v)' = Held(v)
      PROVE  QueueStep
  <2>1. HeldByAll' = [HeldByAll EXCEPT ![w] = NoDelivery]
    BY <1>4 DEF HeldByAll
  <2>2. Work!LayDown(w)
    BY <1>1, <2>1 DEF Work!LayDown, Queued, Counts, HeldByAll
  <2> QED
    BY <2>2 DEF QueueStep, Work!Next
<1> QED
  BY <1>2, <1>3, <1>4, LaysDown

\* A cas that succeeds keeps the message in the queue and counts one more attempt of it.
LEMMA SwapMaps ==
    ASSUME TypeInv, NEW w \in Workers, Swap(w), UNCHANGED lastGen
    PROVE  /\ msg[w] \in Queued /\ UNCHANGED Queued
           /\ Counts' = [Counts EXCEPT ![msg[w]] = @ + 1]
<1>1. msg[w] \in Msgs
  BY DEF Swap
<1>2. /\ Present(msg[w]) /\ meta'[msg[w]].gen = meta[msg[w]].gen
      /\ meta'[msg[w]].attempt = meta[msg[w]].attempt + 1
      /\ \A m \in Msgs \ {msg[w]} : meta'[m] = meta[m]
  BY SwapGrows
<1> QED
  BY <1>1, <1>2 DEF Queued, Counts, Present

LEMMA StepClaim ==
    ASSUME TypeInv, DeliveryInv, NEW w \in Workers, ClaimMeta(w), Swap(w), UNCHANGED lastGen
    PROVE  QueueStep
<1>0. PICK m \in Msgs : m = msg[w]
  BY DEF Swap
<1>1. Claims(w) /\ pc[w] = "claim"
  BY DEF Claims, ClaimMeta, Swap, Goto, TypeInv, TypeOK, Procs
<1>2. Held(w) = NoDelivery
  BY <1>1, HoldsNothing DEF Holding
<1>3. Held(w)' = [msg |-> m, gen |-> lastGen[m], attempt |-> meta[m].attempt + 1]
  <2>1. m \in Msgs /\ Present(m) /\ meta[m].gen \in Nat
    BY <1>0, SwapGrows, QueueAssumption DEF TypeInv, TypeOK, Meta
  <2>2. meta[m].gen = lastGen[m]
    BY <2>1 DEF DeliveryInv, RecordOK, Present
  <2> QED
    BY <1>0, <1>1, <2>2 DEF Claims, Held, Swap, Unchanged
<1>4. \A v \in Workers \ {w} : Held(v)' = Held(v)
  BY OthersHold DEF WorkerStep, Claim, Procs
<1>5. HeldByAll' = [HeldByAll EXCEPT ![w] =
                      [msg |-> m, gen |-> lastGen[m], attempt |-> Counts[m] + 1]]
  <2>1. Counts[m] = meta[m].attempt
    BY DEF Counts
  <2> QED
    BY <1>3, <1>4, <2>1 DEF HeldByAll
<1>6. HeldByAll[w] = NoDelivery
  BY <1>2 DEF HeldByAll
<1>7. Work!HandOut(w, m)
  BY <1>0, <1>5, <1>6, SwapMaps DEF Work!HandOut, Queued, Counts, HeldByAll
<1> QED
  BY <1>7 DEF QueueStep, Work!Next

LEMMA StepRetry ==
    ASSUME TypeInv, DeliveryInv, DeliveryInv', NEW w \in Workers, RetryCas(w), Swap(w),
           UNCHANGED lastGen
    PROVE  QueueStep
<1>1. pc[w] \notin Holding /\ pc'[w] \notin Holding
  BY DEF RetryCas, Goto, Holding, TypeInv, TypeOK, Procs
<1>2. UNCHANGED HeldByAll
  BY <1>1, QuietStep, SameHeldMaps DEF WorkerStep, Retry, Procs
<1>3. PICK m \in Msgs : m = msg[w]
  BY DEF Swap
<1>4. Work!Defer(m)
  BY <1>2, <1>3, SwapMaps DEF Work!Defer, Queued, Counts, HeldByAll
<1> QED
  BY <1>4 DEF QueueStep, Work!Next

LEMMA StepTimeout ==
    ASSUME TypeInv, NEW m \in Msgs, Timeout(m), UNCHANGED lastGen
    PROVE  QueueStep
<1>1. \A n \in Msgs : meta'[n].gen = meta[n].gen /\ meta'[n].attempt = meta[n].attempt
  BY DEF Timeout, TypeInv, TypeOK, Meta
<1>2. UNCHANGED Queued /\ UNCHANGED Counts
  BY <1>1 DEF Queued, Counts, Present
<1>3. UNCHANGED HeldByAll
  BY DEF Timeout, local, HeldByAll, Held
<1> QED
  BY <1>2, <1>3 DEF QueueStep

LEMMA StepAck ==
    ASSUME TypeInv, DeliveryInv, DeliveryInv', NEW w \in Workers, AckDelMeta(w),
           msg[w] \in Msgs, UNCHANGED lastGen
    PROVE  QueueStep
<1>1. pc[w] \notin Holding /\ pc'[w] \notin Holding
  BY DEF AckDelMeta, Goto, Holding, TypeInv, TypeOK, Procs
<1>2. UNCHANGED HeldByAll
  BY <1>1, QuietStep, SameHeldMaps DEF WorkerStep, Ack, Procs
<1>3. PICK m \in Msgs : m = msg[w]
  OBVIOUS
<1>4. /\ meta'[m].gen = 0 /\ meta'[m].attempt = 0
      /\ \A n \in Msgs \ {m} : meta'[n] = meta[n]
  BY <1>3 DEF AckDelMeta, NoMeta, TypeInv, TypeOK
<1>5. ~Present(m)' /\ \A n \in Msgs \ {m} : Present(n)' <=> Present(n)
  BY <1>4 DEF Present
<1>6. Queued' = Queued \ {m} /\ Counts' = [Counts EXCEPT ![m] = 0]
  BY <1>4, <1>5 DEF Queued, Counts
<1>7. Work!Remove(m)
  BY <1>2, <1>6 DEF Work!Remove, Queued, Counts, HeldByAll
<1> QED
  BY <1>7 DEF QueueStep, Work!Next

LEMMA StepEnqueue ==
    ASSUME TypeInv, DeliveryInv, DeliveryInv', NEW p \in Procs, NEW m \in Msgs,
           EnqueueMeta(p), Create(m)
    PROVE  QueueStep
<1>1. pc[p] \notin Holding /\ pc'[p] \notin Holding
  BY DEF EnqueueMeta, Goto, NextLocation, Holding, TypeInv, TypeOK, Procs
<1>2. UNCHANGED HeldByAll
  BY <1>1, QuietStep, SameHeldMaps DEF WorkerStep, Enqueue
<1>3. meta[m].attempt = 0 /\ lastGen[m] \in Nat
  BY DEF Create, DeliveryInv, RecordOK, TypeInv, TypeOK
<1>4. /\ meta'[m].gen = lastGen[m] + 1 /\ meta'[m].attempt = 0
      /\ \A n \in Msgs \ {m} : meta'[n] = meta[n]
  BY DEF Create, TypeInv, TypeOK
<1>5. Queued' = Queued \cup {m} /\ m \notin Queued /\ UNCHANGED Counts
  BY <1>3, <1>4 DEF Create, Queued, Counts, Present
<1>6. Work!Enqueue(m)
  BY <1>2, <1>5 DEF Create, Work!Enqueue, Queued, Counts, HeldByAll
<1> QED
  BY <1>6 DEF QueueStep, Work!Next

\* Messages are created only where there is none, and handed out as the next attempt of
\* their round: no enqueue replaces a message that is there, no attempt is used twice.
THEOREM QueueImplemented == Spec => ImplementsQueue
<1>1. Init => Work!Init
  <2> SUFFICES ASSUME Init PROVE Work!Init
    OBVIOUS
  <2>1. \A m \in Msgs : meta[m] = NoMeta
    BY DEF Init
  <2>2. \A w \in Workers : Held(w) = NoDelivery
    BY DEF Init, Held, Procs
  <2> QED
    BY <2>1, <2>2 DEF Init, Work!Init, NoMeta, Present
<1>2. TypeInv /\ DeliveryInv /\ DeliveryInv' /\ [Next]_vars => QueueStep
  BY MetaSteps, StepQuiet, StepClaim, StepRetry, StepTimeout, StepAck, StepEnqueue
<1>3. QueueStep => [Work!Next]_<<Queued, lastGen, Counts, HeldByAll>>
  BY DEF QueueStep
<1>4. TypeInv /\ DeliveryInv /\ DeliveryInv' /\ [Next]_vars =>
        [Work!Next]_<<{m \in Msgs : Present(m)}, lastGen, [m \in Msgs |-> meta[m].attempt],
                      [w \in Workers |-> Held(w)]>>
  BY <1>2, <1>3 DEF Queued, Counts, HeldByAll
<1> QED
  BY <1>1, <1>4, TypeInit, TypeNext, DeliveryInit, DeliveryNext,
     PTL DEF Spec, ImplementsQueue, Work!Spec
====
