------------------------ MODULE SpscTaskQueue_proofs ------------------------
(***************************************************************************)
(* Proofs about SpscTaskQueue, for every size of the ring that an int8_t    *)
(* can count and any number of tasks.                                       *)
(***************************************************************************)
EXTENDS SpscTaskQueue, TLAPS

\* Tasks in the ring, and tasks counted by the master and by the worker.
Published == IF master_pc \in {"enqueue", "publish"} THEN pushed - 1 ELSE pushed
Added == IF master_pc \in {"enqueue", "publish", "add"} THEN pushed - 1 ELSE pushed
Released == IF worker_pc = "release" THEN output - 1 ELSE output
Subtracted == IF worker_pc \in {"running", "release"} THEN output ELSE output + 1

\* How far slot i is behind slot h.
Distance(h, i) == IF h <= i THEN i - h ELSE i - h + RingSize

CountInv ==
  /\ Published - Released = Distance(head, tail)
  /\ pending = Added - Subtracted
  /\ output <= Added
  /\ worker_pc = "check" => exit_now \/ pending >= 0
  /\ worker_pc = "take" => pending >= 0
  /\ master_pc \in {"enqueue", "publish", "add"} => pushed > 0
  /\ worker_pc = "release" => output > 0

RingInv ==
  /\ \A i \in Slots : Distance(head, i) < Distance(head, tail) =>
       buffer[i] = Released + 1 + Distance(head, i)
  /\ master_pc = "publish" => buffer[tail] = pushed /\ After(tail) # head

ExitInv ==
  /\ exit_now <=> master_pc \in {"kill", "join", "joined"}
  /\ worker_pc = "exited" => exit_now

IInv == QueueTypeOK /\ CountInv /\ RingInv /\ ExitInv

----------------------------------------------------------------------------
USE QueueAssumption DEF QueueAssumption, Slots, NoTask

\* Moving round the ring: the next slot is a slot, one further from every slot
\* but the one it has come round to.
LEMMA RingFacts ==
  /\ \A i \in Slots : After(i) \in Slots
  /\ \A h, i \in Slots : Distance(h, i) \in 0 .. RingSize - 1
  /\ \A h, i \in Slots : Distance(h, i) = 0 <=> h = i
  /\ \A h, i \in Slots : After(i) # h => Distance(h, After(i)) = Distance(h, i) + 1
  /\ \A h, i \in Slots : h # i => Distance(After(h), i) = Distance(h, i) - 1
  /\ \A h, i, j \in Slots : Distance(h, i) = Distance(h, j) => i = j
BY DEF After, Distance

\* Initially the ring is empty and nothing is counted.
LEMMA InitIInv == QueueInit => IInv
<1> SUFFICES ASSUME QueueInit PROVE IInv
  OBVIOUS
<1>0. exit_now \in BOOLEAN
  BY Zenon DEF QueueInit
<1>1. QueueTypeOK
  BY <1>0 DEF QueueInit, QueueTypeOK
<1>2. CountInv
  BY DEF QueueInit, CountInv, Published, Added, Released, Subtracted, Distance
<1>3. RingInv
  BY DEF QueueInit, RingInv, Distance
<1>4. ExitInv
  BY DEF QueueInit, ExitInv
<1> QED
  BY <1>1, <1>2, <1>3, <1>4 DEF IInv

\* The task at the head of the ring is the one after the last the worker took.
LEMMA TakeInOrder ==
  ASSUME IInv, worker_pc = "take"
  PROVE  output < Published /\ tail # head /\ buffer[head] = output + 1
<1> USE DEF IInv
<1>0. head \in Slots /\ tail \in Slots
  BY DEF QueueTypeOK
<1>1. Distance(head, tail) \in Nat /\ Distance(head, head) = 0
  BY <1>0 DEF Distance
<1>2. output < Published /\ Distance(head, tail) > 0
  BY <1>1 DEF QueueTypeOK, CountInv, Published, Added, Released, Subtracted
<1> QED
  BY <1>1, <1>2 DEF QueueTypeOK, RingInv, Released

\* Every step of either thread preserves the invariant.
LEMMA StepIInv == IInv /\ [QueueNext]_spscVars => IInv'
<1> SUFFICES ASSUME IInv, [QueueNext]_spscVars PROVE IInv'
  OBVIOUS
<1> USE DEF Producer, Consumer, ringVars
<1>a. QueueTypeOK /\ CountInv /\ RingInv /\ ExitInv
  BY DEF IInv
<1>b. Distance(head, tail) \in 0 .. RingSize - 1
  BY <1>a, RingFacts DEF QueueTypeOK
<1>1. CASE Push
  <2>1. CountInv'
    BY <1>1, <1>a DEF Push, QueueTypeOK, CountInv, Distance, Published, Added, Released, Subtracted
  <2>2. RingInv'
    <3>1. UNCHANGED <<buffer, head, tail>> /\ Released' = Released
      BY <1>1, <1>a DEF Push, QueueTypeOK, Released
    <3>2. master_pc' = "publish" => master_pc = "publish" /\ pushed' = pushed
      BY <1>1 DEF Push
    <3> QED
      BY <1>a, <3>1, <3>2 DEF RingInv, Distance
  <2>3. ExitInv'
    BY <1>1, <1>a DEF Push, QueueTypeOK, ExitInv
  <2>4. QueueTypeOK'
    BY <1>1, <1>a DEF Push, QueueTypeOK
  <2> QED
    BY <2>1, <2>2, <2>3, <2>4 DEF IInv
<1>2. CASE Enqueue
  <2>1. CountInv'
    BY <1>2, <1>a DEF Enqueue, QueueTypeOK, CountInv, Distance, Published, Added, Released, Subtracted
  <2>2. RingInv'
    <3>1. /\ master_pc' = "publish" /\ UNCHANGED <<head, tail, pushed>> /\ After(tail) # head
          /\ buffer' = [buffer EXCEPT ![tail] = pushed] /\ Released' = Released
      BY <1>2 DEF Enqueue, Released
    <3>2. buffer'[tail] = pushed
      BY <1>a, <3>1 DEF QueueTypeOK
    <3>3. ASSUME NEW i \in Slots, Distance(head, i) < Distance(head, tail)
          PROVE  buffer'[i] = Released + 1 + Distance(head, i)
      <4>1. i # tail
        BY <1>b, <3>3
      <4> QED
        BY <1>a, <3>1, <3>3, <4>1 DEF QueueTypeOK, RingInv
    <3> QED
      BY <3>1, <3>2, <3>3 DEF RingInv, Distance, After
  <2>3. ExitInv'
    BY <1>2, <1>a DEF Enqueue, QueueTypeOK, ExitInv
  <2>4. QueueTypeOK'
    BY <1>2, <1>a DEF Enqueue, QueueTypeOK
  <2> QED
    BY <2>1, <2>2, <2>3, <2>4 DEF IInv
<1>3. CASE Publish
  <2>1. CountInv'
    <3>1. Distance(head, After(tail)) = Distance(head, tail) + 1
      BY <1>3, <1>a, RingFacts DEF Publish, QueueTypeOK, RingInv
    <3>2. Distance(head, tail)' = Distance(head, After(tail))
      BY <1>3 DEF Publish, Distance
    <3>3. Published' = Published + 1 /\ Added' = Added /\ Released' = Released /\ Subtracted' = Subtracted
      BY <1>3, <1>a DEF Publish, QueueTypeOK, Published, Added, Released, Subtracted
    <3>4. pushed \in Int /\ Published \in Int /\ Released \in Int
      BY <1>a DEF QueueTypeOK, Published, Released
    <3>5. Published' - Released' = Distance(head, tail)'
      BY <1>a, <1>b, <3>1, <3>2, <3>3, <3>4 DEF CountInv
    <3>6. /\ master_pc = "publish" /\ master_pc' = "add"
          /\ UNCHANGED <<pending, output, worker_pc, exit_now, pushed>>
      BY <1>3 DEF Publish
    <3> QED
      BY <1>a, <3>3, <3>5, <3>6 DEF CountInv
  <2>2. RingInv'
    <3>1. /\ master_pc' = "add" /\ tail' = After(tail) /\ UNCHANGED <<buffer, head, pushed>>
          /\ Released' = Released
      BY <1>3 DEF Publish, Released
    <3>2. After(tail) \in Slots /\ Distance(head, After(tail)) = Distance(head, tail) + 1
      <4>1. head \in Slots /\ tail \in Slots /\ After(tail) # head
        BY <1>3, <1>a DEF Publish, Producer, QueueTypeOK, RingInv
      <4> QED
        BY <4>1, RingFacts
    <3>3. buffer[tail] = Released + 1 + Distance(head, tail)
      BY <1>3, <1>a DEF Publish, QueueTypeOK, CountInv, RingInv, Published, Released
    <3>4. ASSUME NEW i \in Slots, Distance(head, i) < Distance(head, After(tail))
          PROVE  buffer[i] = Released + 1 + Distance(head, i)
      <4>1. CASE i = tail
        BY <3>3, <4>1
      <4>2. CASE i # tail
        <5>1. Distance(head, i) < Distance(head, tail)
          <6>1. head \in Slots /\ tail \in Slots
            BY <1>a DEF QueueTypeOK
          <6>2. Distance(head, i) \in Int /\ Distance(head, i) # Distance(head, tail)
            BY <4>2, <6>1, RingFacts
          <6> HIDE DEF Distance
          <6> QED
            BY <1>b, <3>2, <3>4, <6>2
        <5> QED
          BY <1>a, <5>1 DEF RingInv
      <4> QED
        BY <4>1, <4>2
    <3> QED
      BY <3>1, <3>4 DEF RingInv, Distance
  <2>3. ExitInv'
    BY <1>3, <1>a DEF Publish, QueueTypeOK, ExitInv
  <2>4. QueueTypeOK'
    BY <1>3, <1>a, RingFacts DEF Publish, QueueTypeOK
  <2> QED
    BY <2>1, <2>2, <2>3, <2>4 DEF IInv
<1>4. CASE AddPending
  <2>1. CountInv'
    BY <1>4, <1>a DEF AddPending, QueueTypeOK, CountInv, Distance, Published, Added, Released, Subtracted
  <2>2. RingInv'
    <3>1. UNCHANGED <<buffer, head, tail>> /\ Released' = Released
      BY <1>4, <1>a DEF AddPending, QueueTypeOK, Released
    <3>2. master_pc' = "publish" => master_pc = "publish" /\ pushed' = pushed
      BY <1>4 DEF AddPending
    <3> QED
      BY <1>a, <3>1, <3>2 DEF RingInv, Distance
  <2>3. ExitInv'
    BY <1>4, <1>a DEF AddPending, QueueTypeOK, ExitInv
  <2>4. QueueTypeOK'
    <3>1. pending' \in -1 .. RingSize - 1
      BY <1>4, <1>a, <1>b DEF AddPending, QueueTypeOK, CountInv, Published, Added, Released, Subtracted
    <3> QED
      BY <1>4, <1>a, <3>1 DEF AddPending, QueueTypeOK
  <2> QED
    BY <2>1, <2>2, <2>3, <2>4 DEF IInv
<1>5. CASE Notify
  <2>1. CountInv'
    BY <1>5, <1>a DEF Notify, QueueTypeOK, CountInv, Distance, Published, Added, Released, Subtracted
  <2>2. RingInv'
    <3>1. UNCHANGED <<buffer, head, tail>> /\ Released' = Released
      BY <1>5, <1>a DEF Notify, QueueTypeOK, Released
    <3>2. master_pc' = "publish" => master_pc = "publish" /\ pushed' = pushed
      BY <1>5 DEF Notify
    <3> QED
      BY <1>a, <3>1, <3>2 DEF RingInv, Distance
  <2>3. ExitInv'
    BY <1>5, <1>a DEF Notify, QueueTypeOK, ExitInv
  <2>4. QueueTypeOK'
    BY <1>5, <1>a DEF Notify, QueueTypeOK
  <2> QED
    BY <2>1, <2>2, <2>3, <2>4 DEF IInv
<1>6. CASE SignalForKill
  <2>1. CountInv'
    BY <1>6, <1>a DEF SignalForKill, QueueTypeOK, CountInv, Distance, Published, Added, Released, Subtracted
  <2>2. RingInv'
    <3>1. UNCHANGED <<buffer, head, tail>> /\ Released' = Released
      BY <1>6, <1>a DEF SignalForKill, QueueTypeOK, Released
    <3>2. master_pc' = "publish" => master_pc = "publish" /\ pushed' = pushed
      BY <1>6 DEF SignalForKill
    <3> QED
      BY <1>a, <3>1, <3>2 DEF RingInv, Distance
  <2>3. ExitInv'
    BY <1>6, <1>a DEF SignalForKill, QueueTypeOK, ExitInv
  <2>4. QueueTypeOK'
    BY <1>6, <1>a DEF SignalForKill, QueueTypeOK
  <2> QED
    BY <2>1, <2>2, <2>3, <2>4 DEF IInv
<1>7. CASE NotifyAll
  <2>1. CountInv'
    BY <1>7, <1>a DEF NotifyAll, QueueTypeOK, CountInv, Distance, Published, Added, Released, Subtracted
  <2>2. RingInv'
    <3>1. UNCHANGED <<buffer, head, tail>> /\ Released' = Released
      BY <1>7, <1>a DEF NotifyAll, QueueTypeOK, Released
    <3>2. master_pc' = "publish" => master_pc = "publish" /\ pushed' = pushed
      BY <1>7 DEF NotifyAll
    <3> QED
      BY <1>a, <3>1, <3>2 DEF RingInv, Distance
  <2>3. ExitInv'
    BY <1>7, <1>a DEF NotifyAll, QueueTypeOK, ExitInv
  <2>4. QueueTypeOK'
    BY <1>7, <1>a DEF NotifyAll, QueueTypeOK
  <2> QED
    BY <2>1, <2>2, <2>3, <2>4 DEF IInv
<1>8. CASE JoinWorker
  <2>1. CountInv'
    BY <1>8, <1>a DEF JoinWorker, QueueTypeOK, CountInv, Distance, Published, Added, Released, Subtracted
  <2>2. RingInv'
    <3>1. UNCHANGED <<buffer, head, tail>> /\ Released' = Released
      BY <1>8, <1>a DEF JoinWorker, QueueTypeOK, Released
    <3>2. master_pc' = "publish" => master_pc = "publish" /\ pushed' = pushed
      BY <1>8 DEF JoinWorker
    <3> QED
      BY <1>a, <3>1, <3>2 DEF RingInv, Distance
  <2>3. ExitInv'
    BY <1>8, <1>a DEF JoinWorker, QueueTypeOK, ExitInv
  <2>4. QueueTypeOK'
    BY <1>8, <1>a DEF JoinWorker, QueueTypeOK
  <2> QED
    BY <2>1, <2>2, <2>3, <2>4 DEF IInv
<1>9. CASE SubPending
  <2>1. CountInv'
    BY <1>9, <1>a DEF SubPending, QueueTypeOK, CountInv, Distance, Published, Added, Released, Subtracted
  <2>2. RingInv'
    <3>1. UNCHANGED <<buffer, head, tail>> /\ Released' = Released
      BY <1>9, <1>a DEF SubPending, QueueTypeOK, Released
    <3>2. master_pc' = "publish" => master_pc = "publish" /\ pushed' = pushed
      BY <1>9 DEF SubPending
    <3> QED
      BY <1>a, <3>1, <3>2 DEF RingInv, Distance
  <2>3. ExitInv'
    BY <1>9, <1>a DEF SubPending, QueueTypeOK, ExitInv
  <2>4. QueueTypeOK'
    <3>1. pending' \in -1 .. RingSize - 1
      BY <1>9, <1>a, <1>b DEF SubPending, QueueTypeOK, CountInv, Published, Added, Released, Subtracted
    <3> QED
      BY <1>9, <1>a, <3>1 DEF SubPending, QueueTypeOK
  <2> QED
    BY <2>1, <2>2, <2>3, <2>4 DEF IInv
<1>10. CASE WaitEnter
  <2>1. CountInv'
    BY <1>10, <1>a DEF WaitEnter, QueueTypeOK, CountInv, Distance, Published, Added, Released, Subtracted
  <2>2. RingInv'
    <3>1. UNCHANGED <<buffer, head, tail>> /\ Released' = Released
      BY <1>10, <1>a DEF WaitEnter, QueueTypeOK, Released
    <3>2. master_pc' = "publish" => master_pc = "publish" /\ pushed' = pushed
      BY <1>10 DEF WaitEnter
    <3> QED
      BY <1>a, <3>1, <3>2 DEF RingInv, Distance
  <2>3. ExitInv'
    BY <1>10, <1>a DEF WaitEnter, QueueTypeOK, ExitInv
  <2>4. QueueTypeOK'
    BY <1>10, <1>a DEF WaitEnter, QueueTypeOK
  <2> QED
    BY <2>1, <2>2, <2>3, <2>4 DEF IInv
<1>11. CASE Sleep
  <2>1. CountInv'
    BY <1>11, <1>a DEF Sleep, QueueTypeOK, CountInv, Distance, Published, Added, Released, Subtracted
  <2>2. RingInv'
    <3>1. UNCHANGED <<buffer, head, tail>> /\ Released' = Released
      BY <1>11, <1>a DEF Sleep, QueueTypeOK, Released
    <3>2. master_pc' = "publish" => master_pc = "publish" /\ pushed' = pushed
      BY <1>11 DEF Sleep
    <3> QED
      BY <1>a, <3>1, <3>2 DEF RingInv, Distance
  <2>3. ExitInv'
    BY <1>11, <1>a DEF Sleep, QueueTypeOK, ExitInv
  <2>4. QueueTypeOK'
    BY <1>11, <1>a DEF Sleep, QueueTypeOK
  <2> QED
    BY <2>1, <2>2, <2>3, <2>4 DEF IInv
<1>12. CASE SpuriousWake
  <2>1. CountInv'
    BY <1>12, <1>a DEF SpuriousWake, QueueTypeOK, CountInv, Distance, Published, Added, Released, Subtracted
  <2>2. RingInv'
    <3>1. UNCHANGED <<buffer, head, tail>> /\ Released' = Released
      BY <1>12, <1>a DEF SpuriousWake, QueueTypeOK, Released
    <3>2. master_pc' = "publish" => master_pc = "publish" /\ pushed' = pushed
      BY <1>12 DEF SpuriousWake
    <3> QED
      BY <1>a, <3>1, <3>2 DEF RingInv, Distance
  <2>3. ExitInv'
    BY <1>12, <1>a DEF SpuriousWake, QueueTypeOK, ExitInv
  <2>4. QueueTypeOK'
    BY <1>12, <1>a DEF SpuriousWake, QueueTypeOK
  <2> QED
    BY <2>1, <2>2, <2>3, <2>4 DEF IInv
<1>13. CASE Wake
  <2>1. CountInv'
    BY <1>13, <1>a DEF Wake, QueueTypeOK, CountInv, Distance, Published, Added, Released, Subtracted
  <2>2. RingInv'
    <3>1. UNCHANGED <<buffer, head, tail>> /\ Released' = Released
      BY <1>13, <1>a DEF Wake, QueueTypeOK, Released
    <3>2. master_pc' = "publish" => master_pc = "publish" /\ pushed' = pushed
      BY <1>13 DEF Wake
    <3> QED
      BY <1>a, <3>1, <3>2 DEF RingInv, Distance
  <2>3. ExitInv'
    BY <1>13, <1>a DEF Wake, QueueTypeOK, ExitInv
  <2>4. QueueTypeOK'
    BY <1>13, <1>a DEF Wake, QueueTypeOK
  <2> QED
    BY <2>1, <2>2, <2>3, <2>4 DEF IInv
<1>14. CASE CheckExit
  <2>1. CountInv'
    BY <1>14, <1>a DEF CheckExit, QueueTypeOK, CountInv, Distance, Published, Added, Released, Subtracted
  <2>2. RingInv'
    <3>1. UNCHANGED <<buffer, head, tail>> /\ Released' = Released
      BY <1>14, <1>a DEF CheckExit, QueueTypeOK, Released
    <3>2. master_pc' = "publish" => master_pc = "publish" /\ pushed' = pushed
      BY <1>14 DEF CheckExit
    <3> QED
      BY <1>a, <3>1, <3>2 DEF RingInv, Distance
  <2>3. ExitInv'
    BY <1>14, <1>a DEF CheckExit, QueueTypeOK, ExitInv
  <2>4. QueueTypeOK'
    BY <1>14, <1>a DEF CheckExit, QueueTypeOK
  <2> QED
    BY <2>1, <2>2, <2>3, <2>4 DEF IInv
<1>15. CASE Take
  <2>0. buffer[head] = output + 1
    BY <1>15, <1>a, TakeInOrder DEF Take, IInv
  <2>1. CountInv'
    <3>1. Distance(head, tail)' = Distance(head, tail)
      BY <1>15 DEF Take, Distance
    <3> QED
      BY <1>15, <1>a, <1>b, <2>0, <3>1 DEF Take, QueueTypeOK, CountInv, Published, Added, Released, Subtracted
  <2>2. RingInv'
    <3>1. UNCHANGED <<buffer, head, tail, master_pc, pushed>>
      BY <1>15 DEF Take
    <3>2. Released' = Released
      BY <1>15, <1>a, <2>0 DEF Take, QueueTypeOK, Released
    <3> QED
      BY <1>a, <3>1, <3>2 DEF RingInv, Distance
  <2>3. ExitInv'
    BY <1>15, <1>a DEF Take, QueueTypeOK, ExitInv
  <2>4. QueueTypeOK'
    BY <1>15, <1>a DEF Take, QueueTypeOK
  <2> QED
    BY <2>1, <2>2, <2>3, <2>4 DEF IInv
<1>16. CASE Release
  <2>1. CountInv'
    <3>1. tail # head
      BY <1>16, <1>a DEF Release, QueueTypeOK, CountInv, Distance, Published, Added, Released, Subtracted
    <3>2. Distance(head, tail)' = Distance(head, tail) - 1
      BY <1>16, <1>a, <3>1, RingFacts DEF Release, QueueTypeOK, Distance
    <3> QED
      BY <1>16, <1>a, <1>b, <3>2 DEF Release, QueueTypeOK, CountInv, Published, Added, Released, Subtracted
  <2>2. RingInv'
    <3>1. /\ head' = After(head) /\ UNCHANGED <<buffer, tail, master_pc, pushed>>
          /\ Released' = Released + 1
      BY <1>16, <1>a DEF Release, QueueTypeOK, Released
    <3>2. tail # head
      BY <1>16, <1>a DEF Release, QueueTypeOK, CountInv, Distance, Published, Added, Released
    <3>3. Distance(After(head), tail) = Distance(head, tail) - 1
      BY <1>a, <3>2, RingFacts DEF QueueTypeOK
    <3>4. ASSUME NEW i \in Slots, Distance(After(head), i) < Distance(After(head), tail)
          PROVE  buffer[i] = Released + 2 + Distance(After(head), i)
      <4>1. CASE i = head
        <5>1. head \in Slots /\ tail \in Slots /\ RingSize \in Nat
          BY <1>a DEF QueueTypeOK
        <5>2. RingSize > 1 /\ Distance(After(head), head) = RingSize - 1
          BY <3>2, <5>1 DEF After, Distance, Slots
        <5> QED
          BY <1>b, <3>3, <3>4, <4>1, <5>1, <5>2
      <4>2. CASE i # head
        <5>1. Distance(After(head), i) = Distance(head, i) - 1
          BY <1>a, <4>2, RingFacts DEF QueueTypeOK
        <5>2. Distance(head, i) < Distance(head, tail) /\ Distance(head, i) \in Nat
          <6>1. Distance(head, i) \in Nat
            <7>1. head \in Slots
              BY <1>a DEF QueueTypeOK
            <7> QED
              BY <7>1, RingFacts
          <6> HIDE DEF Distance
          <6> QED
            BY <1>b, <3>3, <3>4, <5>1, <6>1
        <5>3. buffer[i] = Released + 1 + Distance(head, i) /\ Released \in Int
          BY <1>a, <5>2 DEF QueueTypeOK, RingInv, Released
        <5> QED
          BY <5>1, <5>2, <5>3
      <4> QED
        BY <4>1, <4>2
    <3>5. master_pc = "publish" => After(tail) # After(head)
      BY <1>a, <3>2 DEF QueueTypeOK, After
    <3>6. buffer[tail] = pushed \/ master_pc # "publish"
      BY <1>a DEF RingInv
    <3>7. Released \in Int /\ Released' = Released + 1
      BY <1>a, <3>1 DEF Released, QueueTypeOK
    <3>8. ASSUME NEW i \in Slots, Distance(head, i)' < Distance(head, tail)'
          PROVE  buffer'[i] = Released' + 1 + Distance(head, i)'
      <4>1. Distance(head, i)' = Distance(After(head), i) /\ Distance(head, tail)' = Distance(After(head), tail)
        BY <3>1 DEF Distance
      <4> QED
        BY <3>1, <3>4, <3>7, <3>8, <4>1
    <3> QED
      BY <3>1, <3>5, <3>6, <3>8 DEF RingInv, After
  <2>3. ExitInv'
    BY <1>16, <1>a DEF Release, QueueTypeOK, ExitInv
  <2>4. QueueTypeOK'
    BY <1>16, <1>a, RingFacts DEF Release, QueueTypeOK
  <2> QED
    BY <2>1, <2>2, <2>3, <2>4 DEF IInv
<1>17. CASE UNCHANGED spscVars
  BY <1>17, <1>a DEF spscVars, IInv, QueueTypeOK, CountInv, RingInv, ExitInv, Published, Added, Released,
                     Subtracted, Distance
<1>18. CASE QueueDone
  BY <1>17, <1>18 DEF QueueDone
<1> QED
  BY <1>1, <1>2, <1>3, <1>4, <1>5, <1>6, <1>7, <1>8, <1>9, <1>10, <1>11, <1>12,
     <1>13, <1>14, <1>15, <1>16, <1>17, <1>18 DEF QueueNext, QueueMaster, QueueWorker

\* The inductive invariant holds in every behaviour.
THEOREM Invariance == QueueSpec => []IInv
BY InitIInv, StepIInv, PTL DEF QueueSpec

\* Types, for every ring an int8_t can count: pending_ never wraps.
THEOREM TypeInvariant == QueueSpec => []QueueTypeOK
BY Invariance, PTL DEF IInv

----------------------------------------------------------------------------
\* A worker that is about to take a task has one.
LEMMA TaskThere == IInv => NeverEmpty
BY TakeInOrder DEF NeverEmpty

\* CHECK(tail_ != head) in Pop never fires, however the two threads interleave.
THEOREM PopFindsTask == QueueSpec => []NeverEmpty
BY Invariance, TaskThere, PTL

----------------------------------------------------------------------------
(* The queue implements TaskHandover *)

\* A queue just made has handed over nothing.
LEMMA HandoverInit == QueueInit => Handover!Init
<1> SUFFICES ASSUME QueueInit PROVE Handover!Init
  OBVIOUS
<1>1. master_pc = "idle" /\ worker_pc = "running" /\ pushed = 0 /\ output = 0
  BY DEF QueueInit
<1>2. exit_now = FALSE
  BY Zenon DEF QueueInit
<1> QED
  BY <1>1, <1>2 DEF Handover!Init

\* The step that publishes a task puts it, the step that copies it out takes it.
LEMMA HandoverStep == IInv /\ IInv' /\ [QueueNext]_spscVars => [Handover!Next]_(Handover!vars)
<1> SUFFICES ASSUME IInv, IInv', [QueueNext]_spscVars PROVE [Handover!Next]_(Handover!vars)
  OBVIOUS
<1> USE DEF Producer, Consumer, ringVars
<1> DEFINE putSoFar == IF master_pc \in {"enqueue", "publish"} THEN pushed - 1 ELSE pushed
<1> DEFINE quiet == UNCHANGED <<putSoFar, output, exit_now, worker_pc = "exited">>
<1>a. QueueTypeOK /\ CountInv /\ RingInv /\ ExitInv /\ CountInv'
  BY DEF IInv
<1>b. quiet => [Handover!Next]_(Handover!vars)
  BY Zenon DEF Handover!vars
<1>1. CASE Push
  <2>1. quiet
    BY <1>1, <1>a DEF Push, QueueTypeOK
  <2> QED
    BY <1>b, <2>1
<1>2. CASE Enqueue
  <2>1. quiet
    BY <1>2, <1>a DEF Enqueue, QueueTypeOK
  <2> QED
    BY <1>b, <2>1
<1>3. CASE Publish
  <2>1. putSoFar' = putSoFar + 1 /\ output' = output /\ worker_pc' = worker_pc
    BY <1>3, <1>a DEF Publish, QueueTypeOK
  <2>2. putSoFar - output < RingSize - 1
    <3>0. head \in Slots /\ tail \in Slots /\ After(tail) # head
      BY <1>3, <1>a DEF Publish, QueueTypeOK, RingInv
    <3>1. Distance(head, tail) + 1 = Distance(head, After(tail))
      BY <3>0, RingFacts
    <3>2. After(tail) \in Slots
      BY <3>0, RingFacts
    <3>3. Distance(head, After(tail)) \in 0 .. RingSize - 1 /\ Distance(head, tail) \in Nat
      BY <3>0, <3>2, RingFacts
    <3>4. putSoFar - output <= Distance(head, tail)
      <4>1. Published - Released = Distance(head, tail)
        BY <1>a DEF CountInv
      <4>2. putSoFar \in Nat /\ output \in Nat /\ putSoFar <= Published /\ Released <= output /\ Published \in Int /\ Released \in Int
        BY <1>a DEF QueueTypeOK, CountInv, Published, Released
      <4> HIDE DEF Published, Released, Distance, putSoFar
      <4> QED
        BY <3>3, <4>1, <4>2
    <3>5. putSoFar \in Int /\ output \in Int /\ RingSize \in Int
      BY <1>a DEF QueueTypeOK
    <3> HIDE DEF Distance, putSoFar
    <3> QED
      BY <3>1, <3>3, <3>4, <3>5
  <2>3. ~exit_now /\ exit_now' = exit_now
    BY <1>3, <1>a DEF Publish, ExitInv
  <2>4. Handover!Put
    BY <2>1, <2>2, <2>3 DEF Handover!Put
  <2> QED
    BY <2>4 DEF Handover!Next
<1>4. CASE AddPending
  <2>1. quiet
    BY <1>4, <1>a DEF AddPending, QueueTypeOK
  <2> QED
    BY <1>b, <2>1
<1>5. CASE Notify
  <2>1. quiet
    BY <1>5, <1>a DEF Notify, QueueTypeOK
  <2> QED
    BY <1>b, <2>1
<1>6. CASE SignalForKill
  <2>1. exit_now' = TRUE
    BY <1>6, Zenon DEF SignalForKill
  <2>2. putSoFar' = putSoFar /\ output' = output /\ worker_pc' = worker_pc
    BY <1>6 DEF SignalForKill
  <2>3. Handover!Kill
    BY <2>1, <2>2, Zenon DEF Handover!Kill
  <2> QED
    BY <2>3 DEF Handover!Next
<1>7. CASE NotifyAll
  <2>1. quiet
    BY <1>7, <1>a DEF NotifyAll, QueueTypeOK
  <2> QED
    BY <1>b, <2>1
<1>8. CASE JoinWorker
  <2>1. quiet
    BY <1>8, <1>a DEF JoinWorker, QueueTypeOK
  <2> QED
    BY <1>b, <2>1
<1>9. CASE SubPending
  <2>1. quiet
    BY <1>9, <1>a DEF SubPending, QueueTypeOK
  <2> QED
    BY <1>b, <2>1
<1>10. CASE WaitEnter
  <2>1. quiet
    BY <1>10, <1>a DEF WaitEnter, QueueTypeOK
  <2> QED
    BY <1>b, <2>1
<1>11. CASE Sleep
  <2>1. quiet
    BY <1>11, <1>a DEF Sleep, QueueTypeOK
  <2> QED
    BY <1>b, <2>1
<1>12. CASE SpuriousWake
  <2>1. quiet
    BY <1>12, <1>a DEF SpuriousWake, QueueTypeOK
  <2> QED
    BY <1>b, <2>1
<1>13. CASE Wake
  <2>1. quiet
    BY <1>13, <1>a DEF Wake, QueueTypeOK
  <2> QED
    BY <1>b, <2>1
<1>14. CASE CheckExit
  <2>1. CASE exit_now
    <3>1. worker_pc' = "exited" /\ putSoFar' = putSoFar /\ output' = output /\ exit_now' = exit_now
      BY <1>14, <2>1 DEF CheckExit
    <3>2. Handover!Exit
      BY <2>1, <3>1, Zenon DEF Handover!Exit
    <3> QED
      BY <3>2 DEF Handover!Next
  <2>2. CASE ~exit_now
    <3>1. quiet
      BY <1>14, <2>2 DEF CheckExit
    <3> QED
      BY <1>b, <3>1
  <2> QED
    BY <2>1, <2>2
<1>15. CASE Take
  <2>1. output < putSoFar /\ output' = output + 1
    BY <1>15, <1>a, TakeInOrder DEF Take, Published
  <2>2. worker_pc = "take" /\ worker_pc' = "release" /\ putSoFar' = putSoFar /\ exit_now' = exit_now
    BY <1>15 DEF Take
  <2>3. Handover!Take
    BY <2>1, <2>2 DEF Handover!Take
  <2> QED
    BY <2>3 DEF Handover!Next
<1>16. CASE Release
  <2>1. quiet
    BY <1>16, <1>a DEF Release, QueueTypeOK
  <2> QED
    BY <1>b, <2>1
<1>17. CASE UNCHANGED spscVars
  <2>1. quiet
    BY <1>17 DEF spscVars
  <2> QED
    BY <1>b, <2>1
<1>18. CASE QueueDone
  BY <1>17, <1>18 DEF QueueDone
<1> QED
  BY <1>1, <1>2, <1>3, <1>4, <1>5, <1>6, <1>7, <1>8, <1>9, <1>10, <1>11, <1>12,
     <1>13, <1>14, <1>15, <1>16, <1>17, <1>18 DEF QueueNext, QueueMaster, QueueWorker

\* Tasks are handed to the worker in the order of the pushes, each once, with at
\* most RingSize - 1 waiting.
THEOREM Refinement == QueueSpec => ImplementsHandover
<1>1. QueueSpec => []IInv
  BY Invariance
<1> QED
  BY <1>1, HandoverInit, HandoverStep, PTL DEF QueueSpec, ImplementsHandover, Handover!Spec
=============================================================================
