--------------------------- MODULE FrameQueueProofs ---------------------------
(***************************************************************************)
(* The safety of the frame queue for any number of threads, any capacity   *)
(* and any ticket width that is a multiple of it.                          *)
(*                                                                         *)
(* No property of FrameQueue is inductive by itself.  The occupancy bound  *)
(* rests on what a thread knows between its load of the tickets and its    *)
(* publication (Windows), which rests on the two guards being exclusive    *)
(* (GuardsExact) and, for a push, on nobody leaving RUNNING without the    *)
(* producer guard.                                                         *)
(***************************************************************************)
EXTENDS FrameQueue, TLAPS

(* What a thread at a label knows of the shared state.                     *)
Known(t) ==
  /\ reg[t].why # "INVARIANT"
  /\ pc[t] \in {"push_load", "push_write", "push_publish"} =>
       state = "RUNNING"
  /\ pc[t] \in {"push_load", "push_write"} => reg[t].arg < MaxSample
  /\ pc[t] \in {"push_write", "push_publish"} =>
       reg[t].head = head /\ Used(head, tail) < Capacity
  /\ pc[t] \in {"pop_copy", "pop_publish"} =>
       reg[t].tail = tail /\ Used(head, tail) > 0
  /\ pc[t] \in {"close_wipe", "close_tail"} =>
       reg[t].head = head /\ reg[t].tail = tail
  /\ pc[t] \in {"close_wipe", "close_tail", "close_state"} =>
       state = "FENCED"
  /\ pc[t] = "rearm_run" => state = "CLOSED"

Windows == \A t \in Threads : Known(t)

(* Until rfq_init has finished, only its caller is in a call.              *)
Boot ==
  /\ state \in {"FRESH", "INITIALIZING"} =>
       /\ reason = "NONE"
       /\ \A t \in Threads : pc[t] \in {"idle", "init_run"}
  /\ \A t \in Threads : pc[t] = "init_run" => state = "INITIALIZING"
  /\ \A t, u \in Threads : pc[t] = "init_run" /\ pc[u] = "init_run" => t = u

IInv == TypeOK /\ GuardsExact /\ OccupancyBounded /\ Windows /\ Boot

(* Every step of the queue is a step of one thread's call.                 *)
StepOf(t) ==
  \/ \E first \in Samples : InitClaim(t, first)
  \/ InitRun(t)
  \/ \E first \in Samples : PushCall(t, first)
  \/ PushTake(t)
  \/ PushCheck(t)
  \/ PushLoad(t)
  \/ PushWrite(t)
  \/ PushPublish(t)
  \/ PushStop(t)
  \/ ProducerRelease(t)
  \/ PopCall(t)
  \/ PopTake(t)
  \/ PopState(t)
  \/ PopReason(t)
  \/ PopLoad(t)
  \/ PopCopy(t)
  \/ PopPublish(t)
  \/ ConsumerRelease(t)
  \/ StopCall(t)
  \/ StopLatch(t)
  \/ ConfirmCall(t)
  \/ ConfirmReason(t)
  \/ ConfirmTake(t)
  \/ ConfirmFence(t)
  \/ \E discard \in BOOLEAN : CloseCall(t, discard)
  \/ CloseTake(t)
  \/ CloseLoad(t)
  \/ CloseWipe(t)
  \/ CloseTail(t)
  \/ CloseState(t)
  \/ \E first \in Samples : RearmCall(t, first)
  \/ RearmProducer(t)
  \/ RearmConsumer(t)
  \/ RearmReset(t)
  \/ RearmRun(t)
  \/ RearmRelease(t)
  \/ SummaryCall(t)
  \/ SummaryTake(t)
  \/ SummaryCopy(t)

(* A ticket names a slot.                                                  *)
LEMMA SlotOfTicket == ASSUME NEW k \in Tickets PROVE SlotOf(k) \in Slots
BY CapacityAssumption, TicketModAssumption DEF SlotOf, Slots, Tickets

(* The ring arithmetic: NextTicket adds one modulo the ticket width.       *)
LEMMA TicketArithmetic ==
  ASSUME NEW h \in Tickets, NEW t \in Tickets
  PROVE  /\ NextTicket(h) \in Tickets
         /\ Used(h, t) \in Nat
         /\ Used(h, h) = 0
         /\ Used(h, t) < Capacity => Used(NextTicket(h), t) = Used(h, t) + 1
         /\ Used(h, t) > 0 => Used(h, NextTicket(t)) = Used(h, t) - 1
BY CapacityAssumption, TicketModAssumption DEF NextTicket, Used, Tickets

(* What the calls do to a thread's locals keeps them in their types.       *)
LEMMA RegistersTyped ==
  ASSUME NEW r \in [Threads -> Registers], NEW t \in Threads
  PROVE  /\ r[t] \in Registers
         /\ [r EXCEPT ![t] = NoReg] \in [Threads -> Registers]
         /\ \A first \in Samples :
              [r EXCEPT ![t]["arg"] = first] \in [Threads -> Registers]
         /\ \A b \in BOOLEAN :
              [r EXCEPT ![t]["discard"] = b] \in [Threads -> Registers]
<1>1. NoReg \in Registers
  BY SampleAssumption, CapacityAssumption, TicketModAssumption
     DEF NoReg, Registers, Samples, Tickets, Reasons
<1> QED
  BY <1>1 DEF Registers

(* Every disjunct of Next is a step of one thread.                         *)
LEMMA NextIsStep == ASSUME Next PROVE \E t \in Threads : StepOf(t)
<1>1. ASSUME NEW t \in Threads, Push(t) PROVE StepOf(t)
  BY <1>1 DEF Push, StepOf
<1>2. ASSUME NEW t \in Threads, Pop(t) PROVE StepOf(t)
  BY <1>2 DEF Pop, StepOf
<1>3. ASSUME NEW t \in Threads, Control(t) PROVE StepOf(t)
  <2>1. CASE \E first \in Firsts : InitClaim(t, first) \/ RearmCall(t, first)
    <3>1. PICK first \in Samples : InitClaim(t, first) \/ RearmCall(t, first)
      BY <2>1, SampleAssumption DEF Samples
    <3> QED
      BY <3>1 DEF StepOf
  <2> QED
    BY <1>3, <2>1 DEF Control, StepOf
<1> QED
  BY <1>1, <1>2, <1>3 DEF Next, Threads

(* Each action keeps every variable in its type.                           *)
LEMMA TypeStep ==
  ASSUME IInv, NEW t \in Threads, StepOf(t) PROVE TypeOK'
<1> USE CapacityAssumption, TicketModAssumption, SampleAssumption
<1>0. TypeOK /\ Known(t) /\ reg[t] \in Registers
  BY DEF IInv, Windows, TypeOK
<1>1. CASE \E first \in Samples : InitClaim(t, first)
  <2>1. PICK first \in Samples : InitClaim(t, first)
    BY <1>1
  <2>2. reg' \in [Threads -> Registers]
    BY <1>0, <2>1, RegistersTyped DEF InitClaim, Set, TypeOK
  <2> QED
    BY <1>0, <2>1, <2>2 DEF InitClaim, Goto, TypeOK, atomics, counters, Labels, States
<1>2. CASE InitRun(t)
  <2>1. reg[t].arg \in Samples
    BY <1>0 DEF Registers
  <2>2. slots' \in [Slots -> Samples \cup {Wiped}] /\ delivered' \in Seq(Samples \cup {Wiped})
    BY <1>2 DEF InitRun
  <2>3. head' \in Tickets /\ tail' \in Tickets
    BY <1>2 DEF InitRun, Tickets
  <2> QED
    BY <1>0, <1>2, <2>1, <2>2, <2>3, RegistersTyped
       DEF InitRun, Goto, Return, TypeOK, Labels, Reasons, States
<1>3. CASE \E first \in Samples : PushCall(t, first)
  <2>1. PICK first \in Samples : PushCall(t, first)
    BY <1>3
  <2>2. reg' \in [Threads -> Registers]
    BY <1>0, <2>1, RegistersTyped DEF PushCall, Set, TypeOK
  <2> QED
    BY <1>0, <2>1, <2>2 DEF PushCall, Goto, TypeOK, atomics, counters, Labels, States
<1>4. CASE PushTake(t)
  <2>1. CASE Free(producer_busy)
    BY <1>0, <1>4, <2>1 DEF PushTake, Goto, TypeOK, counters, Labels
  <2>2. CASE ~Free(producer_busy)
    BY <1>0, <1>4, <2>2, RegistersTyped
       DEF PushTake, Goto, Return, Stop, TypeOK, counters, Labels, Reasons
  <2> QED
    BY <2>1, <2>2
<1>5. CASE PushCheck(t)
  BY <1>0, <1>5 DEF PushCheck, Set, Registers, TypeOK, atomics, counters, Labels, Reasons
<1>6. CASE PushLoad(t)
  <2>1. reg' \in [Threads -> Registers]
    <3>1. CASE Full(Used(head, tail))
      BY <1>0, <1>6, <3>1 DEF PushLoad, Set, Registers, TypeOK, Reasons
    <3>2. CASE ~Full(Used(head, tail))
      BY <1>0, <1>6, <3>2 DEF PushLoad, Set, Registers, TypeOK
    <3> QED
      BY <3>1, <3>2
  <2> QED
    BY <1>0, <1>6, <2>1 DEF PushLoad, TypeOK, atomics, counters, Labels
<1>7. CASE PushWrite(t)
  <2>1. SlotOf(reg[t].head) \in Slots
    BY <1>0, SlotOfTicket DEF Registers
  <2>2. reg[t].arg \in Samples /\ reg[t].arg + 1 \in Samples
    BY <1>0, <1>7 DEF PushWrite, Goto, Known, Registers, Samples
  <2> QED
    BY <1>0, <1>7, <2>1, <2>2 DEF PushWrite, Goto, atomics, TypeOK, Labels
<1>8. CASE PushPublish(t)
  <2>1. NextTicket(reg[t].head) \in Tickets
    BY <1>0, TicketArithmetic DEF Registers
  <2> QED
    BY <1>0, <1>8, <2>1 DEF PushPublish, Goto, counters, TypeOK, Labels
<1>9. CASE PushStop(t)
  <2>1. reg[t].why \in Reasons
    BY <1>0 DEF Registers
  <2> QED
    BY <1>0, <1>9, <2>1 DEF PushStop, Stop, Goto, counters, TypeOK, Labels
<1>10. CASE ProducerRelease(t)
  BY <1>10, <1>0, RegistersTyped DEF ProducerRelease, Goto, Set, Return,
      TypeOK, atomics, counters, Labels, Reasons, States
<1>11. CASE PopCall(t)
  BY <1>11, <1>0, RegistersTyped DEF PopCall, Goto, Set, TypeOK,
      atomics, counters, Labels, Reasons, States
<1>12. CASE PopTake(t)
  <2>1. CASE Free(consumer_busy)
    BY <1>0, <1>12, <2>1 DEF PopTake, ConsumerTake, Goto, TypeOK, counters, Labels
  <2>2. CASE ~Free(consumer_busy)
    BY <1>0, <1>12, <2>2, RegistersTyped
       DEF PopTake, ConsumerTake, Goto, Return, Stop, TypeOK, counters, Labels, Reasons
  <2> QED
    BY <2>1, <2>2
<1>13. CASE PopState(t)
  BY <1>0, <1>13 DEF PopState, Set, Registers, TypeOK, atomics, counters, Labels
<1>14. CASE PopReason(t)
  BY <1>14, <1>0, RegistersTyped DEF PopReason, Goto, Set, TypeOK,
      atomics, counters, Labels, Reasons, States
<1>15. CASE PopLoad(t)
  <2>1. reg' \in [Threads -> Registers]
    BY <1>0, <1>15 DEF PopLoad, Set, Registers, TypeOK
  <2> QED
    BY <1>0, <1>15, <2>1 DEF PopLoad, Stop, TypeOK, counters, Labels, Reasons
<1>16. CASE PopCopy(t)
  <2>1. SlotOf(reg[t].tail) \in Slots
    BY <1>0, SlotOfTicket DEF Registers
  <2> QED
    BY <1>0, <1>16, <2>1 DEF PopCopy, Goto, atomics, TypeOK, Labels
<1>17. CASE PopPublish(t)
  <2>1. NextTicket(reg[t].tail) \in Tickets
    BY <1>0, TicketArithmetic DEF Registers
  <2> QED
    BY <1>0, <1>17, <2>1 DEF PopPublish, Goto, counters, TypeOK, Labels
<1>18. CASE ConsumerRelease(t)
  BY <1>18, <1>0, RegistersTyped DEF ConsumerRelease, Goto, Set, Return,
      TypeOK, atomics, counters, Labels, Reasons, States
<1>19. CASE StopCall(t)
  BY <1>19, <1>0, RegistersTyped DEF StopCall, Goto, Set, TypeOK,
      atomics, counters, Labels, Reasons, States
<1>20. CASE StopLatch(t)
  BY <1>20, <1>0, RegistersTyped DEF StopLatch, Goto, Set, Stop, Return,
      TypeOK, atomics, counters, Labels, Reasons, States
<1>21. CASE ConfirmCall(t)
  BY <1>21, <1>0, RegistersTyped DEF ConfirmCall, Goto, Set, TypeOK,
      atomics, counters, Labels, Reasons, States
<1>22. CASE ConfirmReason(t)
  BY <1>22, <1>0, RegistersTyped DEF ConfirmReason, Goto, Set, Return,
      TypeOK, atomics, counters, Labels, Reasons, States
<1>23. CASE ConfirmTake(t)
  <2>1. CASE Free(producer_busy)
    BY <1>0, <1>23, <2>1 DEF ConfirmTake, Goto, TypeOK, counters, Labels
  <2>2. CASE ~Free(producer_busy)
    BY <1>0, <1>23, <2>2, RegistersTyped
       DEF ConfirmTake, Goto, Return, Stop, TypeOK, counters, Labels, Reasons
  <2> QED
    BY <2>1, <2>2
<1>24. CASE ConfirmFence(t)
  BY <1>24, <1>0, RegistersTyped DEF ConfirmFence, Goto, Set, TypeOK,
      atomics, counters, Labels, Reasons, States
<1>25. CASE \E discard \in BOOLEAN : CloseCall(t, discard)
  <2>1. PICK b \in BOOLEAN : CloseCall(t, b)
    BY <1>25
  <2>2. reg' \in [Threads -> Registers]
    BY <1>0, <2>1, RegistersTyped DEF CloseCall, Set, TypeOK
  <2> QED
    BY <1>0, <2>1, <2>2 DEF CloseCall, Goto, TypeOK, atomics, counters, Labels
<1>26. CASE CloseTake(t)
  <2>1. CASE Free(consumer_busy)
    BY <1>0, <1>26, <2>1 DEF CloseTake, ConsumerTake, Goto, TypeOK, counters, Labels
  <2>2. CASE ~Free(consumer_busy)
    BY <1>0, <1>26, <2>2, RegistersTyped
       DEF CloseTake, ConsumerTake, Goto, Return, Stop, TypeOK, counters, Labels, Reasons
  <2> QED
    BY <2>1, <2>2
<1>27. CASE CloseLoad(t)
  <2>1. reg' \in [Threads -> Registers]
    BY <1>0, <1>27 DEF CloseLoad, Registers, TypeOK
  <2> QED
    BY <1>0, <1>27, <2>1 DEF CloseLoad, Stop, TypeOK, counters, Labels, Reasons
<1>28. CASE CloseWipe(t)
  <2>1. Used(reg[t].head, reg[t].tail) \in Nat
    BY <1>0, TicketArithmetic DEF Registers
  <2>2. slots' \in [Slots -> Samples \cup {Wiped}]
    BY <1>28 DEF CloseWipe
  <2> QED
    BY <1>0, <1>28, <2>1, <2>2 DEF CloseWipe, Goto, atomics, TypeOK, Labels
<1>29. CASE CloseTail(t)
  <2>1. reg[t].head \in Tickets
    BY <1>0 DEF Registers
  <2> QED
    BY <1>0, <1>29, <2>1 DEF CloseTail, Goto, counters, TypeOK, Labels
<1>30. CASE CloseState(t)
  BY <1>30, <1>0, RegistersTyped DEF CloseState, Goto, Set, TypeOK,
      atomics, counters, Labels, Reasons, States
<1>31. CASE \E first \in Samples : RearmCall(t, first)
  <2>1. PICK first \in Samples : RearmCall(t, first)
    BY <1>31
  <2>2. reg' \in [Threads -> Registers]
    BY <1>0, <2>1, RegistersTyped DEF RearmCall, Set, TypeOK
  <2> QED
    BY <1>0, <2>1, <2>2 DEF RearmCall, Goto, TypeOK, atomics, counters, Labels, States
<1>32. CASE RearmProducer(t)
  <2>1. CASE Free(producer_busy)
    BY <1>0, <1>32, <2>1 DEF RearmProducer, Goto, TypeOK, counters, Labels
  <2>2. CASE ~Free(producer_busy)
    BY <1>0, <1>32, <2>2, RegistersTyped
       DEF RearmProducer, Goto, Return, Stop, TypeOK, counters, Labels, Reasons
  <2> QED
    BY <2>1, <2>2
<1>33. CASE RearmConsumer(t)
  <2>1. CASE Free(consumer_busy)
    BY <1>0, <1>33, <2>1 DEF RearmConsumer, Goto, TypeOK, counters, Labels
  <2>2. CASE ~Free(consumer_busy)
    BY <1>0, <1>33, <2>2, RegistersTyped
       DEF RearmConsumer, Goto, Return, Stop, TypeOK, counters, Labels, Reasons
  <2> QED
    BY <2>1, <2>2
<1>34. CASE RearmReset(t)
  <2>1. reg[t].arg \in Samples /\ << >> \in Seq(Samples \cup {Wiped})
    BY <1>0 DEF Registers
  <2>2. 0 \in Tickets
    BY DEF Tickets
  <2> QED
    <3> DEFINE Clean == /\ state = "CLOSED" /\ head = tail
                        /\ \A i \in Slots : slots[i] = Wiped
    <3>1. CASE Clean
      <4>1. /\ Goto(t, "rearm_reset", "rearm_run")
            /\ first_sample' = reg[t].arg /\ next_sample' = reg[t].arg
            /\ accepted' = 0 /\ consumed' = 0 /\ discarded' = 0
            /\ reason' = "NONE" /\ head' = 0 /\ tail' = 0
            /\ delivered' = << >> /\ late' = 0
            /\ UNCHANGED <<state, producer_busy, consumer_busy, slots, reg>>
        BY <1>34, <3>1 DEF RearmReset
      <4> QED
        BY <1>0, <2>1, <2>2, <4>1 DEF Goto, TypeOK, Labels, Reasons
    <3>2. CASE ~Clean
      BY <1>0, <1>34, <3>2 DEF RearmReset, Goto, counters, TypeOK, Labels
    <3> QED
      BY <3>1, <3>2
<1>35. CASE RearmRun(t)
  BY <1>35, <1>0, RegistersTyped DEF RearmRun, Goto, Set, TypeOK,
      atomics, counters, Labels, Reasons, States
<1>36. CASE RearmRelease(t)
  BY <1>36, <1>0, RegistersTyped DEF RearmRelease, Goto, Set, TypeOK,
      atomics, counters, Labels, Reasons, States
<1>37. CASE SummaryCall(t)
  BY <1>37, <1>0, RegistersTyped DEF SummaryCall, Goto, Set, TypeOK,
      atomics, counters, Labels, Reasons, States
<1>38. CASE SummaryTake(t)
  <2>1. CASE Free(consumer_busy)
    BY <1>0, <1>38, <2>1 DEF SummaryTake, Goto, TypeOK, counters, Labels
  <2>2. CASE ~Free(consumer_busy)
    BY <1>0, <1>38, <2>2, RegistersTyped
       DEF SummaryTake, Goto, Return, Stop, TypeOK, counters, Labels, Reasons
  <2> QED
    BY <2>1, <2>2
<1>39. CASE SummaryCopy(t)
  BY <1>39, <1>0, RegistersTyped DEF SummaryCopy, Goto, Set, TypeOK,
      atomics, counters, Labels, Reasons, States
<1> QED
  BY <1>1, <1>2, <1>3, <1>4, <1>5, <1>6, <1>7, <1>8, <1>9, <1>10, <1>11,
      <1>12, <1>13, <1>14, <1>15, <1>16, <1>17, <1>18, <1>19, <1>20, <1>21,
      <1>22, <1>23, <1>24, <1>25, <1>26, <1>27, <1>28, <1>29, <1>30, <1>31,
      <1>32, <1>33, <1>34, <1>35, <1>36, <1>37, <1>38, <1>39 DEF StepOf

(* A guard is exact for the labels S at which it is held.                  *)
Exact(S, guard, at) ==
  /\ guard <=> \E u \in Threads : at[u] \in S
  /\ \A u, v \in Threads : at[u] \in S /\ at[v] \in S => u = v

(* A step of one thread from label a to label b: it stays on its side of   *)
(* the guard, enters when the guard is free, or leaves and frees it.       *)
Moves(S, guard, next, a, b) ==
  \/ (next <=> guard) /\ (a \in S <=> b \in S)
  \/ ~guard /\ next /\ b \in S
  \/ ~next /\ a \in S /\ b \notin S

(* A guard moved this way stays exact.                                     *)
LEMMA GuardMove ==
  ASSUME NEW S, NEW guard \in BOOLEAN, NEW next \in BOOLEAN,
         NEW at \in [Threads -> Labels], NEW t \in Threads, NEW b \in Labels,
         Exact(S, guard, at), Moves(S, guard, next, at[t], b)
  PROVE  Exact(S, next, [at EXCEPT ![t] = b])
BY DEF Exact, Moves

(* GuardsExact says that both guards are exact.                            *)
LEMMA GuardsAreExact ==
  GuardsExact <=> /\ Exact(ProducerSection, producer_busy, pc)
                  /\ Exact(ConsumerSection, consumer_busy, pc)
BY DEF GuardsExact, Exact

(* Each action takes a guard only when it is free and releases only its    *)
(* own.                                                                    *)
LEMMA GuardStep ==
  ASSUME IInv, NEW t \in Threads, StepOf(t) PROVE GuardsExact'
<1> DEFINE Disciplined ==
      /\ pc' = [pc EXCEPT ![t] = pc'[t]]
      /\ Moves(ProducerSection, producer_busy, producer_busy', pc[t], pc'[t])
      /\ Moves(ConsumerSection, consumer_busy, consumer_busy', pc[t], pc'[t])
<1>0. TypeOK /\ TypeOK' /\ Boot /\ GuardsExact
  BY TypeStep DEF IInv
<1>a. ASSUME Disciplined PROVE GuardsExact'
  <2>1. pc'[t] \in Labels
    BY <1>0 DEF TypeOK
  <2>2. Exact(ProducerSection, producer_busy', pc')
    BY <1>0, <1>a, <2>1, GuardMove, GuardsAreExact DEF TypeOK
  <2>3. Exact(ConsumerSection, consumer_busy', pc')
    BY <1>0, <1>a, <2>1, GuardMove, GuardsAreExact DEF TypeOK
  <2> QED
    BY <2>2, <2>3 DEF GuardsExact, Exact
<1>b. pc \in [Threads -> Labels]
  BY <1>0 DEF TypeOK
<1>1. CASE \E first \in Samples : InitClaim(t, first)
  BY <1>1, <1>a, <1>b DEF InitClaim, Goto, Set, atomics, counters,
      Moves, ProducerSection, ConsumerSection
<1>2. CASE InitRun(t)
  <2>1. \A u \in Threads : pc[u] \in {"idle", "init_run"}
    BY <1>0, <1>2 DEF Boot, InitRun, Return, Goto
  <2>2. \A u \in Threads : pc'[u] \in {"idle", "init_run"}
    BY <2>1, <1>b, <1>2 DEF InitRun, Return, Goto
  <2> QED
    BY <1>2, <2>2 DEF InitRun, GuardsExact, ProducerSection, ConsumerSection
<1>3. CASE \E first \in Samples : PushCall(t, first)
  BY <1>3, <1>a, <1>b DEF PushCall, Goto, Set, atomics, counters, Moves,
      ProducerSection, ConsumerSection
<1>4. CASE PushTake(t)
  BY <1>4, <1>a, <1>b DEF PushTake, Goto, Set, Free, Stop, Return,
      atomics, counters, Moves, ProducerSection, ConsumerSection
<1>5. CASE PushCheck(t)
  BY <1>5, <1>a, <1>b DEF PushCheck, Goto, Set, atomics, counters,
      Moves, ProducerSection, ConsumerSection
<1>6. CASE PushLoad(t)
  BY <1>6, <1>a, <1>b DEF PushLoad, Goto, Set, Full, Corrupt, atomics,
      counters, Moves, ProducerSection, ConsumerSection
<1>7. CASE PushWrite(t)
  BY <1>7, <1>a, <1>b DEF PushWrite, Goto, Set, atomics, counters,
      Moves, ProducerSection, ConsumerSection
<1>8. CASE PushPublish(t)
  BY <1>8, <1>a, <1>b DEF PushPublish, Goto, Set, atomics, counters,
      Moves, ProducerSection, ConsumerSection
<1>9. CASE PushStop(t)
  BY <1>9, <1>a, <1>b DEF PushStop, Goto, Set, Stop, atomics, counters,
      Moves, ProducerSection, ConsumerSection
<1>10. CASE ProducerRelease(t)
  BY <1>10, <1>a, <1>b DEF ProducerRelease, Goto, Set, Return, atomics,
      counters, Moves, ProducerSection, ConsumerSection
<1>11. CASE PopCall(t)
  BY <1>11, <1>a, <1>b DEF PopCall, Goto, Set, atomics, counters, Moves,
      ProducerSection, ConsumerSection
<1>12. CASE PopTake(t)
  BY <1>12, <1>a, <1>b DEF PopTake, Goto, Set, ConsumerTake, Free, Stop,
      Return, atomics, counters, Moves, ProducerSection, ConsumerSection
<1>13. CASE PopState(t)
  BY <1>13, <1>a, <1>b DEF PopState, Goto, Set, atomics, counters,
      Moves, ProducerSection, ConsumerSection
<1>14. CASE PopReason(t)
  BY <1>14, <1>a, <1>b DEF PopReason, Goto, Set, atomics, counters,
      Moves, ProducerSection, ConsumerSection
<1>15. CASE PopLoad(t)
  BY <1>15, <1>a, <1>b DEF PopLoad, Goto, Set, Corrupt, Stop, atomics,
      counters, Moves, ProducerSection, ConsumerSection
<1>16. CASE PopCopy(t)
  BY <1>16, <1>a, <1>b DEF PopCopy, Goto, Set, atomics, counters, Moves,
      ProducerSection, ConsumerSection
<1>17. CASE PopPublish(t)
  BY <1>17, <1>a, <1>b DEF PopPublish, Goto, Set, atomics, counters,
      Moves, ProducerSection, ConsumerSection
<1>18. CASE ConsumerRelease(t)
  BY <1>18, <1>a, <1>b DEF ConsumerRelease, Goto, Set, Return, atomics,
      counters, Moves, ProducerSection, ConsumerSection
<1>19. CASE StopCall(t)
  BY <1>19, <1>a, <1>b DEF StopCall, Goto, Set, atomics, counters,
      Moves, ProducerSection, ConsumerSection
<1>20. CASE StopLatch(t)
  BY <1>20, <1>a, <1>b DEF StopLatch, Goto, Set, Stop, Return, atomics,
      counters, Moves, ProducerSection, ConsumerSection
<1>21. CASE ConfirmCall(t)
  BY <1>21, <1>a, <1>b DEF ConfirmCall, Goto, Set, atomics, counters,
      Moves, ProducerSection, ConsumerSection
<1>22. CASE ConfirmReason(t)
  BY <1>22, <1>a, <1>b DEF ConfirmReason, Goto, Set, Return, atomics,
      counters, Moves, ProducerSection, ConsumerSection
<1>23. CASE ConfirmTake(t)
  BY <1>23, <1>a, <1>b DEF ConfirmTake, Goto, Set, Free, Return,
      atomics, counters, Moves, ProducerSection, ConsumerSection
<1>24. CASE ConfirmFence(t)
  BY <1>24, <1>a, <1>b DEF ConfirmFence, Goto, Set, atomics, counters,
      Moves, ProducerSection, ConsumerSection
<1>25. CASE \E discard \in BOOLEAN : CloseCall(t, discard)
  BY <1>25, <1>a, <1>b DEF CloseCall, Goto, Set, atomics, counters,
      Moves, ProducerSection, ConsumerSection
<1>26. CASE CloseTake(t)
  BY <1>26, <1>a, <1>b DEF CloseTake, Goto, Set, ConsumerTake, Free,
      Stop, Return, atomics, counters, Moves, ProducerSection,
      ConsumerSection
<1>27. CASE CloseLoad(t)
  BY <1>27, <1>a, <1>b DEF CloseLoad, Goto, Set, Corrupt, Stop, atomics,
      counters, Moves, ProducerSection, ConsumerSection
<1>28. CASE CloseWipe(t)
  BY <1>28, <1>a, <1>b DEF CloseWipe, Goto, Set, atomics, counters,
      Moves, ProducerSection, ConsumerSection
<1>29. CASE CloseTail(t)
  BY <1>29, <1>a, <1>b DEF CloseTail, Goto, Set, atomics, counters,
      Moves, ProducerSection, ConsumerSection
<1>30. CASE CloseState(t)
  BY <1>30, <1>a, <1>b DEF CloseState, Goto, Set, atomics, counters,
      Moves, ProducerSection, ConsumerSection
<1>31. CASE \E first \in Samples : RearmCall(t, first)
  BY <1>31, <1>a, <1>b DEF RearmCall, Goto, Set, atomics, counters,
      Moves, ProducerSection, ConsumerSection
<1>32. CASE RearmProducer(t)
  BY <1>32, <1>a, <1>b DEF RearmProducer, Goto, Set, Free, Return,
      atomics, counters, Moves, ProducerSection, ConsumerSection
<1>33. CASE RearmConsumer(t)
  BY <1>33, <1>a, <1>b DEF RearmConsumer, Goto, Set, Free, atomics,
      counters, Moves, ProducerSection, ConsumerSection
<1>34. CASE RearmReset(t)
  BY <1>34, <1>a, <1>b DEF RearmReset, Goto, Set, atomics, counters,
      Moves, ProducerSection, ConsumerSection
<1>35. CASE RearmRun(t)
  BY <1>35, <1>a, <1>b DEF RearmRun, Goto, Set, atomics, counters,
      Moves, ProducerSection, ConsumerSection
<1>36. CASE RearmRelease(t)
  BY <1>36, <1>a, <1>b DEF RearmRelease, Goto, Set, atomics, counters,
      Moves, ProducerSection, ConsumerSection
<1>37. CASE SummaryCall(t)
  BY <1>37, <1>a, <1>b DEF SummaryCall, Goto, Set, atomics, counters,
      Moves, ProducerSection, ConsumerSection
<1>38. CASE SummaryTake(t)
  BY <1>38, <1>a, <1>b DEF SummaryTake, Goto, Set, Free, Return,
      atomics, counters, Moves, ProducerSection, ConsumerSection
<1>39. CASE SummaryCopy(t)
  BY <1>39, <1>a, <1>b DEF SummaryCopy, Goto, Set, atomics, counters,
      Moves, ProducerSection, ConsumerSection
<1> QED
  BY <1>1, <1>2, <1>3, <1>4, <1>5, <1>6, <1>7, <1>8, <1>9, <1>10, <1>11,
      <1>12, <1>13, <1>14, <1>15, <1>16, <1>17, <1>18, <1>19, <1>20, <1>21,
      <1>22, <1>23, <1>24, <1>25, <1>26, <1>27, <1>28, <1>29, <1>30, <1>31,
      <1>32, <1>33, <1>34, <1>35, <1>36, <1>37, <1>38, <1>39 DEF StepOf

(* Until rfq_init has finished nobody else enters a call.                  *)
LEMMA BootStep ==
  ASSUME IInv, NEW t \in Threads, StepOf(t) PROVE Boot'
<1>0. TypeOK /\ Boot /\ Known(t)
  BY DEF IInv, Windows
<1>b. pc \in [Threads -> Labels]
  BY <1>0 DEF TypeOK
<1> QED
  BY <1>0, <1>b DEF Boot, Known, StepOf, Goto, Return, Stop, Set, ConsumerTake,
       InitClaim, InitRun, PushCall, PushTake, PushCheck, PushLoad,
       PushWrite, PushPublish, PushStop, ProducerRelease, PopCall, PopTake,
       PopState, PopReason, PopLoad, PopCopy, PopPublish, ConsumerRelease,
       StopCall, StopLatch, ConfirmCall, ConfirmReason, ConfirmTake,
       ConfirmFence, CloseCall, CloseTake, CloseLoad, CloseWipe, CloseTail,
       CloseState, RearmCall, RearmProducer, RearmConsumer, RearmReset,
       RearmRun, RearmRelease, SummaryCall, SummaryTake, SummaryCopy,
       atomics, counters

(* Only the holder of a guard moves its ticket, by what it has checked.    *)
LEMMA OccupancyStep ==
  ASSUME IInv, NEW t \in Threads, StepOf(t) PROVE OccupancyBounded'
<1>0. TypeOK /\ OccupancyBounded /\ Known(t)
  BY DEF IInv, Windows
<1>a. head \in Tickets /\ tail \in Tickets /\ 0 \in Tickets /\ Capacity \in Nat
  BY <1>0, CapacityAssumption, TicketModAssumption DEF TypeOK, Tickets
<1>b. /\ Used(0, 0) = 0 /\ Used(head, tail) \in Nat /\ Used(head, head) = 0
      /\ Capacity \in Nat
  BY <1>a, TicketArithmetic
<1>1. CASE PushPublish(t)
  BY <1>0, <1>a, <1>b, <1>1, TicketArithmetic
     DEF PushPublish, Goto, Known, OccupancyBounded
<1>2. CASE PopPublish(t)
  BY <1>0, <1>a, <1>b, <1>2, TicketArithmetic
     DEF PopPublish, Goto, Known, OccupancyBounded
<1>3. CASE CloseTail(t)
  BY <1>0, <1>b, <1>3 DEF CloseTail, Goto, Known, OccupancyBounded
<1>4. CASE InitRun(t) \/ RearmReset(t)
  BY <1>0, <1>b, <1>4 DEF InitRun, RearmReset, OccupancyBounded
<1>5. CASE PopLoad(t) \/ CloseLoad(t) \/ PushStop(t)
  BY <1>0, <1>b, <1>5 DEF PopLoad, CloseLoad, PushStop, Stop, Corrupt, Known,
     OccupancyBounded
<1>6. ASSUME UNCHANGED <<head, tail>>, reason' \in {reason, "REENTRY", "USER"}
      PROVE  OccupancyBounded'
  BY <1>0, <1>6 DEF OccupancyBounded
<1> QED
  BY <1>1, <1>2, <1>3, <1>4, <1>5, <1>6 DEF StepOf, Goto, Return, Stop, Set, ConsumerTake,
       InitClaim, InitRun, PushCall, PushTake, PushCheck, PushLoad,
       PushWrite, PushPublish, PushStop, ProducerRelease, PopCall, PopTake,
       PopState, PopReason, PopLoad, PopCopy, PopPublish, ConsumerRelease,
       StopCall, StopLatch, ConfirmCall, ConfirmReason, ConfirmTake,
       ConfirmFence, CloseCall, CloseTake, CloseLoad, CloseWipe, CloseTail,
       CloseState, RearmCall, RearmProducer, RearmConsumer, RearmReset,
       RearmRun, RearmRelease, SummaryCall, SummaryTake, SummaryCopy,
       atomics, counters

(* What every thread knows stays true: a step of another thread that could *)
(* disturb it needs a guard that the first thread holds.                   *)
LEMMA WindowStep ==
  ASSUME IInv, NEW t \in Threads, StepOf(t), NEW u \in Threads
  PROVE  Known(u)'
<1>0. TypeOK /\ OccupancyBounded /\ Known(t) /\ Known(u) /\ Boot
  BY DEF IInv, Windows
<1>b. /\ head \in Tickets /\ tail \in Tickets
      /\ Used(head, tail) \in Nat /\ Capacity \in Nat
      /\ pc \in [Threads -> Labels] /\ reg \in [Threads -> Registers]
      /\ reg[t] \in Registers /\ MaxSample \in Nat
  BY <1>0, TicketArithmetic, CapacityAssumption, SampleAssumption DEF TypeOK
<1>c. \/ u = t
      \/ /\ ~(pc[t] \in ProducerSection /\ pc[u] \in ProducerSection)
         /\ ~(pc[t] \in ConsumerSection /\ pc[u] \in ConsumerSection)
  BY DEF IInv, GuardsExact
<1>d. /\ Used(head, tail) < Capacity =>
           Used(NextTicket(head), tail) = Used(head, tail) + 1
      /\ Used(head, tail) > 0 =>
           Used(head, NextTicket(tail)) = Used(head, tail) - 1
  BY <1>b, TicketArithmetic
<1>1. CASE \E first \in Samples : InitClaim(t, first)
  BY <1>1, <1>0, <1>b, <1>c DEF InitClaim, Goto, Set, Known,
      ProducerSection, ConsumerSection, OccupancyBounded, Boot, NoReg,
      Registers, atomics, counters
<1>2. CASE InitRun(t)
  BY <1>2, <1>0, <1>b, <1>c DEF InitRun, Goto, Set, Return, Known,
      ProducerSection, ConsumerSection, OccupancyBounded, Boot, NoReg,
      Registers, atomics, counters
<1>3. CASE \E first \in Samples : PushCall(t, first)
  BY <1>3, <1>0, <1>b, <1>c DEF PushCall, Goto, Set, Known,
      ProducerSection, ConsumerSection, OccupancyBounded, Boot, NoReg,
      Registers, atomics, counters
<1>4. CASE PushTake(t)
  BY <1>4, <1>0, <1>b, <1>c DEF PushTake, Goto, Set, Free, Stop, Return,
      Known, ProducerSection, ConsumerSection, OccupancyBounded, Boot,
      NoReg, Registers, atomics, counters
<1>5. CASE PushCheck(t)
  <2>1. CASE u # t
    BY <1>0, <1>b, <1>5, <2>1 DEF PushCheck, Set, Known, atomics
  <2>2. CASE u = t
    <3> DEFINE refuse == state # "RUNNING" \/ reason # "NONE"
               why == IF reg[t].arg # next_sample THEN "CONTINUITY"
                      ELSE IF reg[t].arg > MaxSample - 1
                           THEN "SAMPLE_OVERFLOW" ELSE "NONE"
    <3>1. /\ pc'[t] = IF refuse THEN "producer_release"
                       ELSE IF why # "NONE" THEN "push_stop" ELSE "push_load"
          /\ reg'[t].why = IF refuse THEN "NONE" ELSE why
          /\ reg'[t].arg = reg[t].arg
          /\ state' = state
      BY <1>b, <1>5 DEF PushCheck, Set, Registers, atomics
    <3>2. why # "INVARIANT" /\ (why = "NONE" => reg[t].arg < MaxSample)
      BY <1>b DEF Registers, Samples
    <3> QED
      BY <2>2, <3>1, <3>2 DEF Known
  <2> QED
    BY <2>1, <2>2
<1>6. CASE PushLoad(t)
  BY <1>6, <1>0, <1>b, <1>c DEF PushLoad, Goto, Set, Full, Corrupt,
      Known, ProducerSection, ConsumerSection, OccupancyBounded, Boot,
      NoReg, Registers, atomics, counters
<1>7. CASE PushWrite(t)
  BY <1>7, <1>0, <1>b, <1>c DEF PushWrite, Goto, Set, Known,
      ProducerSection, ConsumerSection, OccupancyBounded, Boot, NoReg,
      Registers, atomics, counters
<1>8. CASE PushPublish(t)
  BY <1>0, <1>b, <1>c, <1>d, <1>8 DEF PushPublish, Goto, Known, ProducerSection, ConsumerSection
<1>9. CASE PushStop(t)
  BY <1>9, <1>0, <1>b, <1>c DEF PushStop, Goto, Set, Stop, Known,
      ProducerSection, ConsumerSection, OccupancyBounded, Boot, NoReg,
      Registers, atomics, counters
<1>10. CASE ProducerRelease(t)
  BY <1>10, <1>0, <1>b, <1>c DEF ProducerRelease, Goto, Set, Return,
      Known, ProducerSection, ConsumerSection, OccupancyBounded, Boot,
      NoReg, Registers, atomics, counters
<1>11. CASE PopCall(t)
  BY <1>11, <1>0, <1>b, <1>c DEF PopCall, Goto, Set, Known,
      ProducerSection, ConsumerSection, OccupancyBounded, Boot, NoReg,
      Registers, atomics, counters
<1>12. CASE PopTake(t)
  BY <1>12, <1>0, <1>b, <1>c DEF PopTake, Goto, Set, ConsumerTake, Free,
      Stop, Return, Known, ProducerSection, ConsumerSection,
      OccupancyBounded, Boot, NoReg, Registers, atomics, counters
<1>13. CASE PopState(t)
  BY <1>13, <1>0, <1>b, <1>c DEF PopState, Goto, Set, Known,
      ProducerSection, ConsumerSection, OccupancyBounded, Boot, NoReg,
      Registers, atomics, counters
<1>14. CASE PopReason(t)
  BY <1>14, <1>0, <1>b, <1>c DEF PopReason, Goto, Set, Known,
      ProducerSection, ConsumerSection, OccupancyBounded, Boot, NoReg,
      Registers, atomics, counters
<1>15. CASE PopLoad(t)
  BY <1>15, <1>0, <1>b, <1>c DEF PopLoad, Goto, Set, Corrupt, Stop,
      Known, ProducerSection, ConsumerSection, OccupancyBounded, Boot,
      NoReg, Registers, atomics, counters
<1>16. CASE PopCopy(t)
  BY <1>16, <1>0, <1>b, <1>c DEF PopCopy, Goto, Set, Known,
      ProducerSection, ConsumerSection, OccupancyBounded, Boot, NoReg,
      Registers, atomics, counters
<1>17. CASE PopPublish(t)
  BY <1>0, <1>b, <1>c, <1>d, <1>17 DEF PopPublish, Goto, Known, ProducerSection, ConsumerSection
<1>18. CASE ConsumerRelease(t)
  BY <1>18, <1>0, <1>b, <1>c DEF ConsumerRelease, Goto, Set, Return,
      Known, ProducerSection, ConsumerSection, OccupancyBounded, Boot,
      NoReg, Registers, atomics, counters
<1>19. CASE StopCall(t)
  BY <1>19, <1>0, <1>b, <1>c DEF StopCall, Goto, Set, Known,
      ProducerSection, ConsumerSection, OccupancyBounded, Boot, NoReg,
      Registers, atomics, counters
<1>20. CASE StopLatch(t)
  BY <1>20, <1>0, <1>b, <1>c DEF StopLatch, Goto, Set, Stop, Return,
      Known, ProducerSection, ConsumerSection, OccupancyBounded, Boot,
      NoReg, Registers, atomics, counters
<1>21. CASE ConfirmCall(t)
  BY <1>21, <1>0, <1>b, <1>c DEF ConfirmCall, Goto, Set, Known,
      ProducerSection, ConsumerSection, OccupancyBounded, Boot, NoReg,
      Registers, atomics, counters
<1>22. CASE ConfirmReason(t)
  BY <1>22, <1>0, <1>b, <1>c DEF ConfirmReason, Goto, Set, Return,
      Known, ProducerSection, ConsumerSection, OccupancyBounded, Boot,
      NoReg, Registers, atomics, counters
<1>23. CASE ConfirmTake(t)
  BY <1>23, <1>0, <1>b, <1>c DEF ConfirmTake, Goto, Set, Free, Return,
      Known, ProducerSection, ConsumerSection, OccupancyBounded, Boot,
      NoReg, Registers, atomics, counters
<1>24. CASE ConfirmFence(t)
  BY <1>24, <1>0, <1>b, <1>c DEF ConfirmFence, Goto, Set, Known,
      ProducerSection, ConsumerSection, OccupancyBounded, Boot, NoReg,
      Registers, atomics, counters
<1>25. CASE \E discard \in BOOLEAN : CloseCall(t, discard)
  BY <1>25, <1>0, <1>b, <1>c DEF CloseCall, Goto, Set, Known,
      ProducerSection, ConsumerSection, OccupancyBounded, Boot, NoReg,
      Registers, atomics, counters
<1>26. CASE CloseTake(t)
  BY <1>26, <1>0, <1>b, <1>c DEF CloseTake, Goto, Set, ConsumerTake,
      Free, Stop, Return, Known, ProducerSection, ConsumerSection,
      OccupancyBounded, Boot, NoReg, Registers, atomics, counters
<1>27. CASE CloseLoad(t)
  BY <1>27, <1>0, <1>b, <1>c DEF CloseLoad, Goto, Set, Corrupt, Stop,
      Known, ProducerSection, ConsumerSection, OccupancyBounded, Boot,
      NoReg, Registers, atomics, counters
<1>28. CASE CloseWipe(t)
  BY <1>28, <1>0, <1>b, <1>c DEF CloseWipe, Goto, Set, Known,
      ProducerSection, ConsumerSection, OccupancyBounded, Boot, NoReg,
      Registers, atomics, counters
<1>29. CASE CloseTail(t)
  BY <1>29, <1>0, <1>b, <1>c DEF CloseTail, Goto, Set, Known,
      ProducerSection, ConsumerSection, OccupancyBounded, Boot, NoReg,
      Registers, atomics, counters
<1>30. CASE CloseState(t)
  BY <1>30, <1>0, <1>b, <1>c DEF CloseState, Goto, Set, Known,
      ProducerSection, ConsumerSection, OccupancyBounded, Boot, NoReg,
      Registers, atomics, counters
<1>31. CASE \E first \in Samples : RearmCall(t, first)
  BY <1>31, <1>0, <1>b, <1>c DEF RearmCall, Goto, Set, Known,
      ProducerSection, ConsumerSection, OccupancyBounded, Boot, NoReg,
      Registers, atomics, counters
<1>32. CASE RearmProducer(t)
  BY <1>32, <1>0, <1>b, <1>c DEF RearmProducer, Goto, Set, Free, Return,
      Known, ProducerSection, ConsumerSection, OccupancyBounded, Boot,
      NoReg, Registers, atomics, counters
<1>33. CASE RearmConsumer(t)
  BY <1>33, <1>0, <1>b, <1>c DEF RearmConsumer, Goto, Set, Free, Known,
      ProducerSection, ConsumerSection, OccupancyBounded, Boot, NoReg,
      Registers, atomics, counters
<1>34. CASE RearmReset(t)
  BY <1>34, <1>0, <1>b, <1>c DEF RearmReset, Goto, Set, Known,
      ProducerSection, ConsumerSection, OccupancyBounded, Boot, NoReg,
      Registers, atomics, counters
<1>35. CASE RearmRun(t)
  BY <1>35, <1>0, <1>b, <1>c DEF RearmRun, Goto, Set, Known,
      ProducerSection, ConsumerSection, OccupancyBounded, Boot, NoReg,
      Registers, atomics, counters
<1>36. CASE RearmRelease(t)
  BY <1>36, <1>0, <1>b, <1>c DEF RearmRelease, Goto, Set, Known,
      ProducerSection, ConsumerSection, OccupancyBounded, Boot, NoReg,
      Registers, atomics, counters
<1>37. CASE SummaryCall(t)
  BY <1>37, <1>0, <1>b, <1>c DEF SummaryCall, Goto, Set, Known,
      ProducerSection, ConsumerSection, OccupancyBounded, Boot, NoReg,
      Registers, atomics, counters
<1>38. CASE SummaryTake(t)
  BY <1>38, <1>0, <1>b, <1>c DEF SummaryTake, Goto, Set, Free, Return,
      Known, ProducerSection, ConsumerSection, OccupancyBounded, Boot,
      NoReg, Registers, atomics, counters
<1>39. CASE SummaryCopy(t)
  BY <1>39, <1>0, <1>b, <1>c DEF SummaryCopy, Goto, Set, Known,
      ProducerSection, ConsumerSection, OccupancyBounded, Boot, NoReg,
      Registers, atomics, counters
<1> QED
  BY <1>1, <1>2, <1>3, <1>4, <1>5, <1>6, <1>7, <1>8, <1>9, <1>10, <1>11,
      <1>12, <1>13, <1>14, <1>15, <1>16, <1>17, <1>18, <1>19, <1>20, <1>21,
      <1>22, <1>23, <1>24, <1>25, <1>26, <1>27, <1>28, <1>29, <1>30, <1>31,
      <1>32, <1>33, <1>34, <1>35, <1>36, <1>37, <1>38, <1>39 DEF StepOf

(* The initial state is consistent.                                        *)
LEMMA InitIInv == ASSUME Init PROVE IInv
<1>1. TypeOK
  <2>1. NoReg \in Registers /\ 0 \in Tickets /\ 0 \in Samples
    BY SampleAssumption, CapacityAssumption, TicketModAssumption
       DEF NoReg, Registers, Samples, Tickets, Reasons
  <2>2. << >> \in Seq(Samples \cup {Wiped})
    OBVIOUS
  <2>3. slots \in [Slots -> Samples \cup {Wiped}]
    BY DEF Init
  <2>4. pc \in [Threads -> Labels] /\ reg \in [Threads -> Registers]
    BY <2>1 DEF Init, Labels
  <2> QED
    BY <2>1, <2>2, <2>3, <2>4 DEF Init, TypeOK, States, Reasons
<1>2. GuardsExact
  BY DEF Init, GuardsExact, ProducerSection, ConsumerSection
<1>3. OccupancyBounded
  BY CapacityAssumption, TicketModAssumption
     DEF Init, OccupancyBounded, Used
<1>4. Windows
  BY DEF Init, Windows, Known, NoReg
<1>5. Boot
  BY DEF Init, Boot
<1> QED
  BY <1>1, <1>2, <1>3, <1>4, <1>5 DEF IInv

(* Every step, and every stuttering step, keeps the invariant.             *)
LEMMA StepIInv == ASSUME IInv, [Next]_vars PROVE IInv'
<1>1. CASE Next
  <2>1. PICK t \in Threads : StepOf(t)
    BY <1>1, NextIsStep
  <2>2. Windows'
    BY <2>1, WindowStep DEF Windows
  <2> QED
    BY <2>1, <2>2, TypeStep, GuardStep, OccupancyStep, BootStep DEF IInv
<1>2. CASE UNCHANGED vars
  BY <1>2 DEF IInv, TypeOK, GuardsExact, OccupancyBounded, Windows, Known,
              Boot, vars, atomics, counters
<1> QED
  BY <1>1, <1>2

(* The invariant of the queue, and with it: every variable keeps its type; *)
(* the guards are exact; and the code's RFQ_INVARIANT stop is unreachable, *)
(* whatever the threads, the capacity and the ticket width.                *)
THEOREM QueueInvariant == Spec => []IInv
<1>1. Init => IInv
  BY InitIInv
<1>2. IInv /\ [Next]_vars => IInv'
  BY StepIInv
<1> QED
  BY <1>1, <1>2, PTL DEF Spec

(* Every variable of the queue keeps its type, the tickets their width and *)
(* next_sample its 64 bits: no push wraps the sample counter.              *)
THEOREM QueueTypeCorrect == Spec => []TypeOK
<1>1. IInv => TypeOK
  BY DEF IInv
<1> QED
  BY <1>1, QueueInvariant, PTL

(* Both guards are exact: each is set exactly while one thread is between  *)
(* its take and its release, on every return path of every call.           *)
THEOREM QueueGuardsExact == Spec => []GuardsExact
<1>1. IInv => GuardsExact
  BY DEF IInv
<1> QED
  BY <1>1, QueueInvariant, PTL

(* The occupancy stays within the capacity across the wrap of the tickets, *)
(* so RFQ_INVARIANT is never latched.                                      *)
THEOREM QueueOccupancyBounded == Spec => []OccupancyBounded
<1>1. IInv => OccupancyBounded
  BY DEF IInv
<1> QED
  BY <1>1, QueueInvariant, PTL

(* The three together: what every access to struct rfq_queue relies on,    *)
(* for any number of producers and workers, any capacity, any ticket width *)
(* that is a multiple of it.                                               *)
THEOREM QueueIsSafe == Spec => []QueueSafe
<1>1. IInv => QueueSafe
  BY DEF IInv, QueueSafe
<1> QED
  BY <1>1, QueueInvariant, PTL

(* After the fence the accepted audio is final, and a latched stop reason  *)
(* is kept until the queue is closed.                                      *)
THEOREM QueueFenceIsFinal == Spec => FenceIsFinal
<1> DEFINE Final ==
      /\ state = "FENCED" => UNCHANGED <<head, accepted, next_sample>>
      /\ reason # "NONE" /\ state # "CLOSED" => reason' = reason
<1>1. ASSUME IInv, Next PROVE Final
  <2>1. PICK t \in Threads : StepOf(t)
    BY <1>1, NextIsStep
  <2>2. Known(t) /\ Boot /\ OccupancyBounded
    BY <1>1 DEF IInv, Windows
  <2> QED
    BY <2>1, <2>2 DEF StepOf, Known, Boot, Goto, Return, Stop, ConsumerTake,
         InitClaim, InitRun, PushCall, PushTake, PushCheck, PushLoad,
         PushWrite, PushPublish, PushStop, ProducerRelease, PopCall, PopTake,
         PopState, PopReason, PopLoad, PopCopy, PopPublish, ConsumerRelease,
         StopCall, StopLatch, ConfirmCall, ConfirmReason, ConfirmTake,
         ConfirmFence, CloseCall, CloseTake, CloseLoad, CloseWipe, CloseTail,
         CloseState, RearmCall, RearmProducer, RearmConsumer, RearmReset,
         RearmRun, RearmRelease, SummaryCall, SummaryTake, SummaryCopy,
         atomics, counters
<1>2. IInv /\ [Next]_vars => [Final]_vars
  BY <1>1
<1> QED
  BY <1>2, QueueInvariant, PTL DEF Spec, FenceIsFinal


-----------------------------------------------------------------------------
(***************************************************************************)
(* The frames themselves: what rfq_pop delivers is the stream rfq_push     *)
(* accepted, for any capacity and any ticket width that is a multiple of   *)
(* it.                                                                     *)
(*                                                                         *)
(* Frame j of a session lies in slot j % Capacity.  The tickets wrap and   *)
(* the counters do not, so the argument is about the counters, and Ring    *)
(* ties a ticket to its counter.  A push counts its frame before it        *)
(* publishes the ticket, a pop likewise: in between the two are one apart  *)
(* (Pushing, Popping), and while a close has wiped and not yet moved the   *)
(* tail they are apart by all that was discarded.                          *)
(***************************************************************************)

At(S) == \E t \in Threads : pc[t] \in S
Pushing == IF At({"push_publish"}) THEN 1 ELSE 0
Popping == IF At({"pop_publish"}) THEN 1 ELSE 0

(* The stream by its counters.                                             *)
Numbered ==
  /\ next_sample = first_sample + accepted
  /\ consumed = Len(delivered)
  /\ \A i \in 1..Len(delivered) : delivered[i] = first_sample + i - 1

(* Every accepted frame is delivered, discarded or between the tickets.    *)
Balanced ==
  /\ IF At({"close_tail"}) THEN accepted = consumed + discarded
     ELSE accepted + Popping = consumed + discarded + Used(head, tail) + Pushing
  /\ discarded # 0 => state = "CLOSED" \/ At({"close_tail", "close_state"})
  /\ Pushing <= accepted /\ Popping <= consumed

(* Until something is discarded the tickets point where the counters say,  *)
(* and every frame not yet delivered is in its slot.                       *)
Ring ==
  discarded = 0 =>
    /\ SlotOf(head) = (accepted - Pushing) % Capacity
    /\ SlotOf(tail) = (consumed - Popping) % Capacity
    /\ \A j \in Nat : consumed <= j /\ j < accepted =>
         slots[j % Capacity] = first_sample + j

(* From the wipe on nothing is left.                                       *)
Emptied ==
  /\ state = "CLOSED" \/ At({"close_tail", "close_state"}) => \A i \in Slots : slots[i] = Wiped
  /\ state = "CLOSED" \/ At({"close_state"}) => head = tail

(* A push that was admitted is the next of the stream; whoever pops does   *)
(* so before the queue is closed; a queue about to run again is empty.     *)
Admitted ==
  \A t \in Threads :
    /\ pc[t] \in {"push_load", "push_write"} => reg[t].arg = next_sample
    /\ pc[t] \in {"pop_reason", "pop_load", "pop_copy", "pop_publish"} =>
         state \in {"RUNNING", "FENCED"}
    /\ pc[t] = "rearm_run" => discarded = 0

(* At most one push is beyond its check when a stop is latched.            *)
Latecomer ==
  /\ reason = "NONE" => late = 0
  /\ late <= 1
  /\ late = 1 => ~At({"push_load", "push_write"})

StreamInv == Numbered /\ Balanced /\ Ring /\ Emptied /\ Admitted /\ Latecomer

(* A summary is only begun behind the fence, and with one worker nobody    *)
(* rearms the queue meanwhile.                                             *)
PushLabels == {"idle", "push_take", "push_check", "push_load", "push_write", "push_publish",
               "push_stop", "producer_release"}
Summaries ==
  /\ \A t \in Producers : pc[t] \in PushLabels
  /\ At({"summary_take", "summary_copy"}) => state \in {"FENCED", "CLOSED"}

-----------------------------------------------------------------------------
(* Arithmetic modulo the capacity, which is not a fixed number.            *)

(* Quotient and remainder.                                                 *)
LEMMA DivMod ==
  ASSUME NEW n \in Nat
  PROVE  /\ n % Capacity \in 0..(Capacity - 1) /\ n \div Capacity \in Nat
         /\ n = Capacity * (n \div Capacity) + (n % Capacity)
BY CapacityAssumption, SMT

(* They are the only ones.                                                 *)
LEMMA Unique ==
  ASSUME NEW q \in Nat, NEW p \in Nat, NEW r \in 0..(Capacity - 1), NEW s \in 0..(Capacity - 1),
         Capacity * q + r = Capacity * p + s
  PROVE  q = p /\ r = s
<1>1. CASE q < p
  <2>1. PICK d \in Nat : p = q + 1 + d
    <3>1. p - q - 1 \in Nat /\ p = q + 1 + (p - q - 1)
      BY <1>1
    <3> QED
      BY <3>1
  <2>2. Capacity * p = Capacity * q + Capacity + Capacity * d
    BY <2>1, CapacityAssumption, SMT
  <2>3. Capacity * d \in Nat /\ Capacity * q \in Nat
    BY CapacityAssumption, SMT
  <2> QED
    BY <2>2, <2>3, CapacityAssumption
<1>2. CASE p < q
  <2>1. PICK d \in Nat : q = p + 1 + d
    <3>1. q - p - 1 \in Nat /\ q = p + 1 + (q - p - 1)
      BY <1>2
    <3> QED
      BY <3>1
  <2>2. Capacity * q = Capacity * p + Capacity + Capacity * d
    BY <2>1, CapacityAssumption, SMT
  <2>3. Capacity * d \in Nat /\ Capacity * p \in Nat
    BY CapacityAssumption, SMT
  <2> QED
    BY <2>2, <2>3, CapacityAssumption
<1>3. CASE p = q
  BY <1>3, CapacityAssumption, SMT
<1> QED
  BY <1>1, <1>2, <1>3

(* The slot after a slot.                                                  *)
LEMMA ModSucc ==
  ASSUME NEW n \in Nat
  PROVE  (n + 1) % Capacity = IF n % Capacity = Capacity - 1 THEN 0 ELSE (n % Capacity) + 1
<1> DEFINE q == n \div Capacity
           r == n % Capacity
           p == (n + 1) \div Capacity
           s == (n + 1) % Capacity
<1>1. q \in Nat /\ r \in 0..(Capacity - 1) /\ n = Capacity * q + r
  BY DivMod
<1>2. p \in Nat /\ s \in 0..(Capacity - 1) /\ n + 1 = Capacity * p + s
  BY DivMod
<1> HIDE DEF q, r, p, s
<1>3. CASE r = Capacity - 1
  <2>1. Capacity * (q + 1) = Capacity * q + Capacity /\ Capacity * q \in Nat /\ Capacity * (q + 1) \in Nat /\ Capacity * p \in Nat
    BY <1>1, <1>2, CapacityAssumption, SMT
  <2>2. Capacity * (q + 1) + 0 = Capacity * p + s /\ 0 \in 0..(Capacity - 1) /\ q + 1 \in Nat
    BY <1>1, <1>2, <1>3, <2>1, CapacityAssumption
  <2>3. s = 0
    BY <1>2, <2>2, Unique
  <2> QED
    BY <1>3, <2>3 DEF r, s
<1>4. CASE r # Capacity - 1
  <2>1. Capacity * q \in Nat /\ Capacity * p \in Nat
    BY <1>1, <1>2, CapacityAssumption, SMT
  <2>2. Capacity * q + (r + 1) = Capacity * p + s /\ r + 1 \in 0..(Capacity - 1)
    BY <1>1, <1>2, <1>4, <2>1, CapacityAssumption
  <2>3. s = r + 1
    BY <1>1, <1>2, <2>2, Unique
  <2> QED
    BY <1>4, <2>3 DEF r, s
<1> QED
  BY <1>3, <1>4

(* Frames less than a capacity apart lie in different slots.               *)
LEMMA ModDist ==
  ASSUME NEW a \in Nat, NEW b \in Nat, a < b, b - a < Capacity
  PROVE  a % Capacity # b % Capacity
<1> DEFINE p == a \div Capacity
           q == b \div Capacity
           r == a % Capacity
<1>1. SUFFICES ASSUME a % Capacity = b % Capacity PROVE FALSE
  OBVIOUS
<1>2. /\ p \in Nat /\ q \in Nat /\ r \in 0..(Capacity - 1)
      /\ a = Capacity * p + r /\ b = Capacity * q + r
  BY <1>1, DivMod
<1> HIDE DEF p, q, r
<1>3. CASE q <= p
  <2>1. Capacity * q <= Capacity * p /\ Capacity * q \in Nat /\ Capacity * p \in Nat
    BY <1>2, <1>3, CapacityAssumption, SMT
  <2> QED
    BY <1>2, <2>1
<1>4. CASE p < q
  <2>1. Capacity * (p + 1) <= Capacity * q
    BY <1>2, <1>4, CapacityAssumption, SMT
  <2>2. Capacity * (p + 1) = Capacity * p + Capacity /\ Capacity * q \in Nat /\ Capacity * p \in Nat
    BY <1>2, CapacityAssumption, SMT
  <2> QED
    BY <1>2, <2>1, <2>2, CapacityAssumption
<1> QED
  BY <1>2, <1>3, <1>4

(* The slot of the next ticket is the next slot, also where tickets wrap.  *)
LEMMA NextSlot ==
  ASSUME NEW k \in Tickets, NEW n \in Nat, SlotOf(k) = n % Capacity
  PROVE  SlotOf(NextTicket(k)) = (n + 1) % Capacity
<1>1. k \in Nat /\ TicketMod \in Nat /\ TicketMod > 0 /\ Capacity \in Nat \ {0}
  BY CapacityAssumption, TicketModAssumption DEF Tickets
<1>2. (k + 1) % Capacity = (n + 1) % Capacity
  BY <1>1, ModSucc DEF SlotOf
<1>3. CASE k = TicketMod - 1
  <2>1. k + 1 = TicketMod /\ NextTicket(k) = 0
    BY <1>1, <1>3 DEF NextTicket
  <2>2. TicketMod % Capacity = 0
    BY TicketModAssumption
  <2>3. 0 % Capacity = 0
    <3>1. 0 % Capacity \in 0..(Capacity - 1) /\ 0 \div Capacity \in Nat
          /\ 0 = Capacity * (0 \div Capacity) + (0 % Capacity)
      BY DivMod
    <3>2. Capacity * (0 \div Capacity) \in Nat
      BY <1>1, <3>1, SMT
    <3> QED
      BY <3>1, <3>2, <1>1
  <2> QED
    BY <1>2, <2>1, <2>2, <2>3 DEF SlotOf
<1>4. CASE k # TicketMod - 1
  BY <1>2, <1>4 DEF NextTicket, SlotOf
<1> QED
  BY <1>3, <1>4


-----------------------------------------------------------------------------
(* Who holds a guard is the only one in its section, so the label of that  *)
(* thread says which labels of the section are occupied.                   *)
LEMMA Alone ==
  ASSUME IInv, NEW t \in Threads
  PROVE  /\ pc[t] \in ProducerSection =>
              \A S \in SUBSET ProducerSection : At(S) <=> pc[t] \in S
         /\ pc[t] \in ConsumerSection =>
              \A S \in SUBSET ConsumerSection : At(S) <=> pc[t] \in S
BY DEF IInv, GuardsExact, At

(* The same after a step.                                                  *)
LEMMA AloneNext ==
  ASSUME IInv', NEW t \in Threads
  PROVE  /\ pc'[t] \in ProducerSection =>
              \A S \in SUBSET ProducerSection : At(S)' <=> pc'[t] \in S
         /\ pc'[t] \in ConsumerSection =>
              \A S \in SUBSET ConsumerSection : At(S)' <=> pc'[t] \in S
BY DEF IInv, GuardsExact, At

(* A thread that moves between labels outside S does not change At(S).     *)
LEMMA AtMoves ==
  ASSUME TypeOK, NEW t \in Threads, NEW l \in Labels, pc' = [pc EXCEPT ![t] = l],
         NEW CONSTANT S, pc[t] \notin S, l \notin S
  PROVE  At(S)' <=> At(S)
<1>1. pc \in [Threads -> Labels]
  BY DEF TypeOK
<1>2. \A u \in Threads : pc'[u] = IF u = t THEN l ELSE pc[u]
  BY <1>1
<1> QED
  BY <1>2 DEF At

(* The types the arithmetic needs.                                         *)
LEMMA Numbers ==
  ASSUME IInv
  PROVE  /\ accepted \in Nat /\ consumed \in Nat /\ discarded \in Nat
         /\ head \in Tickets /\ tail \in Tickets
         /\ Used(head, tail) \in Nat /\ Used(head, tail) <= Capacity
         /\ Capacity \in Nat \ {0} /\ MaxSample \in Nat
         /\ first_sample \in Nat /\ next_sample \in Nat
         /\ Pushing \in {0, 1} /\ Popping \in {0, 1}
         /\ pc \in [Threads -> Labels] /\ reg \in [Threads -> Registers]
<1>1. TypeOK /\ OccupancyBounded
  BY DEF IInv
<1>2. Used(head, tail) \in Nat
  BY <1>1, TicketArithmetic DEF TypeOK
<1> QED
  BY <1>1, <1>2, CapacityAssumption, SampleAssumption
     DEF TypeOK, OccupancyBounded, Samples, Pushing, Popping

(* While the queue runs, or somebody pops, nothing has been discarded.     *)
LEMMA NothingDiscarded ==
  ASSUME IInv, StreamInv, NEW t \in Threads,
         \/ state = "RUNNING"
         \/ pc[t] \in {"pop_copy", "pop_publish", "close_wipe"}
  PROVE  /\ ~At({"close_tail"}) /\ ~At({"close_state"}) /\ ~At({"close_tail", "close_state"})
         /\ discarded = 0 /\ state \in {"RUNNING", "FENCED"}
<1>1. state \in {"RUNNING", "FENCED"}
  BY DEF IInv, Windows, Known, StreamInv, Admitted
<1>2. CASE state = "RUNNING"
  BY <1>2 DEF IInv, Windows, Known, StreamInv, Balanced, At
<1>3. CASE pc[t] \in {"pop_copy", "pop_publish", "close_wipe"}
  <2>1. pc[t] \in ConsumerSection
    BY <1>3 DEF ConsumerSection
  <2>2. /\ {"close_tail"} \in SUBSET ConsumerSection /\ {"close_state"} \in SUBSET ConsumerSection
        /\ {"close_tail", "close_state"} \in SUBSET ConsumerSection
    BY DEF ConsumerSection
  <2>3. ~At({"close_tail"}) /\ ~At({"close_state"}) /\ ~At({"close_tail", "close_state"})
    BY <1>3, <2>1, <2>2, Alone
  <2> QED
    BY <1>1, <2>3 DEF StreamInv, Balanced
<1> QED
  BY <1>2, <1>3

(* No push is under way unless the queue runs.                             *)
LEMMA NoPush ==
  ASSUME IInv, state # "RUNNING"
  PROVE  Pushing = 0 /\ ~At({"push_publish"})
BY DEF IInv, Windows, Known, Pushing, At

(* A step that moves neither a ticket, a counter nor a frame, and enters   *)
(* or leaves none of the labels the invariant mentions, keeps it, provided *)
(* it does not undo or fake a close.                                       *)
Marks == {"push_publish", "pop_publish", "close_tail", "close_state"}
Calm(t) ==
  /\ pc[t] \notin Marks
  /\ \E l \in Labels \ Marks : pc' = [pc EXCEPT ![t] = l]
  /\ UNCHANGED <<head, tail, counters, slots, delivered>>
  /\ state' = "CLOSED" => state = "CLOSED"
  /\ state = "CLOSED" => state' = "CLOSED" \/ discarded = 0

Data == Numbered /\ Balanced /\ Ring /\ Emptied

(* Nothing the four conjuncts mention moves in a calm step.                *)
LEMMA CalmKeeps ==
  ASSUME IInv, Data, NEW t \in Threads, Calm(t)
  PROVE  Data'
<1>1. PICK l \in Labels \ Marks : pc' = [pc EXCEPT ![t] = l]
  BY DEF Calm
<1>2. /\ At({"push_publish"})' <=> At({"push_publish"})
      /\ At({"pop_publish"})' <=> At({"pop_publish"})
  BY <1>1, AtMoves DEF IInv, Calm, Marks
<1>3. /\ At({"close_tail"})' <=> At({"close_tail"})
      /\ At({"close_state"})' <=> At({"close_state"})
      /\ At({"close_tail", "close_state"})' <=> At({"close_tail", "close_state"})
  BY <1>1, AtMoves DEF IInv, Calm, Marks
<1>4. Pushing' = Pushing /\ Popping' = Popping
  BY <1>2 DEF Pushing, Popping
<1>5. /\ head' = head /\ tail' = tail /\ slots' = slots /\ delivered' = delivered
      /\ first_sample' = first_sample /\ next_sample' = next_sample
      /\ accepted' = accepted /\ consumed' = consumed /\ discarded' = discarded
      /\ state' = "CLOSED" => state = "CLOSED"
      /\ state = "CLOSED" => state' = "CLOSED" \/ discarded = 0
  BY DEF Calm, counters
<1>6. Numbered'
  BY <1>5 DEF Data, Numbered
<1>7. Balanced'
  BY <1>3, <1>4, <1>5 DEF Data, Balanced
<1>8. Ring'
  BY <1>4, <1>5 DEF Data, Ring
<1>9. Emptied'
  BY <1>3, <1>5 DEF Data, Emptied
<1> QED
  BY <1>6, <1>7, <1>8, <1>9 DEF Data

-----------------------------------------------------------------------------
(* The steps that move the stream.                                         *)

(* rfq_push writes the next frame into a slot that holds no undelivered    *)
(* one.                                                                    *)
LEMMA PushWriteKeeps ==
  ASSUME IInv, IInv', StreamInv, NEW t \in Threads, PushWrite(t)
  PROVE  Data'
<1>1. /\ pc[t] = "push_write" /\ pc' = [pc EXCEPT ![t] = "push_publish"]
      /\ slots' = [slots EXCEPT ![SlotOf(reg[t].head)] = reg[t].arg]
      /\ next_sample' = reg[t].arg + 1 /\ accepted' = accepted + 1
      /\ head' = head /\ tail' = tail /\ state' = state /\ delivered' = delivered
      /\ first_sample' = first_sample /\ consumed' = consumed /\ discarded' = discarded
  BY DEF PushWrite, Goto, atomics
<1>2. state = "RUNNING" /\ reg[t].head = head /\ Used(head, tail) < Capacity
  BY <1>1 DEF IInv, Windows, Known
<1>3. reg[t].arg = next_sample
  BY <1>1 DEF StreamInv, Admitted
<1>4. /\ accepted \in Nat /\ consumed \in Nat /\ head \in Tickets /\ Capacity \in Nat \ {0}
      /\ Used(head, tail) \in Nat /\ first_sample \in Nat /\ Popping \in {0, 1}
      /\ slots \in [Slots -> Samples \cup {Wiped}]
  BY Numbers DEF IInv, TypeOK
<1>5. /\ ~At({"close_tail"}) /\ ~At({"close_tail", "close_state"}) /\ ~At({"close_state"})
      /\ discarded = 0
  BY <1>2, NothingDiscarded
<1>6. Pushing = 0 /\ Pushing' = 1
  <2>1. pc[t] \in ProducerSection /\ {"push_publish"} \in SUBSET ProducerSection
    BY <1>1 DEF ProducerSection
  <2>2. ~At({"push_publish"})
    BY <1>1, <2>1, Alone
  <2>3. pc'[t] = "push_publish"
    BY <1>1, Numbers
  <2> QED
    BY <2>2, <2>3 DEF Pushing, At
<1>7. /\ Popping' = Popping
      /\ ~At({"close_tail"})' /\ ~At({"close_tail", "close_state"})' /\ ~At({"close_state"})'
  <2>1. "push_publish" \in Labels
    BY DEF Labels
  <2>2. At({"pop_publish"})' <=> At({"pop_publish"})
    BY <1>1, <2>1, AtMoves DEF IInv
  <2>3. /\ At({"close_tail"})' <=> At({"close_tail"})
        /\ At({"close_state"})' <=> At({"close_state"})
        /\ At({"close_tail", "close_state"})' <=> At({"close_tail", "close_state"})
    BY <1>1, <2>1, AtMoves DEF IInv
  <2> QED
    BY <1>5, <2>2, <2>3 DEF Popping
<1>8. Numbered'
  BY <1>1, <1>3, <1>4 DEF StreamInv, Numbered
<1>9. accepted + Popping = consumed + Used(head, tail)
  BY <1>4, <1>5, <1>6 DEF StreamInv, Balanced
<1>10. Balanced'
  <2>1. Popping <= consumed
    BY DEF StreamInv, Balanced
  <2> QED
    BY <1>1, <1>4, <1>5, <1>6, <1>7, <1>9, <2>1 DEF Balanced
<1>11. SlotOf(head) = accepted % Capacity /\ SlotOf(head) \in Slots
       /\ SlotOf(tail) = (consumed - Popping) % Capacity
  BY <1>4, <1>5, <1>6, SlotOfTicket DEF StreamInv, Ring
<1>12. ASSUME NEW j \in Nat, consumed <= j, j < accepted + 1
       PROVE  slots'[j % Capacity] = first_sample + j
  <2>0. j % Capacity \in Slots
    BY DivMod DEF Slots
  <2>1. CASE j = accepted
    BY <1>1, <1>2, <1>3, <1>4, <1>11, <2>1 DEF StreamInv, Numbered
  <2>2. CASE j < accepted
    <3>1. accepted - j < Capacity
      BY <1>2, <1>4, <1>9, <1>12
    <3>2. j % Capacity # accepted % Capacity
      BY <1>4, <2>2, <3>1, ModDist
    <3>3. slots[j % Capacity] = first_sample + j
      BY <1>5, <1>12, <2>2 DEF StreamInv, Ring
    <3> QED
      BY <1>1, <1>2, <1>4, <1>11, <2>0, <3>2, <3>3
  <2> QED
    BY <1>4, <1>12, <2>1, <2>2
<1>13. Ring'
  <2>1. (accepted + 1) - 1 = accepted
    BY <1>4
  <2> QED
    BY <1>1, <1>6, <1>7, <1>11, <1>12, <2>1 DEF Ring
<1>14. Emptied'
  BY <1>1, <1>2, <1>7 DEF Emptied
<1> QED
  BY <1>8, <1>10, <1>13, <1>14 DEF Data

(* Publishing the frame moves the head to the slot after it.               *)
LEMMA PushPublishKeeps ==
  ASSUME IInv, IInv', StreamInv, NEW t \in Threads, PushPublish(t)
  PROVE  Data'
<1>1. /\ pc[t] = "push_publish" /\ pc' = [pc EXCEPT ![t] = "producer_release"]
      /\ head' = NextTicket(reg[t].head) /\ next_sample' = next_sample /\ accepted' = accepted
      /\ tail' = tail /\ state' = state /\ delivered' = delivered /\ slots' = slots
      /\ first_sample' = first_sample /\ consumed' = consumed /\ discarded' = discarded
  BY DEF PushPublish, Goto, counters
<1>2. state = "RUNNING" /\ reg[t].head = head /\ Used(head, tail) < Capacity
  BY <1>1 DEF IInv, Windows, Known
<1>4. /\ accepted \in Nat /\ consumed \in Nat /\ head \in Tickets /\ tail \in Tickets
      /\ Capacity \in Nat \ {0}
      /\ Used(head, tail) \in Nat /\ Popping \in {0, 1}
  BY Numbers
<1>5. /\ ~At({"close_tail"}) /\ ~At({"close_tail", "close_state"}) /\ ~At({"close_state"})
      /\ discarded = 0
  BY <1>2, NothingDiscarded
<1>6. Pushing = 1 /\ Pushing' = 0
  <2>1. pc'[t] = "producer_release"
    BY <1>1, Numbers
  <2>2. pc'[t] \in ProducerSection /\ {"push_publish"} \in SUBSET ProducerSection
    BY <2>1 DEF ProducerSection
  <2>3. ~At({"push_publish"})'
    BY <2>1, <2>2, AloneNext
  <2> QED
    BY <1>1, <2>1, <2>3 DEF Pushing, At
<1>7. /\ Popping' = Popping
      /\ ~At({"close_tail"})' /\ ~At({"close_tail", "close_state"})' /\ ~At({"close_state"})'
  <2>1. "producer_release" \in Labels
    BY DEF Labels
  <2>2. At({"pop_publish"})' <=> At({"pop_publish"})
    BY <1>1, <2>1, AtMoves DEF IInv
  <2>3. /\ At({"close_tail"})' <=> At({"close_tail"})
        /\ At({"close_state"})' <=> At({"close_state"})
        /\ At({"close_tail", "close_state"})' <=> At({"close_tail", "close_state"})
    BY <1>1, <2>1, AtMoves DEF IInv
  <2> QED
    BY <1>5, <2>2, <2>3 DEF Popping
<1>8. Numbered'
  BY <1>1 DEF StreamInv, Numbered
<1>9. accepted + Popping = consumed + Used(head, tail) + 1 /\ 1 <= accepted /\ Popping <= consumed
  BY <1>4, <1>5, <1>6 DEF StreamInv, Balanced
<1>10. Used(head', tail') = Used(head, tail) + 1
  BY <1>1, <1>2, <1>4, TicketArithmetic
<1>11. Balanced'
  BY <1>1, <1>4, <1>5, <1>6, <1>7, <1>9, <1>10 DEF Balanced
<1>12. SlotOf(head') = accepted % Capacity
  <2>1. SlotOf(head) = (accepted - 1) % Capacity /\ accepted - 1 \in Nat
    BY <1>4, <1>5, <1>6, <1>9 DEF StreamInv, Ring
  <2>2. SlotOf(NextTicket(head)) = ((accepted - 1) + 1) % Capacity
    BY <1>4, <2>1, NextSlot
  <2> QED
    BY <1>1, <1>2, <1>4, <2>2
<1>13. Ring'
  <2>1. accepted - 0 = accepted
    BY <1>4
  <2> QED
    BY <1>1, <1>5, <1>6, <1>7, <1>12, <2>1 DEF StreamInv, Ring
<1>14. Emptied'
  BY <1>1, <1>2, <1>7 DEF Emptied
<1> QED
  BY <1>8, <1>11, <1>13, <1>14 DEF Data

(* rfq_pop takes the oldest frame of the stream, and wipes only its slot.  *)
LEMMA PopCopyKeeps ==
  ASSUME IInv, IInv', StreamInv, NEW t \in Threads, PopCopy(t)
  PROVE  Data'
<1>1. /\ pc[t] = "pop_copy" /\ pc' = [pc EXCEPT ![t] = "pop_publish"]
      /\ delivered' = Append(delivered, slots[SlotOf(reg[t].tail)])
      /\ slots' = [slots EXCEPT ![SlotOf(reg[t].tail)] = Wiped]
      /\ consumed' = consumed + 1
      /\ head' = head /\ tail' = tail /\ state' = state /\ next_sample' = next_sample
      /\ first_sample' = first_sample /\ accepted' = accepted /\ discarded' = discarded
  BY DEF PopCopy, Goto, atomics
<1>2. reg[t].tail = tail /\ Used(head, tail) > 0
  BY <1>1 DEF IInv, Windows, Known
<1>4. /\ accepted \in Nat /\ consumed \in Nat /\ tail \in Tickets /\ Capacity \in Nat \ {0}
      /\ Used(head, tail) \in Nat /\ first_sample \in Nat /\ Pushing \in {0, 1}
      /\ Used(head, tail) <= Capacity
      /\ slots \in [Slots -> Samples \cup {Wiped}] /\ delivered \in Seq(Samples \cup {Wiped})
  BY Numbers DEF IInv, TypeOK
<1>5. /\ ~At({"close_tail"}) /\ ~At({"close_tail", "close_state"}) /\ ~At({"close_state"})
      /\ discarded = 0 /\ state \in {"RUNNING", "FENCED"}
  BY <1>1, NothingDiscarded
<1>6. Popping = 0 /\ Popping' = 1
  <2>1. pc[t] \in ConsumerSection /\ {"pop_publish"} \in SUBSET ConsumerSection
    BY <1>1 DEF ConsumerSection
  <2>2. ~At({"pop_publish"})
    BY <1>1, <2>1, Alone
  <2>3. pc'[t] = "pop_publish"
    BY <1>1, Numbers
  <2> QED
    BY <2>2, <2>3 DEF Popping, At
<1>7. /\ Pushing' = Pushing
      /\ ~At({"close_tail"})' /\ ~At({"close_tail", "close_state"})' /\ ~At({"close_state"})'
  <2>1. "pop_publish" \in Labels
    BY DEF Labels
  <2>2. At({"push_publish"})' <=> At({"push_publish"})
    BY <1>1, <2>1, AtMoves DEF IInv
  <2>3. /\ At({"close_tail"})' <=> At({"close_tail"})
        /\ At({"close_state"})' <=> At({"close_state"})
        /\ At({"close_tail", "close_state"})' <=> At({"close_tail", "close_state"})
    BY <1>1, <2>1, AtMoves DEF IInv
  <2> QED
    BY <1>5, <2>2, <2>3 DEF Pushing
<1>8. Pushing = 1 => Used(head, tail) < Capacity
  BY DEF Pushing, At, IInv, Windows, Known
<1>9. accepted = consumed + Used(head, tail) + Pushing /\ Pushing <= accepted
  BY <1>4, <1>5, <1>6 DEF StreamInv, Balanced
<1>10. Balanced'
  BY <1>1, <1>4, <1>5, <1>6, <1>7, <1>9 DEF Balanced
<1>11. SlotOf(tail) = consumed % Capacity /\ SlotOf(tail) \in Slots
       /\ SlotOf(head) = (accepted - Pushing) % Capacity
  BY <1>4, <1>5, <1>6, SlotOfTicket DEF StreamInv, Ring
<1>12. slots[SlotOf(tail)] = first_sample + consumed
  <2>1. consumed < accepted
    BY <1>2, <1>4, <1>9
  <2> QED
    BY <1>4, <1>5, <1>11, <2>1 DEF StreamInv, Ring
<1>13. Numbered'
  <2>1. /\ consumed = Len(delivered) /\ next_sample = first_sample + accepted
        /\ \A i \in 1..Len(delivered) : delivered[i] = first_sample + i - 1
    BY DEF StreamInv, Numbered
  <2>2. Len(delivered') = consumed + 1
    BY <1>1, <1>4, <2>1
  <2>3. ASSUME NEW i \in 1..(consumed + 1) PROVE delivered'[i] = first_sample + i - 1
    <3>1. CASE i = consumed + 1
      BY <1>1, <1>2, <1>4, <1>12, <2>1, <3>1
    <3>2. CASE i <= consumed
      BY <1>1, <1>4, <2>1, <3>2
    <3> QED
      BY <1>4, <3>1, <3>2
  <2> QED
    BY <1>1, <2>1, <2>2, <2>3 DEF Numbered
<1>14. ASSUME NEW j \in Nat, consumed + 1 <= j, j < accepted
       PROVE  slots'[j % Capacity] = first_sample + j
  <2>0. j % Capacity \in Slots
    BY DivMod DEF Slots
  <2>1. j - consumed < Capacity /\ consumed < j
    BY <1>4, <1>8, <1>9, <1>14
  <2>2. j % Capacity # consumed % Capacity
    BY <1>4, <2>1, ModDist
  <2>3. slots[j % Capacity] = first_sample + j
    <3>1. consumed <= j
      BY <1>4, <1>14
    <3> QED
      BY <1>5, <1>14, <3>1 DEF StreamInv, Ring
  <2> QED
    BY <1>1, <1>2, <1>4, <1>11, <2>0, <2>2, <2>3
<1>15. Ring'
  <2>1. (consumed + 1) - 1 = consumed
    BY <1>4
  <2> QED
    BY <1>1, <1>6, <1>7, <1>11, <1>14, <2>1 DEF Ring
<1>16. Emptied'
  BY <1>1, <1>5, <1>7 DEF Emptied
<1> QED
  BY <1>10, <1>13, <1>15, <1>16 DEF Data

(* Publishing the pop moves the tail to the slot after it.                 *)
LEMMA PopPublishKeeps ==
  ASSUME IInv, IInv', StreamInv, NEW t \in Threads, PopPublish(t)
  PROVE  Data'
<1>1. /\ pc[t] = "pop_publish" /\ pc' = [pc EXCEPT ![t] = "consumer_release"]
      /\ tail' = NextTicket(reg[t].tail) /\ next_sample' = next_sample /\ accepted' = accepted
      /\ head' = head /\ state' = state /\ delivered' = delivered /\ slots' = slots
      /\ first_sample' = first_sample /\ consumed' = consumed /\ discarded' = discarded
  BY DEF PopPublish, Goto, counters
<1>2. reg[t].tail = tail /\ Used(head, tail) > 0
  BY <1>1 DEF IInv, Windows, Known
<1>4. /\ accepted \in Nat /\ consumed \in Nat /\ head \in Tickets /\ tail \in Tickets
      /\ Capacity \in Nat \ {0}
      /\ Used(head, tail) \in Nat /\ Pushing \in {0, 1}
  BY Numbers
<1>5. /\ ~At({"close_tail"}) /\ ~At({"close_tail", "close_state"}) /\ ~At({"close_state"})
      /\ discarded = 0 /\ state \in {"RUNNING", "FENCED"}
  BY <1>1, NothingDiscarded
<1>6. Popping = 1 /\ Popping' = 0
  <2>1. pc'[t] = "consumer_release"
    BY <1>1, Numbers
  <2>2. pc'[t] \in ConsumerSection /\ {"pop_publish"} \in SUBSET ConsumerSection
    BY <2>1 DEF ConsumerSection
  <2>3. ~At({"pop_publish"})'
    BY <2>1, <2>2, AloneNext
  <2> QED
    BY <1>1, <2>3 DEF Popping, At
<1>7. /\ Pushing' = Pushing
      /\ ~At({"close_tail"})' /\ ~At({"close_tail", "close_state"})' /\ ~At({"close_state"})'
  <2>1. "consumer_release" \in Labels
    BY DEF Labels
  <2>2. At({"push_publish"})' <=> At({"push_publish"})
    BY <1>1, <2>1, AtMoves DEF IInv
  <2>3. /\ At({"close_tail"})' <=> At({"close_tail"})
        /\ At({"close_state"})' <=> At({"close_state"})
        /\ At({"close_tail", "close_state"})' <=> At({"close_tail", "close_state"})
    BY <1>1, <2>1, AtMoves DEF IInv
  <2> QED
    BY <1>5, <2>2, <2>3 DEF Pushing
<1>8. Numbered'
  BY <1>1 DEF StreamInv, Numbered
<1>9. accepted + 1 = consumed + Used(head, tail) + Pushing /\ 1 <= consumed /\ Pushing <= accepted
  BY <1>4, <1>5, <1>6 DEF StreamInv, Balanced
<1>10. Used(head', tail') = Used(head, tail) - 1
  BY <1>1, <1>2, <1>4, TicketArithmetic
<1>11. Balanced'
  BY <1>1, <1>4, <1>5, <1>6, <1>7, <1>9, <1>10 DEF Balanced
<1>12. SlotOf(tail') = consumed % Capacity
  <2>1. SlotOf(tail) = (consumed - 1) % Capacity /\ consumed - 1 \in Nat
    BY <1>4, <1>5, <1>6, <1>9 DEF StreamInv, Ring
  <2>2. SlotOf(NextTicket(tail)) = ((consumed - 1) + 1) % Capacity
    BY <1>4, <2>1, NextSlot
  <2> QED
    BY <1>1, <1>2, <1>4, <2>2
<1>13. Ring'
  <2>1. consumed - 0 = consumed
    BY <1>4
  <2> QED
    BY <1>1, <1>5, <1>6, <1>7, <1>12, <2>1 DEF StreamInv, Ring
<1>14. Emptied'
  BY <1>1, <1>5, <1>7 DEF Emptied
<1> QED
  BY <1>8, <1>11, <1>13, <1>14 DEF Data

(* The wipe of close_queue counts what lies between the tickets.           *)
LEMMA CloseWipeKeeps ==
  ASSUME IInv, IInv', StreamInv, NEW t \in Threads, CloseWipe(t)
  PROVE  Data'
<1>1. /\ pc[t] = "close_wipe" /\ pc' = [pc EXCEPT ![t] = "close_tail"]
      /\ slots' = [i \in Slots |-> Wiped]
      /\ discarded' = discarded + Used(reg[t].head, reg[t].tail)
      /\ head' = head /\ tail' = tail /\ state' = state /\ next_sample' = next_sample
      /\ first_sample' = first_sample /\ accepted' = accepted /\ consumed' = consumed
      /\ delivered' = delivered
  BY DEF CloseWipe, Goto, atomics
<1>2. reg[t].head = head /\ reg[t].tail = tail /\ state = "FENCED"
  BY <1>1 DEF IInv, Windows, Known
<1>3. /\ accepted \in Nat /\ consumed \in Nat /\ Used(head, tail) \in Nat
  BY Numbers
<1>4. discarded = 0 /\ ~At({"close_tail"})
  BY <1>1, NothingDiscarded
<1>5. pc'[t] = "close_tail"
  BY <1>1, Numbers
<1>6. Pushing = 0 /\ Pushing' = 0
  BY <1>1, <1>2, NoPush, Numbers DEF IInv, Windows, Known, Pushing, At
<1>7. Popping = 0 /\ Popping' = 0 /\ At({"close_tail"})' /\ ~At({"close_state"})'
      /\ At({"close_tail", "close_state"})'
  <2>1. /\ pc[t] \in ConsumerSection /\ pc'[t] \in ConsumerSection
        /\ {"pop_publish"} \in SUBSET ConsumerSection /\ {"close_tail"} \in SUBSET ConsumerSection
        /\ {"close_state"} \in SUBSET ConsumerSection
        /\ {"close_tail", "close_state"} \in SUBSET ConsumerSection
    BY <1>1, <1>5 DEF ConsumerSection
  <2>2. ~At({"pop_publish"})
    BY <1>1, <2>1, Alone
  <2>3. /\ ~At({"pop_publish"})' /\ At({"close_tail"})' /\ ~At({"close_state"})'
        /\ At({"close_tail", "close_state"})'
    BY <1>5, <2>1, AloneNext
  <2> QED
    BY <2>2, <2>3 DEF Popping
<1>8. Numbered'
  BY <1>1 DEF StreamInv, Numbered
<1>9. accepted = consumed + Used(head, tail)
  BY <1>3, <1>4, <1>6, <1>7 DEF StreamInv, Balanced
<1>10. Balanced'
  BY <1>1, <1>2, <1>3, <1>4, <1>6, <1>7, <1>9 DEF Balanced
<1>11. Ring'
  <2>1. discarded' = 0 => accepted = consumed
    BY <1>1, <1>2, <1>3, <1>4, <1>9
  <2>2. /\ SlotOf(head') = (accepted - Pushing)' % Capacity
        /\ SlotOf(tail') = (consumed - Popping)' % Capacity
    BY <1>1, <1>4, <1>6, <1>7 DEF StreamInv, Ring
  <2> QED
    BY <1>1, <1>3, <2>1, <2>2 DEF Ring
<1>12. Emptied'
  BY <1>1, <1>2, <1>7 DEF Emptied
<1> QED
  BY <1>8, <1>10, <1>11, <1>12 DEF Data

(* The tail catches up with the head: nothing is left between them.        *)
LEMMA CloseTailKeeps ==
  ASSUME IInv, IInv', StreamInv, NEW t \in Threads, CloseTail(t)
  PROVE  Data'
<1>1. /\ pc[t] = "close_tail" /\ pc' = [pc EXCEPT ![t] = "close_state"]
      /\ tail' = reg[t].head /\ slots' = slots
      /\ head' = head /\ state' = state /\ next_sample' = next_sample
      /\ first_sample' = first_sample /\ accepted' = accepted /\ consumed' = consumed
      /\ discarded' = discarded /\ delivered' = delivered
  BY DEF CloseTail, Goto, counters
<1>2. reg[t].head = head /\ state = "FENCED"
  BY <1>1 DEF IInv, Windows, Known
<1>3. /\ accepted \in Nat /\ consumed \in Nat /\ discarded \in Nat /\ Used(head, head) = 0
  BY Numbers, TicketArithmetic
<1>5. pc'[t] = "close_state"
  BY <1>1, Numbers
<1>6. Pushing = 0 /\ Pushing' = 0
  BY <1>1, <1>2, NoPush, Numbers DEF IInv, Windows, Known, Pushing, At
<1>7. Popping = 0 /\ Popping' = 0 /\ ~At({"close_tail"})' /\ At({"close_state"})'
      /\ At({"close_tail", "close_state"})' /\ At({"close_tail"})
      /\ At({"close_tail", "close_state"})
  <2>1. /\ pc[t] \in ConsumerSection /\ pc'[t] \in ConsumerSection
        /\ {"pop_publish"} \in SUBSET ConsumerSection /\ {"close_tail"} \in SUBSET ConsumerSection
        /\ {"close_state"} \in SUBSET ConsumerSection
        /\ {"close_tail", "close_state"} \in SUBSET ConsumerSection
    BY <1>1, <1>5 DEF ConsumerSection
  <2>2. ~At({"pop_publish"}) /\ At({"close_tail"}) /\ At({"close_tail", "close_state"})
    BY <1>1, <2>1, Alone
  <2>3. /\ ~At({"pop_publish"})' /\ ~At({"close_tail"})' /\ At({"close_state"})'
        /\ At({"close_tail", "close_state"})'
    BY <1>5, <2>1, AloneNext
  <2> QED
    BY <2>2, <2>3 DEF Popping
<1>8. Numbered'
  BY <1>1 DEF StreamInv, Numbered
<1>9. accepted = consumed + discarded
  BY <1>7 DEF StreamInv, Balanced
<1>10. Balanced'
  BY <1>1, <1>2, <1>3, <1>6, <1>7, <1>9 DEF Balanced
<1>11. Ring'
  <2>1. discarded = 0 => accepted = consumed
    BY <1>3, <1>9
  <2>2. accepted - 0 = accepted /\ consumed - 0 = consumed
    BY <1>3
  <2>3. discarded = 0 => SlotOf(head) = accepted % Capacity
    BY <1>6, <2>2 DEF StreamInv, Ring
  <2> QED
    BY <1>1, <1>2, <1>3, <1>6, <1>7, <2>1, <2>2, <2>3 DEF Ring
<1>12. Emptied'
  BY <1>1, <1>2, <1>7 DEF StreamInv, Emptied
<1> QED
  BY <1>8, <1>10, <1>11, <1>12 DEF Data

(* The queue is marked closed only once it is empty and wiped.             *)
LEMMA CloseStateKeeps ==
  ASSUME IInv, IInv', StreamInv, NEW t \in Threads, CloseState(t)
  PROVE  Data'
<1>1. /\ pc[t] = "close_state" /\ pc' = [pc EXCEPT ![t] = "consumer_release"]
      /\ tail' = tail /\ slots' = slots /\ state' = "CLOSED"
      /\ head' = head /\ next_sample' = next_sample
      /\ first_sample' = first_sample /\ accepted' = accepted /\ consumed' = consumed
      /\ discarded' = discarded /\ delivered' = delivered
  BY DEF CloseState, Goto, counters
<1>2. state = "FENCED"
  BY <1>1 DEF IInv, Windows, Known
<1>5. pc'[t] = "consumer_release"
  BY <1>1, Numbers
<1>6. Pushing = 0 /\ Pushing' = 0
  BY <1>1, <1>2, NoPush, Numbers DEF IInv, Windows, Known, Pushing, At
<1>7. Popping = 0 /\ Popping' = 0 /\ ~At({"close_tail"})' /\ ~At({"close_tail"})
      /\ At({"close_state"}) /\ At({"close_tail", "close_state"})
  <2>1. /\ pc[t] \in ConsumerSection /\ pc'[t] \in ConsumerSection
        /\ {"pop_publish"} \in SUBSET ConsumerSection /\ {"close_tail"} \in SUBSET ConsumerSection
        /\ {"close_state"} \in SUBSET ConsumerSection
        /\ {"close_tail", "close_state"} \in SUBSET ConsumerSection
    BY <1>1, <1>5 DEF ConsumerSection
  <2>2. /\ ~At({"pop_publish"}) /\ ~At({"close_tail"}) /\ At({"close_state"})
        /\ At({"close_tail", "close_state"})
    BY <1>1, <2>1, Alone
  <2>3. ~At({"pop_publish"})' /\ ~At({"close_tail"})'
    BY <1>5, <2>1, AloneNext
  <2> QED
    BY <2>2, <2>3 DEF Popping
<1>8. Numbered'
  BY <1>1 DEF StreamInv, Numbered
<1>10. Balanced'
  BY <1>1, <1>6, <1>7 DEF StreamInv, Balanced
<1>11. Ring'
  BY <1>1, <1>6, <1>7 DEF StreamInv, Ring
<1>12. Emptied'
  BY <1>1, <1>7 DEF StreamInv, Emptied
<1> QED
  BY <1>8, <1>10, <1>11, <1>12 DEF Data

(* A queue whose counters are reset and whose slots are wiped is a stream  *)
(* of no frames: what rfq_init and rfq_rearm_closed leave behind.          *)
LEMMA FreshStream ==
  ASSUME NEW first \in Samples,
         head' = 0, tail' = 0, accepted' = 0, consumed' = 0, discarded' = 0,
         first_sample' = first, next_sample' = first, delivered' = << >>,
         \A i \in Slots : slots'[i] = Wiped,
         \A u \in Threads : pc'[u] \notin Marks
  PROVE  Data'
<1>1. /\ ~At({"close_tail"})' /\ ~At({"close_state"})' /\ ~At({"close_tail", "close_state"})'
      /\ Pushing' = 0 /\ Popping' = 0
  BY DEF At, Marks, Pushing, Popping
<1>2. first + 0 = first /\ Used(0, 0) = 0 /\ 0 - 0 = 0
  BY SampleAssumption DEF Samples, Used
<1>3. Numbered'
  <2>1. Len(delivered') = 0 /\ 1..0 = {}
    OBVIOUS
  <2> QED
    BY <1>2, <2>1 DEF Numbered
<1>4. Balanced'
  BY <1>1, <1>2 DEF Balanced
<1>5. Ring'
  BY <1>1, <1>2 DEF Ring, SlotOf
<1>6. Emptied'
  BY <1>1 DEF Emptied
<1> QED
  BY <1>3, <1>4, <1>5, <1>6 DEF Data

(* rfq_init.                                                               *)
LEMMA InitRunKeeps ==
  ASSUME IInv, IInv', StreamInv, NEW t \in Threads, InitRun(t)
  PROVE  Data'
<1>1. /\ pc[t] = "init_run" /\ pc' = [pc EXCEPT ![t] = "idle"]
      /\ head' = 0 /\ tail' = 0 /\ accepted' = 0 /\ consumed' = 0 /\ discarded' = 0
      /\ first_sample' = reg[t].arg /\ next_sample' = reg[t].arg /\ delivered' = << >>
      /\ \A i \in Slots : slots'[i] = Wiped
  BY DEF InitRun, Return, Goto
<1>2. reg[t].arg \in Samples
  BY Numbers DEF Registers
<1>3. \A u \in Threads : pc[u] \in {"idle", "init_run"}
  BY <1>1 DEF IInv, Boot
<1>4. \A u \in Threads : pc'[u] \notin Marks
  BY <1>1, <1>3, Numbers DEF Marks
<1> QED
  BY <1>1, <1>2, <1>4, FreshStream

(* rfq_rearm_closed resets a queue it has found closed, empty and wiped,   *)
(* holding both guards.                                                    *)
LEMMA RearmResetKeeps ==
  ASSUME IInv, IInv', StreamInv, NEW t \in Threads, RearmReset(t)
  PROVE  Data'
<1> DEFINE Clean == state = "CLOSED" /\ head = tail /\ \A i \in Slots : slots[i] = Wiped
<1>1. CASE Clean
  <2>1. /\ pc[t] = "rearm_reset" /\ pc' = [pc EXCEPT ![t] = "rearm_run"]
        /\ head' = 0 /\ tail' = 0 /\ accepted' = 0 /\ consumed' = 0 /\ discarded' = 0
        /\ first_sample' = reg[t].arg /\ next_sample' = reg[t].arg /\ delivered' = << >>
        /\ \A i \in Slots : slots'[i] = Wiped
    BY <1>1 DEF RearmReset, Goto
  <2>2. reg[t].arg \in Samples
    BY Numbers DEF Registers
  <2>3. \A u \in Threads : pc'[u] \notin Marks
    <3>1. \A u \in Threads : u # t => pc[u] \notin ProducerSection /\ pc[u] \notin ConsumerSection
      BY <2>1 DEF IInv, GuardsExact, ProducerSection, ConsumerSection
    <3>2. \A u \in Threads : u # t => pc[u] \notin Marks
      BY <3>1 DEF Marks, ProducerSection, ConsumerSection
    <3> QED
      BY <2>1, <3>2, Numbers DEF Marks
  <2> QED
    BY <2>1, <2>2, <2>3, FreshStream
<1>2. CASE ~Clean
  <2>1. Calm(t)
    BY <1>2 DEF RearmReset, Goto, Calm, counters, Marks, Labels
  <2> QED
    BY <2>1, CalmKeeps DEF StreamInv, Data
<1> QED
  BY <1>1, <1>2

(* Every action of the queue keeps the stream: most are calm.              *)
LEMMA DataStep ==
  ASSUME IInv, IInv', StreamInv, NEW t \in Threads, StepOf(t)
  PROVE  Data'
<1>0. Data /\ (pc[t] = "rearm_run" => discarded = 0)
  BY DEF StreamInv, Data, Admitted
<1>00. ASSUME Calm(t) PROVE Data'
  BY <1>0, <1>00, CalmKeeps
<1>1. CASE \E first \in Samples : InitClaim(t, first)
  BY <1>1, <1>00 DEF InitClaim, Goto, Return, ConsumerTake, Calm, Marks, Labels, atomics, counters
<1>2. CASE InitRun(t)
  BY <1>2, InitRunKeeps
<1>3. CASE \E first \in Samples : PushCall(t, first)
  BY <1>3, <1>00 DEF PushCall, Goto, Return, ConsumerTake, Calm, Marks, Labels, atomics, counters
<1>4. CASE PushTake(t)
  BY <1>4, <1>00 DEF PushTake, Goto, Return, ConsumerTake, Calm, Marks, Labels, atomics, counters
<1>5. CASE PushCheck(t)
  BY <1>5, <1>00 DEF PushCheck, Goto, Return, ConsumerTake, Calm, Marks, Labels, atomics, counters
<1>6. CASE PushLoad(t)
  BY <1>6, <1>00 DEF PushLoad, Goto, Return, ConsumerTake, Calm, Marks, Labels, atomics, counters
<1>7. CASE PushWrite(t)
  BY <1>7, PushWriteKeeps
<1>8. CASE PushPublish(t)
  BY <1>8, PushPublishKeeps
<1>9. CASE PushStop(t)
  BY <1>9, <1>00 DEF PushStop, Goto, Return, ConsumerTake, Calm, Marks, Labels, atomics, counters
<1>10. CASE ProducerRelease(t)
  BY <1>10, <1>00 DEF ProducerRelease, Goto, Return, ConsumerTake, Calm, Marks, Labels,
     atomics, counters
<1>11. CASE PopCall(t)
  BY <1>11, <1>00 DEF PopCall, Goto, Return, ConsumerTake, Calm, Marks, Labels, atomics, counters
<1>12. CASE PopTake(t)
  BY <1>12, <1>00 DEF PopTake, Goto, Return, ConsumerTake, Calm, Marks, Labels, atomics, counters
<1>13. CASE PopState(t)
  BY <1>13, <1>00 DEF PopState, Goto, Return, ConsumerTake, Calm, Marks, Labels, atomics, counters
<1>14. CASE PopReason(t)
  BY <1>14, <1>00 DEF PopReason, Goto, Return, ConsumerTake, Calm, Marks, Labels, atomics,
     counters
<1>15. CASE PopLoad(t)
  BY <1>15, <1>00 DEF PopLoad, Goto, Return, ConsumerTake, Calm, Marks, Labels, atomics, counters
<1>16. CASE PopCopy(t)
  BY <1>16, PopCopyKeeps
<1>17. CASE PopPublish(t)
  BY <1>17, PopPublishKeeps
<1>18. CASE ConsumerRelease(t)
  BY <1>18, <1>00 DEF ConsumerRelease, Goto, Return, ConsumerTake, Calm, Marks, Labels,
     atomics, counters
<1>19. CASE StopCall(t)
  BY <1>19, <1>00 DEF StopCall, Goto, Return, ConsumerTake, Calm, Marks, Labels, atomics, counters
<1>20. CASE StopLatch(t)
  BY <1>20, <1>00 DEF StopLatch, Goto, Return, ConsumerTake, Calm, Marks, Labels, atomics,
     counters
<1>21. CASE ConfirmCall(t)
  BY <1>21, <1>00 DEF ConfirmCall, Goto, Return, ConsumerTake, Calm, Marks, Labels, atomics,
     counters
<1>22. CASE ConfirmReason(t)
  BY <1>22, <1>00 DEF ConfirmReason, Goto, Return, ConsumerTake, Calm, Marks, Labels,
     atomics, counters
<1>23. CASE ConfirmTake(t)
  BY <1>23, <1>00 DEF ConfirmTake, Goto, Return, ConsumerTake, Calm, Marks, Labels, atomics,
     counters
<1>24. CASE ConfirmFence(t)
  BY <1>24, <1>00 DEF ConfirmFence, Goto, Return, ConsumerTake, Calm, Marks, Labels,
     atomics, counters
<1>25. CASE \E discard \in BOOLEAN : CloseCall(t, discard)
  BY <1>25, <1>00 DEF CloseCall, Goto, Return, ConsumerTake, Calm, Marks, Labels, atomics,
     counters
<1>26. CASE CloseTake(t)
  BY <1>26, <1>00 DEF CloseTake, Goto, Return, ConsumerTake, Calm, Marks, Labels, atomics,
     counters
<1>27. CASE CloseLoad(t)
  BY <1>27, <1>00 DEF CloseLoad, Goto, Return, ConsumerTake, Calm, Marks, Labels, atomics,
     counters
<1>28. CASE CloseWipe(t)
  BY <1>28, CloseWipeKeeps
<1>29. CASE CloseTail(t)
  BY <1>29, CloseTailKeeps
<1>30. CASE CloseState(t)
  BY <1>30, CloseStateKeeps
<1>31. CASE \E first \in Samples : RearmCall(t, first)
  BY <1>31, <1>00 DEF RearmCall, Goto, Return, ConsumerTake, Calm, Marks, Labels, atomics,
     counters
<1>32. CASE RearmProducer(t)
  BY <1>32, <1>00 DEF RearmProducer, Goto, Return, ConsumerTake, Calm, Marks, Labels,
     atomics, counters
<1>33. CASE RearmConsumer(t)
  BY <1>33, <1>00 DEF RearmConsumer, Goto, Return, ConsumerTake, Calm, Marks, Labels,
     atomics, counters
<1>34. CASE RearmReset(t)
  BY <1>34, RearmResetKeeps
<1>35. CASE RearmRun(t)
  BY <1>35, <1>0, <1>00 DEF RearmRun, Goto, Return, ConsumerTake, Calm, Marks, Labels,
     atomics, counters
<1>36. CASE RearmRelease(t)
  BY <1>36, <1>00 DEF RearmRelease, Goto, Return, ConsumerTake, Calm, Marks, Labels,
     atomics, counters
<1>37. CASE SummaryCall(t)
  BY <1>37, <1>00 DEF SummaryCall, Goto, Return, ConsumerTake, Calm, Marks, Labels, atomics,
     counters
<1>38. CASE SummaryTake(t)
  BY <1>38, <1>00 DEF SummaryTake, Goto, Return, ConsumerTake, Calm, Marks, Labels, atomics,
     counters
<1>39. CASE SummaryCopy(t)
  BY <1>39, <1>00 DEF SummaryCopy, Goto, Return, ConsumerTake, Calm, Marks, Labels, atomics,
     counters
<1> QED
  BY <1>1, <1>2, <1>3, <1>4, <1>5, <1>6, <1>7, <1>8, <1>9, <1>10, <1>11, <1>12, <1>13,
     <1>14, <1>15, <1>16, <1>17, <1>18, <1>19, <1>20, <1>21, <1>22, <1>23, <1>24, <1>25, <1>26,
     <1>27, <1>28, <1>29, <1>30, <1>31, <1>32, <1>33, <1>34, <1>35, <1>36, <1>37, <1>38, <1>39
     DEF StepOf

-----------------------------------------------------------------------------
(* What the other threads know of the stream.                              *)

(* A step of one thread leaves the label and the locals of the others.     *)
LEMMA OthersStay ==
  ASSUME IInv, NEW t \in Threads, StepOf(t), NEW u \in Threads, u # t
  PROVE  pc'[u] = pc[u] /\ reg'[u] = reg[u]
<1>1. pc \in [Threads -> Labels] /\ reg \in [Threads -> Registers]
  BY Numbers
<1> QED
  BY <1>1 DEF StepOf, InitClaim, InitRun, PushCall, PushTake, PushCheck, PushLoad,
         PushWrite, PushPublish, PushStop, ProducerRelease, PopCall, PopTake,
         PopState, PopReason, PopLoad, PopCopy, PopPublish, ConsumerRelease,
         StopCall, StopLatch, ConfirmCall, ConfirmReason, ConfirmTake,
         ConfirmFence, CloseCall, CloseTake, CloseLoad, CloseWipe, CloseTail,
         CloseState, RearmCall, RearmProducer, RearmConsumer, RearmReset,
         RearmRun, RearmRelease, SummaryCall, SummaryTake, SummaryCopy,
         Goto, Return, ConsumerTake, Stop, Set, atomics, counters

(* Who could break it needs the guard the other thread holds.              *)
LEMMA AdmittedOthers ==
  ASSUME IInv, StreamInv, NEW t \in Threads, StepOf(t), NEW u \in Threads, u # t
  PROVE  /\ pc'[u] \in {"push_load", "push_write"} => reg'[u].arg = next_sample'
         /\ pc'[u] \in {"pop_reason", "pop_load", "pop_copy", "pop_publish"} =>
              state' \in {"RUNNING", "FENCED"}
         /\ pc'[u] = "rearm_run" => discarded' = 0
<1>1. pc'[u] = pc[u] /\ reg'[u] = reg[u]
  BY OthersStay
<1>2. /\ ~(pc[t] \in ProducerSection /\ pc[u] \in ProducerSection)
      /\ ~(pc[t] \in ConsumerSection /\ pc[u] \in ConsumerSection)
  BY DEF IInv, GuardsExact
<1>3. /\ pc[u] \in {"push_load", "push_write"} => reg[u].arg = next_sample
      /\ pc[u] \in {"pop_reason", "pop_load", "pop_copy", "pop_publish"} =>
           state \in {"RUNNING", "FENCED"}
      /\ pc[u] = "rearm_run" => discarded = 0
  BY DEF StreamInv, Admitted
<1>4. Boot
  BY DEF IInv
<1>5. CASE pc[u] \in {"push_load", "push_write"}
  <2>1. next_sample' = next_sample
    BY <1>2, <1>4, <1>5 DEF StepOf, ProducerSection, ConsumerSection, Boot, InitClaim, InitRun, PushCall, PushTake, PushCheck, PushLoad,
         PushWrite, PushPublish, PushStop, ProducerRelease, PopCall, PopTake,
         PopState, PopReason, PopLoad, PopCopy, PopPublish, ConsumerRelease,
         StopCall, StopLatch, ConfirmCall, ConfirmReason, ConfirmTake,
         ConfirmFence, CloseCall, CloseTake, CloseLoad, CloseWipe, CloseTail,
         CloseState, RearmCall, RearmProducer, RearmConsumer, RearmReset,
         RearmRun, RearmRelease, SummaryCall, SummaryTake, SummaryCopy,
         Goto, Return, ConsumerTake, Stop, Set, atomics, counters
  <2> QED
    BY <1>1, <1>3, <1>5, <2>1
<1>6. CASE pc[u] \in {"pop_reason", "pop_load", "pop_copy", "pop_publish"}
  <2>1. state' = state \/ state' \in {"RUNNING", "FENCED"}
    BY <1>2, <1>4, <1>6 DEF StepOf, ProducerSection, ConsumerSection, Boot, InitClaim, InitRun, PushCall, PushTake, PushCheck, PushLoad,
         PushWrite, PushPublish, PushStop, ProducerRelease, PopCall, PopTake,
         PopState, PopReason, PopLoad, PopCopy, PopPublish, ConsumerRelease,
         StopCall, StopLatch, ConfirmCall, ConfirmReason, ConfirmTake,
         ConfirmFence, CloseCall, CloseTake, CloseLoad, CloseWipe, CloseTail,
         CloseState, RearmCall, RearmProducer, RearmConsumer, RearmReset,
         RearmRun, RearmRelease, SummaryCall, SummaryTake, SummaryCopy,
         Goto, Return, ConsumerTake, Stop, Set, atomics, counters
  <2> QED
    BY <1>1, <1>3, <1>6, <2>1
<1>7. CASE pc[u] = "rearm_run"
  <2>1. discarded' = discarded \/ discarded' = 0
    BY <1>2, <1>4, <1>7 DEF StepOf, ProducerSection, ConsumerSection, Boot, InitClaim, InitRun, PushCall, PushTake, PushCheck, PushLoad,
         PushWrite, PushPublish, PushStop, ProducerRelease, PopCall, PopTake,
         PopState, PopReason, PopLoad, PopCopy, PopPublish, ConsumerRelease,
         StopCall, StopLatch, ConfirmCall, ConfirmReason, ConfirmTake,
         ConfirmFence, CloseCall, CloseTake, CloseLoad, CloseWipe, CloseTail,
         CloseState, RearmCall, RearmProducer, RearmConsumer, RearmReset,
         RearmRun, RearmRelease, SummaryCall, SummaryTake, SummaryCopy,
         Goto, Return, ConsumerTake, Stop, Set, atomics, counters
  <2> QED
    BY <1>1, <1>3, <1>7, <2>1
<1> QED
  BY <1>1, <1>5, <1>6, <1>7

(* The thread that steps: its checks establish it.                         *)
LEMMA AdmittedSelf ==
  ASSUME IInv, StreamInv, NEW t \in Threads, StepOf(t)
  PROVE  /\ pc'[t] \in {"push_load", "push_write"} => reg'[t].arg = next_sample'
         /\ pc'[t] \in {"pop_reason", "pop_load", "pop_copy", "pop_publish"} =>
              state' \in {"RUNNING", "FENCED"}
         /\ pc'[t] = "rearm_run" => discarded' = 0
<1>1. /\ pc \in [Threads -> Labels] /\ reg \in [Threads -> Registers] /\ reg[t] \in Registers
  BY Numbers
<1>2. /\ pc[t] \in {"push_load", "push_write"} => reg[t].arg = next_sample
      /\ pc[t] \in {"pop_reason", "pop_load", "pop_copy", "pop_publish"} =>
           state \in {"RUNNING", "FENCED"}
  BY DEF StreamInv, Admitted
<1>3. pc'[t] \in {"push_load", "push_write"} => reg'[t].arg = next_sample'
  <2>1. CASE PushCheck(t)
    BY <1>1, <2>1 DEF PushCheck, Set, Registers, counters
  <2>2. CASE PushLoad(t)
    BY <1>1, <1>2, <2>2 DEF PushLoad, Set, Registers, counters
  <2>3. CASE ~PushCheck(t) /\ ~PushLoad(t)
    <3>1. pc'[t] \notin {"push_load", "push_write"}
      BY <1>1, <2>3 DEF StepOf, InitClaim, InitRun, PushCall, PushTake,
         PushWrite, PushPublish, PushStop, ProducerRelease, PopCall, PopTake,
         PopState, PopReason, PopLoad, PopCopy, PopPublish, ConsumerRelease,
         StopCall, StopLatch, ConfirmCall, ConfirmReason, ConfirmTake,
         ConfirmFence, CloseCall, CloseTake, CloseLoad, CloseWipe, CloseTail,
         CloseState, RearmCall, RearmProducer, RearmConsumer, RearmReset,
         RearmRun, RearmRelease, SummaryCall, SummaryTake, SummaryCopy,
         Goto, Return, ConsumerTake
    <3> QED
      BY <3>1
  <2> QED
    BY <2>1, <2>2, <2>3
<1>4. pc'[t] \in {"pop_reason", "pop_load", "pop_copy", "pop_publish"} =>
        state' \in {"RUNNING", "FENCED"}
  BY <1>1, <1>2 DEF StepOf, InitClaim, InitRun, PushCall, PushTake, PushCheck, PushLoad,
         PushWrite, PushPublish, PushStop, ProducerRelease, PopCall, PopTake,
         PopState, PopReason, PopLoad, PopCopy, PopPublish, ConsumerRelease,
         StopCall, StopLatch, ConfirmCall, ConfirmReason, ConfirmTake,
         ConfirmFence, CloseCall, CloseTake, CloseLoad, CloseWipe, CloseTail,
         CloseState, RearmCall, RearmProducer, RearmConsumer, RearmReset,
         RearmRun, RearmRelease, SummaryCall, SummaryTake, SummaryCopy,
         Goto, Return, ConsumerTake, Stop, Set, atomics, counters
<1>5. pc'[t] = "rearm_run" => discarded' = 0
  BY <1>1 DEF StepOf, InitClaim, InitRun, PushCall, PushTake, PushCheck, PushLoad,
         PushWrite, PushPublish, PushStop, ProducerRelease, PopCall, PopTake,
         PopState, PopReason, PopLoad, PopCopy, PopPublish, ConsumerRelease,
         StopCall, StopLatch, ConfirmCall, ConfirmReason, ConfirmTake,
         ConfirmFence, CloseCall, CloseTake, CloseLoad, CloseWipe, CloseTail,
         CloseState, RearmCall, RearmProducer, RearmConsumer, RearmReset,
         RearmRun, RearmRelease, SummaryCall, SummaryTake, SummaryCopy,
         Goto, Return, ConsumerTake, Stop, Set, atomics, counters
<1> QED
  BY <1>3, <1>4, <1>5

(* Every step of the queue keeps Admitted: the frame being pushed carries  *)
(* the expected sample number, a pop copies only while frames may leave,   *)
(* and a rearm has nothing left to discard.                                *)
LEMMA AdmittedStep ==
  ASSUME IInv, StreamInv, NEW t \in Threads, StepOf(t)
  PROVE  Admitted'
<1>1. ASSUME NEW u \in Threads
      PROVE  /\ pc'[u] \in {"push_load", "push_write"} => reg'[u].arg = next_sample'
             /\ pc'[u] \in {"pop_reason", "pop_load", "pop_copy", "pop_publish"} =>
                  state' \in {"RUNNING", "FENCED"}
             /\ pc'[u] = "rearm_run" => discarded' = 0
  <2>1. CASE u = t
    BY <2>1, AdmittedSelf
  <2>2. CASE u # t
    BY <2>2, AdmittedOthers
  <2> QED
    BY <2>1, <2>2
<1> QED
  BY <1>1 DEF Admitted

(* A push passes its check only while no stop is latched, and the producer *)
(* guard admits one at a time.                                             *)
LEMMA LateStep ==
  ASSUME IInv, StreamInv, NEW t \in Threads, StepOf(t)
  PROVE  Latecomer'
<1>1. pc \in [Threads -> Labels] /\ late \in Nat
  BY Numbers DEF IInv, TypeOK
<1>2. /\ reason = "NONE" => late = 0
      /\ late <= 1 /\ (late = 1 => \A u \in Threads : pc[u] \notin {"push_load", "push_write"})
  BY DEF StreamInv, Latecomer, At
<1>3. \A u \in Threads : u # t => pc'[u] = pc[u]
  BY OthersStay
<1>4. CASE PushWrite(t)
  <2>1. /\ pc[t] = "push_write" /\ pc'[t] = "push_publish" /\ reason' = reason
        /\ late' = IF reason = "NONE" THEN late ELSE late + 1
    BY <1>1, <1>4 DEF PushWrite, Goto, atomics
  <2>2. late = 0
    BY <1>1, <1>2, <2>1
  <2>3. \A u \in Threads : u # t => pc[u] \notin ProducerSection
    BY <2>1 DEF IInv, GuardsExact, ProducerSection
  <2>4. \A u \in Threads : pc'[u] \notin {"push_load", "push_write"}
    BY <1>3, <2>1, <2>3 DEF ProducerSection
  <2> QED
    BY <2>1, <2>2, <2>4 DEF Latecomer, At
<1>5. CASE ~PushWrite(t)
  <2>1. \/ late' = late /\ (reason' = "NONE" => reason = "NONE")
        \/ late' = 0
    BY <1>5 DEF StepOf, InitClaim, InitRun, PushCall, PushTake, PushCheck, PushLoad,
         PushPublish, PushStop, ProducerRelease, PopCall, PopTake,
         PopState, PopReason, PopLoad, PopCopy, PopPublish, ConsumerRelease,
         StopCall, StopLatch, ConfirmCall, ConfirmReason, ConfirmTake,
         ConfirmFence, CloseCall, CloseTake, CloseLoad, CloseWipe, CloseTail,
         CloseState, RearmCall, RearmProducer, RearmConsumer, RearmReset,
         RearmRun, RearmRelease, SummaryCall, SummaryTake, SummaryCopy,
         Goto, Return, ConsumerTake, Stop, atomics
  <2>2. pc'[t] \in {"push_load", "push_write"} =>
          reason = "NONE" \/ pc[t] = "push_load"
    BY <1>1, <1>5 DEF StepOf, InitClaim, InitRun, PushCall, PushTake, PushCheck, PushLoad,
         PushPublish, PushStop, ProducerRelease, PopCall, PopTake,
         PopState, PopReason, PopLoad, PopCopy, PopPublish, ConsumerRelease,
         StopCall, StopLatch, ConfirmCall, ConfirmReason, ConfirmTake,
         ConfirmFence, CloseCall, CloseTake, CloseLoad, CloseWipe, CloseTail,
         CloseState, RearmCall, RearmProducer, RearmConsumer, RearmReset,
         RearmRun, RearmRelease, SummaryCall, SummaryTake, SummaryCopy,
         Goto, Return, ConsumerTake
  <2>3. ASSUME NEW u \in Threads, late' = 1
        PROVE  pc'[u] \notin {"push_load", "push_write"}
    <3>1. late = 1
      BY <2>1, <2>3
    <3> QED
      BY <1>2, <1>3, <2>2, <3>1
  <2> QED
    BY <1>1, <1>2, <2>1, <2>3 DEF Latecomer, At
<1> QED
  BY <1>4, <1>5

-----------------------------------------------------------------------------
(* The initial state is a stream of no frames.                             *)
LEMMA InitStream == ASSUME Init PROVE StreamInv
<1>1. /\ \A t \in Threads : pc[t] = "idle"
      /\ head = 0 /\ tail = 0 /\ accepted = 0 /\ consumed = 0 /\ discarded = 0
      /\ first_sample = 0 /\ next_sample = 0 /\ delivered = << >> /\ late = 0
      /\ \A i \in Slots : slots[i] = Wiped
  BY DEF Init
<1>2. /\ ~At({"close_tail"}) /\ ~At({"close_state"}) /\ ~At({"close_tail", "close_state"})
      /\ ~At({"push_load", "push_write"}) /\ Pushing = 0 /\ Popping = 0
  BY <1>1 DEF At, Pushing, Popping
<1>3. 0 + 0 = 0 /\ Used(0, 0) = 0 /\ 0 - 0 = 0
  BY DEF Used
<1>4. Numbered
  <2>1. Len(delivered) = 0 /\ 1..0 = {}
    BY <1>1
  <2> QED
    BY <1>1, <1>3, <2>1 DEF Numbered
<1>5. Balanced
  BY <1>1, <1>2, <1>3 DEF Balanced
<1>6. Ring
  BY <1>1, <1>2, <1>3 DEF Ring, SlotOf
<1>7. Emptied
  BY <1>1 DEF Emptied
<1>8. Admitted
  BY <1>1 DEF Admitted
<1>9. Latecomer
  BY <1>1, <1>2 DEF Latecomer
<1> QED
  BY <1>4, <1>5, <1>6, <1>7, <1>8, <1>9 DEF StreamInv

(* Every step, and every stuttering step, keeps the stream.                *)
LEMMA StepStream == ASSUME IInv, IInv', StreamInv, [Next]_vars PROVE StreamInv'
<1>1. CASE Next
  <2>1. PICK t \in Threads : StepOf(t)
    BY <1>1, NextIsStep
  <2> QED
    BY <2>1, DataStep, AdmittedStep, LateStep DEF StreamInv, Data
<1>2. CASE UNCHANGED vars
  BY <1>2 DEF StreamInv, Numbered, Balanced, Ring, Emptied, Admitted, Latecomer, At, Pushing,
       Popping, vars, atomics, counters
<1> QED
  BY <1>1, <1>2

(* The stream invariant, whatever the threads, the capacity and the ticket *)
(* width.                                                                  *)
THEOREM QueueStream == Spec => []StreamInv
<1>1. Init => StreamInv
  BY InitStream
<1>2. IInv /\ IInv' /\ StreamInv /\ [Next]_vars => StreamInv'
  BY StepStream
<1> QED
  BY <1>1, <1>2, QueueInvariant, PTL DEF Spec

(* However many threads push, at most one frame enters after a stop is     *)
(* latched: rfq_push looks at reason only once, behind the producer guard. *)
THEOREM QueueStopAdmitsAtMostOne == Spec => []StopAdmitsAtMostOne
<1>1. StreamInv => StopAdmitsAtMostOne
  BY DEF StreamInv, Latecomer, StopAdmitsAtMostOne
<1> QED
  BY <1>1, QueueStream, PTL

(* A push never writes the slot a pop is reading and wiping, also where    *)
(* the tickets wrap.                                                       *)
LEMMA CopiesApart ==
  ASSUME IInv, StreamInv, NEW t \in Threads, NEW u \in Threads,
         pc[t] = "push_write", pc[u] = "pop_copy"
  PROVE  SlotOf(reg[t].head) # SlotOf(reg[u].tail)
<1>1. /\ reg[t].head = head /\ reg[u].tail = tail /\ state = "RUNNING"
      /\ Used(head, tail) < Capacity /\ Used(head, tail) > 0
  BY DEF IInv, Windows, Known
<1>2. discarded = 0 /\ ~At({"close_tail"})
  BY <1>1, NothingDiscarded
<1>3. Pushing = 0
  <2>1. pc[t] \in ProducerSection /\ {"push_publish"} \in SUBSET ProducerSection
    BY DEF ProducerSection
  <2> QED
    BY <2>1, Alone DEF Pushing
<1>4. Popping = 0
  <2>1. pc[u] \in ConsumerSection /\ {"pop_publish"} \in SUBSET ConsumerSection
    BY DEF ConsumerSection
  <2> QED
    BY <2>1, Alone DEF Popping
<1>5. accepted \in Nat /\ consumed \in Nat /\ Used(head, tail) \in Nat /\ Capacity \in Nat
  BY Numbers
<1>6. accepted = consumed + Used(head, tail)
  BY <1>2, <1>3, <1>4, <1>5 DEF StreamInv, Balanced
<1>7. SlotOf(head) = accepted % Capacity /\ SlotOf(tail) = consumed % Capacity
  BY <1>2, <1>3, <1>4, <1>5 DEF StreamInv, Ring
<1>8. consumed < accepted /\ accepted - consumed < Capacity
  BY <1>1, <1>5, <1>6
<1> QED
  BY <1>1, <1>5, <1>7, <1>8, ModDist

(* What rfq_pop delivers is the accepted stream, frame for frame: none     *)
(* lost, repeated, reordered, torn or wiped, for any number of threads.    *)
THEOREM QueueDeliversTheStream == Spec => []DeliveredContiguous
<1>1. IInv /\ StreamInv => DeliveredContiguous
  BY CopiesApart DEF StreamInv, Numbered, DeliveredContiguous
<1> QED
  BY <1>1, QueueInvariant, QueueStream, PTL

-----------------------------------------------------------------------------
(* The summary.  rfq_get_summary checks the state before it takes the      *)
(* consumer guard and not after, so a second worker could rearm the queue  *)
(* in between; the firmware has one recording worker.                      *)
OneWorker == \A t, u \in Workers : t = u

(* With one worker a summary stays behind the fence it was begun behind.   *)
LEMMA StepSummaries ==
  ASSUME OneWorker, IInv, Summaries, [Next]_vars
  PROVE  Summaries'
<1> DEFINE Labelled == \A t \in Producers : pc[t] \in PushLabels
<1>0. pc \in [Threads -> Labels] /\ Producers \cap Workers = {}
  BY Numbers, ThreadsAssumption
<1>1. ASSUME NEW t \in Producers, Push(t) PROVE Summaries'
  <2>1. t \in Threads /\ StepOf(t) /\ pc[t] \in PushLabels
    BY <1>1 DEF Threads, Push, StepOf, Summaries
  <2>2. pc'[t] \in PushLabels /\ state' = state
    BY <1>0, <1>1, <2>1 DEF Push, PushCall, PushTake, PushCheck, PushLoad, PushWrite, PushPublish,
         PushStop, ProducerRelease, Goto, Return, atomics, PushLabels
  <2>3. \A u \in Threads : u # t => pc'[u] = pc[u]
    BY <2>1, OthersStay
  <2>4. Labelled'
    BY <2>2, <2>3 DEF Summaries, Threads
  <2>5. At({"summary_take", "summary_copy"})' => At({"summary_take", "summary_copy"})
    BY <2>2, <2>3 DEF At, PushLabels
  <2> QED
    BY <2>2, <2>4, <2>5 DEF Summaries
<1>2. ASSUME NEW t \in Workers, Pop(t) \/ Control(t) PROVE Summaries'
  <2>1. t \in Threads /\ StepOf(t)
    <3>1. CASE \E first \in Firsts : InitClaim(t, first) \/ RearmCall(t, first)
      <4>1. PICK first \in Samples : InitClaim(t, first) \/ RearmCall(t, first)
        BY <3>1, SampleAssumption DEF Samples
      <4> QED
        BY <4>1 DEF StepOf, Threads
    <3> QED
      BY <1>2, <3>1 DEF Threads, Pop, Control, StepOf
  <2>2. \A u \in Threads : u # t => pc'[u] = pc[u]
    BY <2>1, OthersStay
  <2>3. Labelled'
    BY <1>0, <2>2 DEF Summaries, Threads
  <2>4. \A u \in Threads : u # t => pc'[u] \in PushLabels
    BY <1>0, <2>2 DEF Summaries, Threads, OneWorker
  <2>5. At({"summary_take", "summary_copy"})' => pc'[t] \in {"summary_take", "summary_copy"}
    BY <2>4 DEF At, PushLabels
  <2>6. pc'[t] \in {"summary_take", "summary_copy"} => state' \in {"FENCED", "CLOSED"}
    <3>1. pc[t] \in {"summary_take", "summary_copy"} => state \in {"FENCED", "CLOSED"}
      BY <2>1 DEF Summaries, At
    <3> QED
      BY <1>0, <2>1, <3>1 DEF StepOf, InitClaim, InitRun, PushCall, PushTake, PushCheck, PushLoad,
         PushWrite, PushPublish, PushStop, ProducerRelease, PopCall, PopTake,
         PopState, PopReason, PopLoad, PopCopy, PopPublish, ConsumerRelease,
         StopCall, StopLatch, ConfirmCall, ConfirmReason, ConfirmTake,
         ConfirmFence, CloseCall, CloseTake, CloseLoad, CloseWipe, CloseTail,
         CloseState, RearmCall, RearmProducer, RearmConsumer, RearmReset,
         RearmRun, RearmRelease, SummaryCall, SummaryTake, SummaryCopy,
         Goto, Return, ConsumerTake, atomics
  <2> QED
    BY <2>3, <2>5, <2>6 DEF Summaries
<1>3. CASE UNCHANGED vars
  BY <1>3 DEF Summaries, At, vars, atomics
<1> QED
  BY <1>1, <1>2, <1>3 DEF Next

(* The closed queue is empty, wiped and balanced; a summary copies a       *)
(* consistent cut.                                                         *)
LEMMA Accounted ==
  ASSUME IInv, StreamInv, Summaries
  PROVE  ClosedAccounted
<1>0. /\ accepted \in Nat /\ consumed \in Nat /\ discarded \in Nat /\ Used(head, tail) \in Nat
      /\ head \in Tickets /\ Used(head, head) = 0
  BY Numbers, TicketArithmetic
<1>1. ASSUME state = "CLOSED"
      PROVE  /\ head = tail /\ accepted = consumed + discarded /\ consumed = Len(delivered)
             /\ \A i \in Slots : slots[i] = Wiped
  <2>1. Pushing = 0 /\ ~At({"close_tail"})
    BY <1>1, NoPush DEF IInv, Windows, Known, At
  <2>2. Popping = 0
    BY <1>1 DEF StreamInv, Admitted, Popping, At
  <2>3. head = tail /\ \A i \in Slots : slots[i] = Wiped
    BY <1>1 DEF StreamInv, Emptied
  <2>4. accepted = consumed + discarded
    BY <1>0, <2>1, <2>2, <2>3 DEF StreamInv, Balanced
  <2> QED
    BY <2>3, <2>4 DEF StreamInv, Numbered
<1>2. ASSUME NEW t \in Threads, pc[t] = "summary_copy"
      PROVE  /\ state \in {"FENCED", "CLOSED"}
             /\ accepted = consumed + discarded + Used(head, tail)
             /\ next_sample = first_sample + accepted
  <2>1. state \in {"FENCED", "CLOSED"}
    BY <1>2 DEF Summaries, At
  <2>2. Pushing = 0
    BY <2>1, NoPush
  <2>3. ~At({"close_tail"}) /\ Popping = 0
    <3>1. /\ pc[t] \in ConsumerSection /\ {"pop_publish"} \in SUBSET ConsumerSection
          /\ {"close_tail"} \in SUBSET ConsumerSection
      BY <1>2 DEF ConsumerSection
    <3> QED
      BY <1>2, <3>1, Alone DEF Popping
  <2> QED
    BY <1>0, <2>1, <2>2, <2>3 DEF StreamInv, Balanced, Numbered
<1> QED
  BY <1>1, <1>2 DEF ClosedAccounted

(* From the first frame pushed to the close, what was delivered and what   *)
(* was discarded is the accepted stream, exactly: for any number of        *)
(* producers and one worker, any capacity, any ticket width that is a      *)
(* multiple of it, any start of the sample counter.                        *)
THEOREM QueueStreamExact ==
  ASSUME OneWorker
  PROVE  Spec => []StreamExact
<1>1. Init => Summaries
  BY DEF Init, Summaries, At, PushLabels, Threads
<1>2. IInv /\ Summaries /\ [Next]_vars => Summaries'
  BY StepSummaries
<1>3. Spec => []Summaries
  BY <1>1, <1>2, QueueInvariant, PTL DEF Spec
<1>4. IInv /\ StreamInv => DeliveredContiguous
  BY CopiesApart DEF StreamInv, Numbered, DeliveredContiguous
<1>5. IInv /\ StreamInv /\ Summaries => StreamExact
  BY <1>4, Accounted DEF StreamExact
<1> QED
  BY <1>3, <1>5, QueueInvariant, QueueStream, PTL
=============================================================================
