------------------------------ MODULE FrameQueue ------------------------------
(***************************************************************************)
(* The lock-free frame queue between the microphone capture thread and the *)
(* recording worker (recording_frame_queue.c).  One step of this module is *)
(* one access to a shared atomic of struct rfq_queue, together with the    *)
(* accesses to plain fields that the guard taken before it protects.       *)
(*                                                                         *)
(* A PCM frame is represented by its first_sample, counted in frames (the  *)
(* unit is RFQ_FRAME_SAMPLES).  A call that returns before its first write *)
(* changes nothing and is a stuttering step.                               *)
(***************************************************************************)
EXTENDS Integers, Sequences, FiniteSets

CONSTANTS
  Producers,   \* threads that call rfq_push (the capture thread)
  Workers,     \* threads that make every other call (the recording worker)
  Capacity,    \* RFQ_CAPACITY
  TicketMod,   \* number of values of the head and tail tickets, 2^32
  MaxSample,   \* UINT64_MAX, in frames
  Firsts,      \* first_sample values the worker starts a session with
  Wiped        \* what a zeroed slot holds

ASSUME ThreadsAssumption == Producers \cap Workers = {}
ASSUME CapacityAssumption == Capacity \in Nat \ {0}
ASSUME TicketModAssumption == /\ TicketMod \in Nat
                              /\ TicketMod > Capacity
                              /\ TicketMod % Capacity = 0
ASSUME SampleAssumption == /\ MaxSample \in Nat
                           /\ Firsts \subseteq 0..MaxSample
                           /\ Wiped \notin 0..MaxSample

VARIABLES
  state, reason, head, tail, producer_busy, consumer_busy,  \* the atomics
  first_sample, next_sample, accepted, consumed, discarded, \* plain counters
  slots,                                                    \* the frames
  pc,        \* where each thread is in its call, "idle" outside one
  reg,       \* each thread's local variables
  delivered, \* history: the frames popped since the queue was last armed
  late       \* history: the frames accepted since then with a stop pending

atomics  == <<state, reason, head, tail, producer_busy, consumer_busy>>
counters == <<first_sample, next_sample, accepted, consumed, discarded>>
vars == <<atomics, counters, slots, pc, reg, delivered, late>>

Threads == Producers \cup Workers
States  == {"FRESH", "INITIALIZING", "RUNNING", "FENCED", "CLOSED"}
Reasons == {"NONE", "USER", "FULL", "CONTINUITY", "SAMPLE_OVERFLOW",
            "REENTRY", "INVARIANT"}
Slots == 0..(Capacity - 1)
Tickets == 0..(TicketMod - 1)
Samples == 0..MaxSample

(* Unsigned 32-bit arithmetic on tickets: head - tail, and head + 1.       *)
Used(h, t) == IF h >= t THEN h - t ELSE h + TicketMod - t
NextTicket(t) == IF t = TicketMod - 1 THEN 0 ELSE t + 1
SlotOf(ticket) == ticket % Capacity

(* The occupancy tests of rfq_push, and of rfq_pop and close_queue.        *)
Full(used) == used >= Capacity
Corrupt(used) == used > Capacity

Labels ==
  {"idle", "init_run", "push_take", "push_check", "push_load", "push_write",
   "push_publish", "push_stop", "producer_release", "pop_take", "pop_state",
   "pop_reason", "pop_load", "pop_copy", "pop_publish", "consumer_release",
   "stop_latch", "confirm_reason", "confirm_take", "confirm_fence",
   "close_take", "close_load", "close_wipe", "close_tail", "close_state",
   "rearm_producer", "rearm_consumer", "rearm_reset", "rearm_run",
   "rearm_release", "summary_take", "summary_copy"}

NoReg == [arg |-> 0, head |-> 0, tail |-> 0, why |-> "NONE",
          fenced |-> FALSE, discard |-> FALSE]

Registers == [arg : Samples, head : Tickets, tail : Tickets, why : Reasons,
              fenced : BOOLEAN, discard : BOOLEAN]

TypeOK ==
  /\ state \in States /\ reason \in Reasons
  /\ head \in Tickets /\ tail \in Tickets
  /\ producer_busy \in BOOLEAN /\ consumer_busy \in BOOLEAN
  /\ first_sample \in Samples /\ next_sample \in Samples
  /\ accepted \in Nat /\ consumed \in Nat /\ discarded \in Nat
  /\ slots \in [Slots -> Samples \cup {Wiped}]
  /\ delivered \in Seq(Samples \cup {Wiped}) /\ late \in Nat
  /\ pc \in [Threads -> Labels]
  /\ reg \in [Threads -> Registers]

-----------------------------------------------------------------------------
(* Mutated forms of definitions below: each is a plausible slip in the     *)
(* code, and the properties at the end must notice it.                     *)
StopLastWins(why) == reason' = why
FreeAlways(guard) == TRUE

(* Control flow.                                                           *)
Goto(t, from, to) == pc[t] = from /\ pc' = [pc EXCEPT ![t] = to]
Return(t, from) == /\ Goto(t, from, "idle")
                   /\ reg' = [reg EXCEPT ![t] = NoReg]
Set(t, field, v) == reg' = [reg EXCEPT ![t][field] = v]

(* stop: the first stop reason wins.                                       *)
Stop(why) == reason' = IF reason = "NONE" THEN why ELSE reason

(* take: one compare-and-swap on a guard; the caller names what follows.   *)
Free(guard) == ~guard

Init ==
  /\ state = "FRESH" /\ reason = "NONE" /\ head = 0 /\ tail = 0
  /\ producer_busy = FALSE /\ consumer_busy = FALSE
  /\ first_sample = 0 /\ next_sample = 0
  /\ accepted = 0 /\ consumed = 0 /\ discarded = 0
  /\ slots = [i \in Slots |-> Wiped]
  /\ pc = [t \in Threads |-> "idle"]
  /\ reg = [t \in Threads |-> NoReg]
  /\ delivered = << >> /\ late = 0

-----------------------------------------------------------------------------
(* rfq_init: once, before any other thread knows the queue.                *)
InitClaim(t, first) ==
  /\ state = "FRESH" /\ state' = "INITIALIZING"
  /\ Goto(t, "idle", "init_run")
  /\ Set(t, "arg", first)
  /\ UNCHANGED <<reason, head, tail, producer_busy, consumer_busy, counters,
                 slots, delivered, late>>

InitRun(t) ==
  /\ Return(t, "init_run")
  /\ state' = "RUNNING"
  /\ reason' = "NONE" /\ head' = 0 /\ tail' = 0
  /\ producer_busy' = FALSE /\ consumer_busy' = FALSE
  /\ first_sample' = reg[t].arg /\ next_sample' = reg[t].arg
  /\ accepted' = 0 /\ consumed' = 0 /\ discarded' = 0
  /\ slots' = [i \in Slots |-> Wiped]
  /\ delivered' = << >> /\ late' = 0

-----------------------------------------------------------------------------
(* rfq_push                                                                *)
PushCall(t, first) ==
  /\ state = "RUNNING"
  /\ Goto(t, "idle", "push_take")
  /\ Set(t, "arg", first)
  /\ UNCHANGED <<atomics, counters, slots, delivered, late>>

PushTake(t) ==
  /\ IF Free(producer_busy)
     THEN /\ Goto(t, "push_take", "push_check")
          /\ producer_busy' = TRUE
          /\ UNCHANGED <<reason, reg>>
     ELSE /\ Return(t, "push_take")
          /\ Stop("REENTRY")
          /\ UNCHANGED producer_busy
  /\ UNCHANGED <<state, head, tail, consumer_busy, counters, slots, delivered, late>>

(* Nobody moves the queue out of RUNNING while the producer guard is held, *)
(* so the two loads of state and reason are one step.                      *)
PushCheckIgnoresReason(t) ==
  /\ pc[t] = "push_check"
  /\ LET why == IF reg[t].arg # next_sample THEN "CONTINUITY"
                ELSE IF reg[t].arg > MaxSample - 1 THEN "SAMPLE_OVERFLOW"
                ELSE "NONE"
     IN /\ pc' = [pc EXCEPT ![t] = IF state # "RUNNING" THEN "producer_release"
                                   ELSE IF why # "NONE" THEN "push_stop"
                                   ELSE "push_load"]
        /\ Set(t, "why", why)
  /\ UNCHANGED <<atomics, counters, slots, delivered, late>>
PushCheck(t) ==
  /\ pc[t] = "push_check"
  /\ LET refuse == state # "RUNNING" \/ reason # "NONE"
         why == IF reg[t].arg # next_sample THEN "CONTINUITY"
                ELSE IF reg[t].arg > MaxSample - 1 THEN "SAMPLE_OVERFLOW"
                ELSE "NONE"
     IN /\ pc' = [pc EXCEPT ![t] = IF refuse THEN "producer_release"
                                   ELSE IF why # "NONE" THEN "push_stop"
                                   ELSE "push_load"]
        /\ Set(t, "why", IF refuse THEN "NONE" ELSE why)
  /\ UNCHANGED <<atomics, counters, slots, delivered, late>>

PushLoad(t) ==
  /\ pc[t] = "push_load"
  /\ LET used == Used(head, tail) IN
       IF Full(used)
       THEN /\ pc' = [pc EXCEPT ![t] = "push_stop"]
            /\ Set(t, "why", IF Corrupt(used) THEN "INVARIANT" ELSE "FULL")
       ELSE /\ pc' = [pc EXCEPT ![t] = "push_write"]
            /\ Set(t, "head", head)
  /\ UNCHANGED <<atomics, counters, slots, delivered, late>>

PushWrite(t) ==
  /\ Goto(t, "push_write", "push_publish")
  /\ slots' = [slots EXCEPT ![SlotOf(reg[t].head)] = reg[t].arg]
  /\ next_sample' = reg[t].arg + 1
  /\ accepted' = accepted + 1
  /\ late' = IF reason = "NONE" THEN late ELSE late + 1
  /\ UNCHANGED <<atomics, first_sample, consumed, discarded, reg, delivered>>

PushPublish(t) ==
  /\ Goto(t, "push_publish", "producer_release")
  /\ head' = NextTicket(reg[t].head)
  /\ UNCHANGED <<state, reason, tail, producer_busy, consumer_busy, counters,
                 slots, reg, delivered, late>>

PushStop(t) ==
  /\ Goto(t, "push_stop", "producer_release")
  /\ Stop(reg[t].why)
  /\ UNCHANGED <<state, head, tail, producer_busy, consumer_busy, counters,
                 slots, reg, delivered, late>>

ProducerRelease(t) ==
  /\ Return(t, "producer_release")
  /\ producer_busy' = FALSE
  /\ UNCHANGED <<state, reason, head, tail, consumer_busy, counters, slots,
                 delivered, late>>

-----------------------------------------------------------------------------
(* rfq_pop                                                                 *)
PopCall(t) ==
  /\ state \in {"RUNNING", "FENCED"}
  /\ Goto(t, "idle", "pop_take")
  /\ UNCHANGED <<atomics, counters, slots, reg, delivered, late>>

(* The consumer guard is taken the same way by rfq_pop and close_queue.    *)
ConsumerTake(t, from, to) ==
  /\ IF Free(consumer_busy)
     THEN /\ Goto(t, from, to)
          /\ consumer_busy' = TRUE
          /\ UNCHANGED <<reason, reg>>
     ELSE /\ Return(t, from)
          /\ Stop("REENTRY")
          /\ UNCHANGED consumer_busy
  /\ UNCHANGED <<state, head, tail, producer_busy, counters, slots, delivered, late>>

PopTake(t) == ConsumerTake(t, "pop_take", "pop_state")

PopState(t) ==
  /\ pc[t] = "pop_state"
  /\ pc' = [pc EXCEPT ![t] = IF state = "RUNNING" THEN "pop_reason"
                             ELSE IF state = "FENCED" THEN "pop_load"
                             ELSE "consumer_release"]
  /\ Set(t, "fenced", state = "FENCED")
  /\ UNCHANGED <<atomics, counters, slots, delivered, late>>

PopReason(t) ==
  /\ pc[t] = "pop_reason"
  /\ pc' = [pc EXCEPT ![t] = IF reason = "NONE" THEN "pop_load"
                             ELSE "consumer_release"]
  /\ UNCHANGED <<atomics, counters, slots, reg, delivered, late>>

PopLoad(t) ==
  /\ pc[t] = "pop_load"
  /\ LET used == Used(head, tail) IN
       /\ pc' = [pc EXCEPT ![t] = IF used = 0 \/ Corrupt(used)
                                  THEN "consumer_release" ELSE "pop_copy"]
       /\ IF Corrupt(used) THEN Stop("INVARIANT") ELSE UNCHANGED reason
  /\ Set(t, "tail", tail)
  /\ UNCHANGED <<state, head, tail, producer_busy, consumer_busy, counters,
                 slots, delivered, late>>

PopCopy(t) ==
  /\ Goto(t, "pop_copy", "pop_publish")
  /\ delivered' = Append(delivered, slots[SlotOf(reg[t].tail)])
  /\ slots' = [slots EXCEPT ![SlotOf(reg[t].tail)] = Wiped]
  /\ consumed' = consumed + 1
  /\ UNCHANGED <<atomics, first_sample, next_sample, accepted, discarded, reg,
                 late>>

PopPublish(t) ==
  /\ Goto(t, "pop_publish", "consumer_release")
  /\ tail' = NextTicket(reg[t].tail)
  /\ UNCHANGED <<state, reason, head, producer_busy, consumer_busy, counters,
                 slots, reg, delivered, late>>

ConsumerRelease(t) ==
  /\ Return(t, "consumer_release")
  /\ consumer_busy' = FALSE
  /\ UNCHANGED <<state, reason, head, tail, producer_busy, counters, slots,
                 delivered, late>>

-----------------------------------------------------------------------------
(* rfq_request_stop                                                        *)
StopCall(t) ==
  /\ state \in {"RUNNING", "FENCED"}
  /\ Goto(t, "idle", "stop_latch")
  /\ UNCHANGED <<atomics, counters, slots, reg, delivered, late>>

StopLatch(t) ==
  /\ Return(t, "stop_latch")
  /\ Stop("USER")
  /\ UNCHANGED <<state, head, tail, producer_busy, consumer_busy, counters,
                 slots, delivered, late>>

-----------------------------------------------------------------------------
(* rfq_confirm_producer_stopped                                            *)
ConfirmCall(t) ==
  /\ state = "RUNNING"
  /\ Goto(t, "idle", "confirm_reason")
  /\ UNCHANGED <<atomics, counters, slots, reg, delivered, late>>

ConfirmReason(t) ==
  /\ IF reason = "NONE"
     THEN Return(t, "confirm_reason")
     ELSE Goto(t, "confirm_reason", "confirm_take") /\ UNCHANGED reg
  /\ UNCHANGED <<atomics, counters, slots, delivered, late>>

ConfirmTake(t) ==
  /\ IF Free(producer_busy)
     THEN /\ Goto(t, "confirm_take", "confirm_fence")
          /\ producer_busy' = TRUE
          /\ UNCHANGED reg
     ELSE /\ Return(t, "confirm_take")
          /\ UNCHANGED producer_busy
  /\ UNCHANGED <<state, reason, head, tail, consumer_busy, counters, slots,
                 delivered, late>>

ConfirmFence(t) ==
  /\ Goto(t, "confirm_fence", "producer_release")
  /\ state' = IF state = "RUNNING" THEN "FENCED" ELSE state
  /\ UNCHANGED <<reason, head, tail, producer_busy, consumer_busy, counters,
                 slots, reg, delivered, late>>

-----------------------------------------------------------------------------
(* close_queue: rfq_finish (discard = FALSE) and rfq_discard (TRUE).       *)
CloseCall(t, discard) ==
  /\ state = "FENCED"
  /\ Goto(t, "idle", "close_take")
  /\ Set(t, "discard", discard)
  /\ UNCHANGED <<atomics, counters, slots, delivered, late>>

CloseTake(t) == ConsumerTake(t, "close_take", "close_load")

CloseLoad(t) ==
  /\ pc[t] = "close_load"
  /\ LET used == Used(head, tail) IN
       /\ pc' = [pc EXCEPT ![t] =
                   IF \/ state # "FENCED" \/ Corrupt(used)
                      \/ used > 0 /\ ~reg[t].discard
                   THEN "consumer_release" ELSE "close_wipe"]
       /\ IF state = "FENCED" /\ Corrupt(used)
          THEN Stop("INVARIANT") ELSE UNCHANGED reason
  /\ reg' = [reg EXCEPT ![t].head = head, ![t].tail = tail]
  /\ UNCHANGED <<state, head, tail, producer_busy, consumer_busy, counters,
                 slots, delivered, late>>

CloseWipeUncounted(t) ==
  /\ Goto(t, "close_wipe", "close_tail")
  /\ slots' = [i \in Slots |-> Wiped]
  /\ UNCHANGED <<atomics, counters, reg, delivered, late>>
CloseWipe(t) ==
  /\ Goto(t, "close_wipe", "close_tail")
  /\ slots' = [i \in Slots |-> Wiped]
  /\ discarded' = discarded + Used(reg[t].head, reg[t].tail)
  /\ UNCHANGED <<atomics, first_sample, next_sample, accepted, consumed, reg,
                 delivered, late>>

CloseTail(t) ==
  /\ Goto(t, "close_tail", "close_state")
  /\ tail' = reg[t].head
  /\ UNCHANGED <<state, reason, head, producer_busy, consumer_busy, counters,
                 slots, reg, delivered, late>>

CloseState(t) ==
  /\ Goto(t, "close_state", "consumer_release")
  /\ state' = "CLOSED"
  /\ UNCHANGED <<reason, head, tail, producer_busy, consumer_busy, counters,
                 slots, reg, delivered, late>>

-----------------------------------------------------------------------------
(* rfq_rearm_closed: takes both guards, never waits.                       *)
RearmCall(t, first) ==
  /\ state = "CLOSED"
  /\ Goto(t, "idle", "rearm_producer")
  /\ Set(t, "arg", first)
  /\ UNCHANGED <<atomics, counters, slots, delivered, late>>

RearmProducer(t) ==
  /\ IF Free(producer_busy)
     THEN /\ Goto(t, "rearm_producer", "rearm_consumer")
          /\ producer_busy' = TRUE
          /\ UNCHANGED reg
     ELSE /\ Return(t, "rearm_producer")
          /\ UNCHANGED producer_busy
  /\ UNCHANGED <<state, reason, head, tail, consumer_busy, counters, slots,
                 delivered, late>>

RearmConsumer(t) ==
  /\ IF Free(consumer_busy)
     THEN /\ Goto(t, "rearm_consumer", "rearm_reset")
          /\ consumer_busy' = TRUE
     ELSE /\ Goto(t, "rearm_consumer", "producer_release")
          /\ UNCHANGED consumer_busy
  /\ UNCHANGED <<state, reason, head, tail, producer_busy, counters, slots,
                 reg, delivered, late>>

RearmReset(t) ==
  /\ IF state = "CLOSED" /\ head = tail /\ \A i \in Slots : slots[i] = Wiped
     THEN /\ Goto(t, "rearm_reset", "rearm_run")
          /\ first_sample' = reg[t].arg /\ next_sample' = reg[t].arg
          /\ accepted' = 0 /\ consumed' = 0 /\ discarded' = 0
          /\ reason' = "NONE" /\ head' = 0 /\ tail' = 0
          /\ delivered' = << >> /\ late' = 0
     ELSE /\ Goto(t, "rearm_reset", "rearm_release")
          /\ UNCHANGED <<reason, head, tail, counters, delivered, late>>
  /\ UNCHANGED <<state, producer_busy, consumer_busy, slots, reg>>

RearmRun(t) ==
  /\ Goto(t, "rearm_run", "rearm_release")
  /\ state' = "RUNNING"
  /\ UNCHANGED <<reason, head, tail, producer_busy, consumer_busy, counters,
                 slots, reg, delivered, late>>

RearmRelease(t) ==
  /\ Goto(t, "rearm_release", "producer_release")
  /\ consumer_busy' = FALSE
  /\ UNCHANGED <<state, reason, head, tail, producer_busy, counters, slots,
                 reg, delivered, late>>

-----------------------------------------------------------------------------
(* rfq_get_summary: the values it copies out, and when.                    *)
SummaryCall(t) ==
  /\ state \in {"FENCED", "CLOSED"}
  /\ Goto(t, "idle", "summary_take")
  /\ UNCHANGED <<atomics, counters, slots, reg, delivered, late>>

SummaryTake(t) ==
  /\ IF Free(consumer_busy)
     THEN /\ Goto(t, "summary_take", "summary_copy")
          /\ consumer_busy' = TRUE
          /\ UNCHANGED reg
     ELSE /\ Return(t, "summary_take")
          /\ UNCHANGED consumer_busy
  /\ UNCHANGED <<state, reason, head, tail, producer_busy, counters, slots,
                 delivered, late>>

SummaryCopy(t) ==
  /\ Goto(t, "summary_copy", "consumer_release")
  /\ UNCHANGED <<atomics, counters, slots, reg, delivered, late>>

-----------------------------------------------------------------------------
Push(t) ==
  \/ \E first \in Samples : PushCall(t, first)
  \/ PushTake(t) \/ PushCheck(t) \/ PushLoad(t) \/ PushWrite(t)
  \/ PushPublish(t) \/ PushStop(t) \/ ProducerRelease(t)

Pop(t) ==
  \/ PopCall(t) \/ PopTake(t) \/ PopState(t) \/ PopReason(t) \/ PopLoad(t)
  \/ PopCopy(t) \/ PopPublish(t) \/ ConsumerRelease(t)

Control(t) ==
  \/ \E first \in Firsts : InitClaim(t, first) \/ RearmCall(t, first)
  \/ InitRun(t)
  \/ StopCall(t) \/ StopLatch(t)
  \/ ConfirmCall(t) \/ ConfirmReason(t) \/ ConfirmTake(t) \/ ConfirmFence(t)
  \/ \E discard \in BOOLEAN : CloseCall(t, discard)
  \/ CloseTake(t) \/ CloseLoad(t) \/ CloseWipe(t) \/ CloseTail(t)
  \/ CloseState(t)
  \/ RearmProducer(t) \/ RearmConsumer(t) \/ RearmReset(t) \/ RearmRun(t)
  \/ RearmRelease(t)
  \/ SummaryCall(t) \/ SummaryTake(t) \/ SummaryCopy(t)
  \/ ProducerRelease(t)

Next == \/ \E t \in Producers : Push(t)
        \/ \E t \in Workers : Pop(t) \/ Control(t)

Spec == Init /\ [][Next]_vars

-----------------------------------------------------------------------------
(* Properties.                                                             *)

(* The labels at which a thread holds the producer, the consumer guard.    *)
ProducerSection ==
  {"push_check", "push_load", "push_write", "push_publish", "push_stop",
   "producer_release", "confirm_fence", "rearm_consumer", "rearm_reset",
   "rearm_run", "rearm_release"}
ConsumerSection ==
  {"pop_state", "pop_reason", "pop_load", "pop_copy", "pop_publish",
   "consumer_release", "close_load", "close_wipe", "close_tail",
   "close_state", "rearm_reset", "rearm_run", "rearm_release",
   "summary_copy"}

(* The guards are exact: each is set exactly while one thread is between   *)
(* its take and its release, on every return path of every call.           *)
GuardsExact ==
  /\ producer_busy <=> \E t \in Threads : pc[t] \in ProducerSection
  /\ consumer_busy <=> \E t \in Threads : pc[t] \in ConsumerSection
  /\ \A t, u \in Threads :
       \/ t = u
       \/ /\ ~(pc[t] \in ProducerSection /\ pc[u] \in ProducerSection)
          /\ ~(pc[t] \in ConsumerSection /\ pc[u] \in ConsumerSection)

(* The occupancy never exceeds the capacity, also across the wrap of the   *)
(* 32-bit tickets, so the code's RFQ_INVARIANT stop is never reached.      *)
OccupancyBounded ==
  /\ Used(head, tail) <= Capacity
  /\ reason # "INVARIANT"

(* The queue's structure, the types of the atomics and of every thread's   *)
(* registers included: what each access to struct rfq_queue relies on.     *)
QueueSafe == TypeOK /\ GuardsExact /\ OccupancyBounded

(* What the worker pops is the exact contiguous sample stream of the       *)
(* session: no frame lost, repeated, reordered, torn or already wiped; and *)
(* "the producer's copy and the consumer's copy-out and wipe never meet":  *)
(* no slot is written while it is being read and zeroed.                   *)
DeliveredContiguous ==
  /\ \A i \in 1..Len(delivered) : delivered[i] = first_sample + i - 1
  /\ \A t, u \in Threads :
       pc[t] = "push_write" /\ pc[u] = "pop_copy" =>
         SlotOf(reg[t].head) # SlotOf(reg[u].tail)

(* A stop lets at most one frame in: the one whose push had already been   *)
(* admitted when the stop was latched.                                     *)
StopAdmitsAtMostOne == late <= 1

(* A closed queue holds no audio and accounts for every accepted frame;    *)
(* rfq_get_summary copies a consistent cut: nobody moves the counters      *)
(* while it reads them, though the producer's are not under its guard.     *)
ClosedAccounted ==
  /\ state = "CLOSED" =>
       /\ head = tail
       /\ accepted = consumed + discarded
       /\ consumed = Len(delivered)
       /\ \A i \in Slots : slots[i] = Wiped
  /\ \A t \in Threads : pc[t] = "summary_copy" =>
       /\ state \in {"FENCED", "CLOSED"}
       /\ accepted = consumed + discarded + Used(head, tail)
       /\ next_sample = first_sample + accepted

(* From the first frame pushed to the close, what rfq_pop delivered and    *)
(* close_queue discarded is the stream that was accepted, exactly.         *)
StreamExact == DeliveredContiguous /\ ClosedAccounted

(* Once the fence is up the accepted audio is final, and the reason of the *)
(* stop is the first one latched until the queue has been closed.          *)
FenceIsFinal ==
  [][/\ state = "FENCED" => UNCHANGED <<head, accepted, next_sample>>
     /\ reason # "NONE" /\ state # "CLOSED" => reason' = reason]_vars
===============================================================================
