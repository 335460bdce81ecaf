------------------------------- MODULE OwnedPhy --------------------------------
(***************************************************************************)
(* The physical service under the recording volume: nand_owned_phy.c over  *)
(* the SPI port of nand_owned_phy_nrf.c.  A call is a fixed program of     *)
(* transfers with a check after each; the first that fails makes the       *)
(* service refuse everything until the next reset.  Only a failure that    *)
(* the chip itself reports for an erase or a program is an answer, MEDIA,  *)
(* given once the chip is locked again.                                    *)
(*                                                                         *)
(* The chip is external.  Its status and its registers read back true, but *)
(* a command may be ignored, a page read wrongly, an array operation fail  *)
(* with or without saying so or leave the write latch set, and a transfer  *)
(* break off before or after the chip acted.  Each of these spends one of  *)
(* MaxFaults.                                                              *)
(***************************************************************************)
EXTENDS Naturals, Sequences, TLC

CONSTANTS MaxFaults,   \* bound: failures of the chip, of the bus, of the clock
          MaxResets    \* bound: resets, with or without a loss of power

VARIABLES
  chip,     \* the flash chip, external
  phy,      \* struct nand_owned_phy
  hw,       \* the port's own record of the bus
  call,     \* the call in progress: what is left of it, or its answer
  spent     \* faults and resets so far

vars == <<chip, phy, hw, call, spent>>

(* Three rows stand for all: one below block 1536, and two above it, of    *)
(* which one is in the sample of nand_capacity_probe_block.                *)
SampleRows == {"low", "sample", "high"}

(* recording_extent: the volume's own blocks below 1536, the capacity      *)
(* probe, the whole chip.                                                  *)
Profiles == {"extent", "probe", "full"}

member(p, row) == p = "extent" => row = "low"
mutable(p, row) == member(p, row) /\ (p = "probe" => row = "sample")

S(op, arg) == [op |-> op, reg |-> "none", arg |-> arg]
R(op, reg, value) == [op |-> op, reg |-> reg, arg |-> value]

-----------------------------------------------------------------------------
(* The programs.                                                           *)

flags == S("status", "flags")      \* status() is media_flags and nothing else
baseline == <<flags, R("get", "a0", "locked"), R("get", "b0", "on")>>

(* setting: the register is written, read back, and the status looked at.  *)
setting(reg, value) == <<R("set", reg, value), R("get", reg, value), flags>>

(* The read of a page into the chip's cache and out of it.                 *)
fetch == <<S("load", "row"), S("ready", "read"), S("cache", "row")>>
raw_fetch == setting("b0", "off") \o fetch \o setting("b0", "on")

open_program == <<S("id", "known"), S("ready", "open")>>
read_program(raw) ==
  <<S("admit", "first")>> \o baseline
    \o (IF raw THEN raw_fetch ELSE fetch) \o baseline

protection(row) == IF row = "low" THEN "low open" ELSE "open"

(* mutation, up to the status that tells its outcome.                      *)
mutation(kind, row) ==
  <<S("admit", "first")>> \o baseline \o setting("a0", protection(row))
    \o <<S("admit", "again"), S("wren", "row"), S("status", "armed")>>
    \o (IF kind = "program" THEN <<S("pload", "row")>> ELSE <<>>)
    \o <<S("admit", "again"), S(kind, "row"), S("ready", kind)>>

(* verify_program, verify_erase: a fresh read of the array.  Mutated: of   *)
(* the chip's cache as it is.                                              *)
verify_cached(kind) ==
  <<S("admit", "again"), S("cache", "row"), S("compare", IF kind = "program" THEN "new" ELSE "blank")>>
    \o baseline

verify(kind) ==
  <<S("admit", "again")>> \o
  (IF kind = "program" THEN fetch \o <<S("compare", "new")>> \o baseline
   ELSE raw_fetch \o baseline \o <<S("compare", "blank")>>)

(* ... and after it.  Mutated: a failure the chip reports is answered      *)
(* before the chip is locked again.                                        *)
after_outcome_returning(kind, checked, media, wel) ==
  IF media THEN <<>>
  ELSE (IF wel THEN <<S("wrdi", "row"), flags>> ELSE <<>>)
       \o setting("a0", "locked") \o baseline
       \o (IF checked THEN verify(kind) ELSE <<>>)

after_outcome(kind, checked, media, wel) ==
  (IF wel THEN <<S("wrdi", "row"), flags>> ELSE <<>>)
  \o setting("a0", "locked") \o baseline
  \o (IF checked /\ ~media THEN verify(kind) ELSE <<>>)

-----------------------------------------------------------------------------
(* The chip.                                                               *)

Reset0 == [a0 |-> "locked", b0 |-> "on", wel |-> FALSE, failed |-> {}, busy |-> "no",
           cache |-> "old"]
NewChip == Reset0 @@ [array |-> [r \in SampleRows |-> "old"]]

Writable(c, row) == c.wel /\ (c.a0 = "open" \/ (c.a0 = "low open" /\ row = "low"))

(* What the chip does with a command; an array operation that succeeds     *)
(* clears the write latch and its own failure flag.                        *)
Array(c, row, kind, content, failed, wel) ==
  [c EXCEPT !.busy = "writing", !.array[row] = content, !.wel = wel,
            !.failed = IF failed THEN @ \cup {kind} ELSE @ \ {kind}]
Programmed(c, row) == IF c.array[row] = "blank" THEN c.cache ELSE "torn"
Acts(s, c, row) ==
  CASE s.op = "set"    -> [c EXCEPT ![s.reg] = s.arg]
    [] s.op = "wren"   -> [c EXCEPT !.wel = TRUE]
    [] s.op = "wrdi"   -> [c EXCEPT !.wel = FALSE]
    [] s.op = "load"   -> [c EXCEPT !.busy = "reading", !.cache = c.array[row]]
    [] s.op = "pload"  -> [c EXCEPT !.cache = "new"]
    [] s.op = "program" /\ Writable(c, row) ->
         Array(c, row, "program", Programmed(c, row), FALSE, FALSE)
    [] s.op = "erase" /\ Writable(c, row) -> Array(c, row, "erase", "blank", FALSE, FALSE)
    [] OTHER -> c

(* What it may do instead.                                                 *)
Misacts(s, c, row) ==
  CASE s.op = "load" -> {[c EXCEPT !.busy = "reading", !.cache = "unreadable"]}
    [] s.op \in {"program", "erase"} /\ Writable(c, row) ->
         {Array(c, row, s.op, "torn", f, w) : f, w \in BOOLEAN}
           \cup {[Acts(s, c, row) EXCEPT !.wel = TRUE]}
    [] OTHER -> {c}

-----------------------------------------------------------------------------
(* The service.                                                            *)

NoPhy(p) == [opened |-> FALSE, fault |-> FALSE, media |-> {}, profile |-> p]
NoBus == [lease |-> FALSE, opened |-> FALSE, stopped |-> TRUE, fault |-> FALSE,
          ever_opened |-> FALSE]
NoCall == [op |-> "none", row |-> "low", checked |-> FALSE, todo |-> <<>>,
           value |-> "none", answer |-> "none"]

Init ==
  /\ chip = NewChip /\ hw = NoBus /\ call = NoCall
  /\ phy \in {NoPhy(p) : p \in Profiles}
  /\ spent = [faults |-> 0, resets |-> 0]

Free == call.todo = <<>>
Spend == /\ spent.faults < MaxFaults
         /\ spent' = [spent EXCEPT !.faults = @ + 1]

(* failed(): sticky; the lease and the buffers stay with the service.      *)
Failed == /\ phy' = [phy EXCEPT !.fault = TRUE]
          /\ call' = [call EXCEPT !.todo = <<>>, !.answer = "fault"]

Answered(answer) == call' = [call EXCEPT !.todo = <<>>, !.answer = answer]
Continue(rest) ==
  call' = [call EXCEPT !.todo = rest, !.answer = IF rest = <<>> /\ @ = "none" THEN "ok" ELSE @]

(* lock: one call at a time, none after a fault.                           *)
Call(op, row, checked, todo) ==
  /\ Free /\ ~phy.fault
  /\ call' = [op |-> op, row |-> row, checked |-> checked, todo |-> todo,
              value |-> "none", answer |-> "none"]

(* nand_owned_phy_open and open_bus: the lease is acquired first, and kept *)
(* if the bus is not as it must be or the open took too long.              *)
Open ==
  /\ ~phy.opened /\ Call("open", "low", FALSE, open_program)
  /\ hw' = [lease |-> TRUE, opened |-> TRUE, stopped |-> TRUE, fault |-> FALSE,
            ever_opened |-> TRUE]
  /\ phy' = [phy EXCEPT !.opened = TRUE]
  /\ UNCHANGED <<chip, spent>>

OpenFails ==
  /\ ~phy.opened /\ Free /\ ~phy.fault /\ Spend
  /\ \/ UNCHANGED hw
     \/ hw' = [hw EXCEPT !.lease = TRUE, !.fault = TRUE]
     \/ hw' = [hw EXCEPT !.lease = TRUE, !.opened = TRUE, !.ever_opened = TRUE]
  /\ phy' = [phy EXCEPT !.fault = TRUE]
  /\ call' = [NoCall EXCEPT !.op = "open", !.answer = "fault"]
  /\ UNCHANGED chip

Read(row, raw) ==
  /\ phy.opened /\ Call("read", row, FALSE, read_program(raw))
  /\ UNCHANGED <<chip, phy, hw, spent>>

Mutate(kind, row, checked) ==
  /\ phy.opened /\ Call(kind, row, checked, mutation(kind, row))
  /\ UNCHANGED <<chip, phy, hw, spent>>

Close ==
  /\ phy.opened /\ Call("close", "low", FALSE, Append(baseline, S("close", "bus")))
  /\ UNCHANGED <<chip, phy, hw, spent>>

(* close_bus and the owner's release; a close that fails, or is late with  *)
(* the bus already given back, leaves the service with a fault.            *)
CloseBus ==
  /\ ~Free /\ Head(call.todo).op = "close"
  /\ \/ /\ hw' = [hw EXCEPT !.lease = FALSE, !.opened = FALSE]
        /\ phy' = [phy EXCEPT !.opened = FALSE]
        /\ Continue(<<>>) /\ UNCHANGED spent
     \/ /\ hw' \in {[hw EXCEPT !.fault = TRUE], [hw EXCEPT !.lease = FALSE, !.opened = FALSE]}
        /\ Failed /\ Spend
  /\ UNCHANGED chip

(* admit: the row is in the service's scope, or it faults; the owner's     *)
(* refusal is an answer before anything was done, and a fault later.       *)
Admissible == IF call.op = "read" THEN member(phy.profile, call.row)
              ELSE mutable(phy.profile, call.row)
Admit ==
  /\ ~Free /\ Head(call.todo).op = "admit"
  /\ \/ Admissible /\ Continue(Tail(call.todo)) /\ UNCHANGED <<phy, spent>>
     \/ ~Admissible /\ Failed /\ UNCHANGED spent
     \/ /\ Admissible /\ Spend
        /\ IF Head(call.todo).arg = "first" THEN Answered("denied") /\ UNCHANGED phy ELSE Failed
  /\ UNCHANGED <<chip, hw>>

(* The answer the service insists on.                                      *)
Wanted(s, c) ==
  CASE s.op = "status" /\ s.arg = "flags" -> c.busy = "no" /\ ~c.wel /\ c.failed = phy.media
    [] s.op = "status" /\ s.arg = "armed" -> c.busy = "no" /\ c.wel /\ c.failed = phy.media
    [] s.op = "get" -> c[s.reg] = s.arg
    [] OTHER -> TRUE

(* transfer and exchange_inner, complete.                                  *)
Transfer ==
  /\ ~Free /\ Head(call.todo).op \notin {"admit", "ready", "close", "compare"}
  /\ LET s == Head(call.todo)
     IN /\ \/ chip' = Acts(s, chip, call.row) /\ UNCHANGED spent
           \/ chip' \in Misacts(s, chip, call.row) /\ chip' # Acts(s, chip, call.row) /\ Spend
        /\ IF ~Wanted(s, chip') THEN Failed
           ELSE /\ call' = [call EXCEPT !.todo = Tail(@),
                              !.value = IF s.op = "cache" THEN chip.cache ELSE @,
                              !.answer = IF Tail(call.todo) = <<>> /\ @ = "none"
                                         THEN "ok" ELSE @]
                /\ UNCHANGED phy
  /\ UNCHANGED hw

(* What was read is what was to be written.                                *)
Compare ==
  /\ ~Free /\ Head(call.todo).op = "compare"
  /\ IF call.value = Head(call.todo).arg THEN Continue(Tail(call.todo)) /\ UNCHANGED phy
     ELSE Failed
  /\ UNCHANGED <<chip, hw, spent>>

(* guard: the deadline has passed, before the next step.                   *)
Expire ==
  /\ ~Free /\ Spend /\ Failed
  /\ UNCHANGED <<chip, hw>>

(* A transfer that does not complete: all or a part of it was clocked and  *)
(* the DMA has stopped; or it cannot be shown to have.                     *)
TransferFails ==
  /\ ~Free /\ Head(call.todo).op \notin {"admit", "close", "compare"} /\ Spend /\ Failed
  /\ chip' \in {chip, Acts(Head(call.todo), chip, call.row)}
  /\ \E stopped \in BOOLEAN : hw' = [hw EXCEPT !.stopped = stopped, !.fault = TRUE]

(* ready: polled until the chip is, and what its status then decides.      *)
Observed(s) ==
  LET media == s.arg \in chip.failed
  IN CASE s.arg = "open" ->
            /\ phy' = [phy EXCEPT !.media = chip.failed]
            /\ Continue((IF chip.wel THEN <<S("wrdi", "row"), S("status", "any")>> ELSE <<>>)
                        \o baseline)
       [] s.arg = "read" ->
            IF chip.wel \/ chip.failed # phy.media THEN Failed
            ELSE Continue(Tail(call.todo)) /\ UNCHANGED phy
       [] OTHER ->
            IF \/ chip.failed \ {s.arg} # phy.media \ {s.arg}
               \/ chip.wel /\ ~media /\ ~call.checked
            THEN Failed
            ELSE LET rest == after_outcome(call.op, call.checked, media, chip.wel)
                 IN /\ phy' = [phy EXCEPT !.media = chip.failed]
                    /\ call' = [call EXCEPT !.todo = rest,
                                            !.answer = IF media THEN "media" ELSE "none"]
Ready ==
  /\ ~Free /\ Head(call.todo).op = "ready"
  /\ chip' = [chip EXCEPT !.busy = "no"]
  /\ Observed(Head(call.todo))
  /\ UNCHANGED <<hw, spent>>

(* A reset.  The chip keeps its registers and ends what it is at, unless   *)
(* the power was lost with it.                                             *)
Restart ==
  /\ spent.resets < MaxResets /\ spent' = [spent EXCEPT !.resets = @ + 1]
  /\ phy' = NoPhy(phy.profile)
  /\ hw' = NoBus /\ call' = NoCall
  /\ \/ chip' = [chip EXCEPT !.busy = "no"]
     \/ chip' = Reset0 @@ [array |-> IF chip.busy = "writing" THEN [chip.array EXCEPT ![call.row] = "torn"]
                                     ELSE chip.array]

Next ==
  \/ Open \/ OpenFails \/ Close \/ CloseBus \/ Admit \/ Transfer \/ TransferFails \/ Ready
  \/ Compare \/ Expire
  \/ \E row \in SampleRows :
       \/ \E raw \in BOOLEAN : Read(row, raw)
       \/ \E kind \in {"program", "erase"}, checked \in BOOLEAN : Mutate(kind, row, checked)
  \/ Restart

Spec == Init /\ [][Next]_vars

-----------------------------------------------------------------------------
(* Properties.                                                             *)

Resting(c) == c.a0 = "locked" /\ c.b0 = "on" /\ ~c.wel /\ c.busy = "no"

(* Between two calls, whatever the last one answered (a failure the chip   *)
(* reported and a refusal included), the chip is locked, its ECC is on,    *)
(* the write latch is clear, the remembered failure flags are the chip's   *)
(* and the bus is stopped; so it is whenever the bus has been given back,  *)
(* for a service with a fault too: mutation, read_page and                 *)
(* nand_owned_phy_close leave no other way out.  A row outside the         *)
(* service's scope is never changed, protected or not.                     *)
AtRest ==
  /\ Free /\ phy.opened /\ ~phy.fault =>
       Resting(chip) /\ chip.failed = phy.media /\ hw.stopped /\ hw.lease
  /\ ~hw.lease /\ hw.ever_opened => Resting(chip)
  /\ \A r \in SampleRows : chip.array[r] # "old" => mutable(phy.profile, r)

(* An answer is the truth about the array: a checked erase or program that *)
(* is answered OK did what it says even when the chip lied about it, MEDIA *)
(* comes from the chip's own flag, and a read gives what is on the page    *)
(* unless its ECC says it cannot.                                          *)
Honest ==
  LET c == call IN
  /\ Free /\ c.answer = "ok" =>
       CASE c.op = "read" -> c.value \in {chip.array[c.row], "unreadable"}
         [] c.op = "erase" /\ c.checked -> chip.array[c.row] = "blank"
         [] c.op = "program" /\ c.checked -> chip.array[c.row] = "new"
         [] OTHER -> TRUE
  /\ Free /\ c.answer = "media" => c.op \in chip.failed
================================================================================
