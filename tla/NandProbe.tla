------------------------------ MODULE NandProbe ------------------------------
(***************************************************************************)
(* The one-shot NAND diagnostics driver, nand_id.c with nand_qualify.inc:  *)
(* one admission, one fixed program of SPI transfers against the flash     *)
(* chip, one restoration of the chip's registers, one cleanup.  Every job  *)
(* (id, features, page0, marker, backup, qualify) is a sequence of steps;  *)
(* a step is one START of the SPI peripheral, or a frame to the host.      *)
(*                                                                         *)
(* The chip is external.  What it answers is the truth about its           *)
(* registers, but a command that was clocked out may be ignored, an erase  *)
(* may fail, and a transfer that breaks off may or may not have acted.     *)
(* Each of those, and each failing transfer, spends one of MaxFaults.      *)
(***************************************************************************)
EXTENDS Naturals, SequencesExt

CONSTANTS Rows,       \* rows of a block (64 in the code)
          Polls,      \* status polls allowed after a page load (8 in the code)
          Selects,    \* chip-select lines the id job tries (4 in the code)
          MaxFaults   \* failures of the chip or of the bus in a behaviour

ASSUME BoundsAssumption == /\ Rows \in Nat \ {0} /\ Polls \in Nat \ {0}
                           /\ Selects \in Nat \ {0, 1} /\ MaxFaults \in Nat

VARIABLES chip,    \* the flash chip, external
          drv,     \* the driver's atomics
          run,     \* the job in progress: its result record and its position
          faults   \* failures so far

-----------------------------------------------------------------------------
(* A step of a program: the operation, and what its answer must be. *)

S(op, want) == [op |-> op, want |-> want]

Three == <<S("id", "known"), S("id", "known"), S("id", "known")>>

\* nand_feature_program: identity three times, then the three registers.
FeatureProgram == Three \o <<S("status", "not busy"), S("b0", "any"), S("status", "same")>>

\* nand_page0_prefix, the ready polls, nand_page0_suffix.
Page0Program ==
    Three \o <<S("status", "clear"), S("b0", "on"), S("status", "clear"), S("load", "any"),
               S("ready", "corrected"), S("cache", "any"), S("status", "same"),
               S("cache", "again"), S("status", "same"), S("b0", "on"), S("status", "same")>>

\* nand_marker_prefix: checks, then ECC off, confirmed.  The backup also
\* insists that the protection register is the locked one.
MarkerPrefix(lock) ==
    Three \o <<S("status", "clear"), S("a0", lock), S("b0", "on"), S("status", "clear"),
               S("off", "any"), S("b0", "off"), S("status", "idle")>>

\* nand_marker_first and nand_marker_second with their ready polls.
MarkerRow == <<S("load", "any"), S("ready", "raw"), S("cache", "any"), S("status", "idle"),
               S("load", "any"), S("ready", "raw"), S("cache", "again"), S("status", "idle"),
               S("b0", "off")>>

MarkerProgram == MarkerPrefix("any") \o MarkerRow

\* block1024_run: the prefix, the BEGIN frame, and every row read twice and sent.
BackupProgram ==
    MarkerPrefix("locked") \o <<S("begin", "any")>>
      \o FlattenSeq([n \in 1..Rows |-> Append(MarkerRow, S("page", "any"))])

E(n) == <<S("event", n)>>

\* qualify_run.  Its two scans read the one row of interest of the 64.
QualifyProgram ==
    LET read(ready, end, b0) == <<S("load", "any"), S("ready", ready), S("cache", "any"),
                                  S("status", end), S("b0", b0)>>
    IN  MarkerPrefix("locked") \o E("preimage") \o MarkerRow \o <<S("compare", "preimage")>>
          \o E("protection") \o <<S("status", "idle"), S("unlock", "any"), S("a0", "open")>>
          \o E("erase") \o <<S("status", "idle")>> \o E("before erase wren")
          \o <<S("wren", "any"), S("status", "armed")>> \o E("before erase")
          \o <<S("erase", "any"), S("ready", "erase")>> \o E("after erase")
          \o E("blank") \o read("raw", "idle", "off") \o <<S("compare", "blank")>>
          \o E("ecc on") \o <<S("status", "idle"), S("on", "any"), S("b0", "on")>>
          \o E("program") \o <<S("status", "idle")>> \o E("before program wren")
          \o <<S("wren", "any"), S("status", "armed")>> \o E("before program load")
          \o <<S("pload", "any"), S("status", "armed")>> \o E("before program")
          \o <<S("exec", "any"), S("ready", "program")>> \o E("after program")
          \o E("verify") \o read("exact", "clear", "on") \o <<S("compare", "pattern")>>
          \o E("marker") \o <<S("status", "idle"), S("off", "any"), S("b0", "off")>>
          \o read("raw", "idle", "off") \o <<S("compare", "marker")>>

\* The id job asks each chip-select line three times; a blank line is passed over.
IdProgram == [n \in 1..(3 * Selects) |-> S("id", "scan")]

Program == [id       |-> IdProgram,
            features |-> FeatureProgram, page0  |-> Page0Program, marker |-> MarkerProgram,
            backup   |-> BackupProgram,  qualify |-> QualifyProgram]

Kinds == DOMAIN Program
Wired == {"backup", "qualify"}         \* jobs that report to a host program
Restoring == {"marker", "backup", "qualify"}
Frames == {"event", "begin", "page"}   \* steps that are frames, not transfers

-----------------------------------------------------------------------------
(* The chip. *)

Statuses == {"oip", "crbsy", "wel", "fail", "fixed", "bad"}
Busy(v) == v \cap {"oip", "crbsy"} # {}

Status(c) == (IF c.busy = "no" THEN {} ELSE {c.busy}) \cup (IF c.wel THEN {"wel"} ELSE {})
               \cup (IF c.fail THEN {"fail"} ELSE {}) \cup (IF c.ecc = "none" THEN {} ELSE {c.ecc})

\* What the chip may have become once a command was clocked out whole.  An
\* erase or a program needs the write latch and an open block, and clears the
\* latch when it succeeds.
Acts(op, c) ==
    CASE op = "off"    -> {[c EXCEPT !.b0 = "off"]}
      [] op = "on"     -> {[c EXCEPT !.b0 = "on"]}
      [] op = "unlock" -> {[c EXCEPT !.a0 = "open"]}
      [] op = "lock"   -> {[c EXCEPT !.a0 = "locked"]}
      [] op = "wren"   -> {[c EXCEPT !.wel = TRUE]}
      [] op = "wrdi"   -> {[c EXCEPT !.wel = FALSE]}
      [] op = "load"   -> {[c EXCEPT !.busy = "oip", !.cache = c.array, !.ecc = "none"]}
      [] op = "pload"  -> {[c EXCEPT !.cache = "written"]}
      [] op = "erase"  -> IF c.wel /\ c.a0 = "open"
                          THEN {[c EXCEPT !.busy = "oip", !.array = "erased", !.wel = FALSE]}
                          ELSE {[c EXCEPT !.fail = TRUE]}
      [] op = "exec"   -> IF c.wel /\ c.a0 = "open" /\ c.array = "erased"
                          THEN {[c EXCEPT !.busy = "oip", !.array = c.cache, !.wel = FALSE]}
                          ELSE {[c EXCEPT !.fail = TRUE]}
      [] OTHER         -> {c}

\* What may go wrong in the chip instead: it ignores the command, it reads
\* with bit errors, its array operation fails and leaves the block torn.  Once
\* a job works on it, it may stay busy.
Misacts(op, c) ==
    CASE op = "load"             -> {[d EXCEPT !.ecc = e] : d \in Acts(op, c), e \in {"fixed", "bad"}}
      [] op \in {"erase", "exec"} -> {[c EXCEPT !.busy = "oip", !.fail = TRUE, !.array = a] :
                                       a \in {c.array, "torn"}}
      [] OTHER                   -> {c}

\* The answer of a complete transfer: <<value, chip>>.  A busy chip may finish
\* between two reads of its status.
Answers(op, c) ==
    CASE op = "id"    -> {<<IF run.kind = "id" /\ (run.pc - 1) \div 3 # 1 THEN "blank" ELSE "known", c>>}
      [] op = "a0"    -> {<<c.a0, c>>}
      [] op = "b0"    -> {<<c.b0, c>>}
      [] op \in {"status", "ready"} ->
            {<<Status(d), d>> : d \in {c} \cup {[c EXCEPT !.busy = "no"]}}
      [] op = "cache" -> {<<c.cache, c>>}
      [] OTHER        -> {<<"none", d>> : d \in Acts(op, c)}

Misanswers(op, c) ==
    CASE op = "id"    -> {<<"other", c>>}
      [] op = "cache" -> {<<"torn", c>>}
      [] op \in {"status", "ready"} /\ (run.pc > 7 \/ run.stage = "restore") ->
            {<<Status(d), d>> : d \in {[c EXCEPT !.busy = "crbsy"]}}
      [] op \in {"status", "ready", "a0", "b0"} -> {}
      [] OTHER        -> {<<"none", d>> : d \in Misacts(op, c)}

-----------------------------------------------------------------------------
(* The SPI transfer. *)

\* atomics before the first job
IdleDriver == [attempted |-> FALSE, busy |-> FALSE, fault |-> FALSE, stopped |-> TRUE,
               released |-> TRUE, pins |-> FALSE, cs |-> FALSE, aux |-> FALSE,
               scrubbed |-> TRUE, dma |-> FALSE, touched |-> FALSE]

\* qualify_safe, block1024_data_safe and the guard of marker_restore_config.
Safe == drv.stopped /\ ~drv.fault /\ drv.cs /\ drv.aux /\ ~run.unknown

\* qualify_allowed: which transfer the recorded state of the job permits.
qualify_allowed(op) ==
    CASE op \in {"id", "status", "ready", "a0", "b0"} -> run.stage = "restore" => Safe
      [] run.stage = "restore" ->
            /\ Safe
            /\ \/ op = "wrdi" /\ run.wel = "set"
               \/ op = "lock" /\ run.wel = "clear" /\ run.open
               \/ op = "on" /\ run.wel = "clear" /\ run.off
      [] op = "off"    -> run.b0 = "on" /\ (run.off => "verified" \in run.got)
      [] op = "on"     -> {"erased", "blank"} \subseteq run.got /\ run.b0 = "off"
      [] op = "unlock" -> "preimage" \in run.got /\ ~run.open /\ run.a0 = "locked" /\ run.wel = "clear"
      [] op = "wren"   -> run.a0 = "open" /\ run.wel = "clear" /\ "preimage" \in run.got
      [] op = "erase"  -> run.wel = "set" /\ run.a0 = "open" /\ "preimage" \in run.got
                            /\ "erase" \notin run.got
      [] op \in {"pload", "exec"} -> run.wel = "set" /\ run.a0 = "open" /\ run.b0 = "on"
                            /\ {"erased", "blank"} \subseteq run.got /\ "exec" \notin run.got
      [] OTHER -> ~run.unknown

\* The ways transfer_fixed can end, as records: did the peripheral START, is
\* the result valid, what was read.  A transfer that never STOPs leaves the
\* buffers with the hardware; one that stops short may or may not have acted.
Transfer(started, ok, val, c, d, cost) ==
    [started |-> started, ok |-> ok, val |-> val, chip |-> c, drv |-> d, cost |-> cost]

transfer_fixed(op, admitted) ==
    LET idle == [drv EXCEPT !.cs = TRUE]
        live == IF op \in {"cache", "pload"} THEN [idle EXCEPT !.scrubbed = FALSE] ELSE idle
        acted == {a[2] : a \in Answers(op, chip)} \cup {chip}
        refused == ~drv.stopped \/ (run.kind = "qualify" /\ ~qualify_allowed(op))
    IN  IF refused THEN {Transfer(FALSE, FALSE, "none", chip, drv, 0)}
        ELSE IF ~admitted THEN {Transfer(FALSE, FALSE, "none", chip, idle, 0)}
        ELSE {Transfer(FALSE, FALSE, "none", chip, idle, 1),
              Transfer(FALSE, FALSE, "none", chip, [drv EXCEPT !.fault = TRUE, !.aux = FALSE], 1)}
          \cup {Transfer(TRUE, TRUE, a[1], a[2], live, 0) : a \in Answers(op, chip)}
          \cup {Transfer(TRUE, TRUE, a[1], a[2], live, 1) : a \in Misanswers(op, chip)}
          \cup {Transfer(TRUE, FALSE, "none", c, live, 1) : c \in acted}
          \cup {Transfer(TRUE, FALSE, "none", c,
                         [live EXCEPT !.fault = TRUE, !.stopped = FALSE, !.dma = TRUE], 1) : c \in acted}

\* What a START makes uncertain, whatever becomes of the transfer.
Unsettled(op) ==
    [run EXCEPT !.open = @ \/ op = "unlock",
                !.wren = @ \/ op = "wren",
                !.unknown = @ \/ op \in {"load", "erase", "exec"},
                !.b0 = IF op \in {"on", "off"} THEN "invalid" ELSE @,
                !.a0 = IF op \in {"lock", "unlock"} THEN "invalid" ELSE @,
                !.wel = IF op \in {"wren", "wrdi", "erase", "exec"} THEN "invalid" ELSE @,
                !.got = @ \cup ({op} \cap {"erase", "exec"})]

\* Mutant of Obligations: only an ECC write that succeeded must be undone.
ObligationsOnSuccess(op, x) ==
    IF x.started THEN [Unsettled(op) EXCEPT !.off = @ \/ (op = "off" /\ x.ok)] ELSE run

\* marker_step and qualify_step after a transfer: its START, not its success,
\* creates the obligation to restore.
Obligations(op, x) ==
    IF x.started THEN [Unsettled(op) EXCEPT !.off = @ \/ op = "off"] ELSE run

\* ... and what a successful read teaches.
Learned(r, st, v) ==
    [r EXCEPT !.a0 = IF st.op = "a0" THEN v ELSE @,
              !.b0 = IF st.op = "b0" THEN v ELSE @,
              !.wel = IF st.op \notin {"status", "ready"} THEN @
                      ELSE IF "wel" \in v THEN "set" ELSE "clear",
              !.buf = IF st.op = "cache" THEN v ELSE @,
              !.same = IF st.op = "cache" THEN (st.want = "again" => v = r.buf) ELSE @,
              !.last = IF st.op = "ready" \/ st.want = "not busy" THEN v ELSE @,
              !.lock = IF st.op = "a0" /\ st.want # "open" THEN v ELSE @]

\* expected and blank, in the id scan: three equal answers on one line.
ScanVerdict(v) ==
    CASE v = "known" /\ run.pc % 3 = 0 -> "done"
      [] v = "known"                   -> "next"
      [] v = "blank" /\ run.pc % 3 = 1 /\ run.pc + 3 <= 3 * Selects -> "skip"
      [] OTHER                         -> "fail"

\* marker_ready, qualify_ready and the polls of page0_run.
ReadyVerdict(want, v) ==
    CASE "crbsy" \in v -> "fail"
      [] want \in {"raw", "corrected"} /\ v \cap {"wel", "fail"} # {} -> "fail"
      [] "oip" \in v   -> IF run.polls + 1 < Polls THEN "again" ELSE "fail"
      [] v \cap {"wel", "fail"} # {}  -> "fail"
      [] want = "corrected" /\ "bad" \in v -> "fail"
      [] want = "exact" /\ v \cap {"bad", "fixed"} # {} -> "fail"
      [] OTHER         -> "next"

\* What a register read must be for the job to go on.
ReadVerdict(st, v) ==
    LET flags == v \cap {"oip", "crbsy", "wel", "fail"}
        good == CASE st.want = "any"      -> TRUE
                  [] st.want = "clear"    -> v = {}
                  [] st.want = "idle"     -> flags = {}
                  [] st.want = "armed"    -> flags = {"wel"}
                  [] st.want = "not busy" -> "oip" \notin v
                  [] st.want = "same"     -> v = run.last
                  [] st.want = "lock"     -> v = run.lock
                  [] OTHER                -> st.op = "cache" \/ v = st.want
    IN  IF good THEN "next" ELSE "fail"

Verdict(st, v) ==
    CASE st.want = "scan" -> ScanVerdict(v)
      [] st.op = "ready"  -> ReadyVerdict(st.want, v)
      [] OTHER            -> ReadVerdict(st, v)

\* ready_unknown: settled by a ready poll, raised again by a busy status.
Settled(r, st, v) ==
    CASE st.op = "ready" /\ ~Busy(v) -> [r EXCEPT !.unknown = FALSE]
      [] st.op = "status" /\ Busy(v) /\ (run.kind = "qualify" \/ st.want \in {"idle", "same"})
                             /\ run.kind # "features" -> [r EXCEPT !.unknown = TRUE]
      [] OTHER -> r

\* the first failure stands; the chip is restored before anything is released
Failed(r) == [r EXCEPT !.primary = IF @ = "none" THEN "error" ELSE @, !.stage = "restore", !.pc = 0]

Completed(r) == [r EXCEPT !.primary = IF r.kind = "qualify" THEN @ ELSE "verified",
                          !.stage = "restore", !.pc = 0]

Advanced(r, n) == IF r.pc + n > Len(Program[r.kind]) THEN Completed(r)
                  ELSE [r EXCEPT !.pc = @ + n, !.polls = 0]

\* page0_step, marker_data_step, qualify_step: the transfer and its judgement.
After(st, x) ==
    LET o == Obligations(st.op, x)
        l == Settled(Learned(o, st, x.val), st, x.val)
        m == [l EXCEPT !.got = @ \cup (CASE st.want = "erase" -> {"erased"}
                                         [] st.want = "program" -> {"written"}
                                         [] OTHER -> {})]
    IN  IF ~x.ok THEN Failed(o)
        ELSE CASE Verdict(st, x.val) = "next"  -> Advanced(IF st.op = "ready" THEN m ELSE l, 1)
               [] Verdict(st, x.val) = "done"  -> Completed(l)
               [] Verdict(st, x.val) = "skip"  -> Advanced(l, 3)
               [] Verdict(st, x.val) = "again" -> [l EXCEPT !.polls = @ + 1]
               [] Verdict(st, x.val) = "fail"  -> Failed(l)

Spend(cost) == faults + cost <= MaxFaults /\ faults' = faults + cost

Take(op, admitted, Then(_)) ==
    \E x \in transfer_fixed(op, admitted) :
       Spend(x.cost) /\ chip' = x.chip /\ drv' = x.drv /\ run' = Then(x)

\* The step the program is at.
Current == Program[run.kind][run.pc]

\* One transfer of the program, when the observer admits its START.
Step(admitted) ==
    /\ run.stage = "run" /\ Current.op \notin Frames \cup {"compare"}
    /\ Take(Current.op, admitted /\ ~run.late, LAMBDA x : After(Current, x))

\* block1024_wipe, qualify_wipe: only once the hardware gave the buffers back.
Wiped(d) == IF d.stopped THEN [d EXCEPT !.scrubbed = TRUE, !.touched = @ \/ d.dma] ELSE d

\* Mutant of Matches: two equal copies are taken for the preserved image.
MatchesItself(want) == run.same

\* The rows against the image preserved on the host, the blank pattern or the
\* programmed one; the comparison with the digests is exact.
Matches(want) == run.same /\ run.buf = CASE want = "preimage" -> "old" [] want = "blank" -> "erased"
                                         [] OTHER -> "written"

\* qualify_preimage and qualify_scan judge the rows they have read.
Compare ==
    /\ run.stage = "run" /\ Current.op = "compare"
    /\ LET want == Current.want
           good == Safe /\ ~run.late /\ Matches(want)
           mark == IF want = "pattern" THEN "verified" ELSE want
       IN  run' = IF good THEN Advanced([run EXCEPT !.got = @ \cup {mark}, !.buf = "none"], 1)
                  ELSE Failed(run)
    /\ drv' = Wiped(drv)
    /\ UNCHANGED <<chip, faults>>

-----------------------------------------------------------------------------
(* Restoration. *)

MarkerRestore == <<S("status", "idle"), S("on", "any"), S("b0", "on"), S("a0", "lock"),
                   S("status", "idle")>>

Skip(restored) == [run EXCEPT !.stage = "finish", !.restored = restored]

\* One attempt, on its own time allowance; unsafe means it is not tried.
marker_restore_config ==
    /\ run.stage = "restore" /\ run.kind \in {"marker", "backup"}
    /\ IF run.pc = 0
       THEN /\ run' = IF run.off /\ Safe THEN [run EXCEPT !.pc = 1] ELSE Skip(~run.off)
            /\ UNCHANGED <<chip, drv, faults>>
       ELSE LET st == MarkerRestore[run.pc]
                after(x) ==
                  LET l == Settled(Learned(Obligations(st.op, x), st, x.val), st, x.val)
                  IN  CASE ~x.ok \/ ReadVerdict(st, x.val) = "fail" ->
                             [IF x.ok THEN l ELSE Obligations(st.op, x) EXCEPT !.stage = "finish"]
                        [] run.pc < Len(MarkerRestore) -> [l EXCEPT !.pc = @ + 1]
                        [] OTHER -> [l EXCEPT !.stage = "finish", !.restored = TRUE]
            IN  Take(st.op, TRUE, after)

\* Disarm the write latch, lock, read, ECC on, read, final status: each goes
\* on after a failed readback as long as the chip is known to be idle.
QualifyRestore == <<"status", "wrdi", "status", "lock", "a0", "on", "b0", "status">>

qualify_restore ==
    /\ run.stage = "restore" /\ run.kind = "qualify"
    /\ LET pc == run.pc
           op == QualifyRestore[pc]
           wanted == CASE pc = 4 -> run.open [] pc = 6 -> run.off /\ Safe
                       [] pc \in {5, 7, 8} -> Safe [] OTHER -> TRUE
           idle(x) == x.ok /\ ~Busy(x.val) /\ (pc = 1 \/ "wel" \notin x.val)
           sum(r, good) == r.restored /\ good
           after(x) ==
             LET l == Learned(Obligations(op, x), S(op, "open"), x.val)
                 k == IF x.ok THEN l ELSE Obligations(op, x)
                 u == IF op = "status" /\ pc # 3 /\ x.ok /\ Busy(x.val)
                      THEN [k EXCEPT !.unknown = TRUE] ELSE k
             IN  CASE pc \in {1, 3} /\ ~idle(x) -> [u EXCEPT !.stage = "finish", !.restored = FALSE]
                   [] pc = 2 /\ ~x.ok -> [u EXCEPT !.stage = "finish", !.restored = FALSE]
                   [] pc = 1 -> [u EXCEPT !.pc = IF "wel" \in x.val THEN 2 ELSE 4]
                   [] pc = 5 -> [u EXCEPT !.pc = 6, !.restored = sum(run, ~run.open \/ (x.ok /\ x.val = "locked"))]
                   [] pc = 7 -> [u EXCEPT !.pc = 8, !.restored = sum(run, ~run.off \/ (x.ok /\ x.val = "on"))]
                   [] pc = 8 -> [u EXCEPT !.stage = "finish", !.restored = sum(run, idle(x))]
                   [] OTHER  -> [u EXCEPT !.pc = @ + 1, !.restored = IF pc = 3 THEN @ ELSE sum(run, x.ok)]
           skipped == CASE pc = 8 -> [run EXCEPT !.stage = "finish", !.restored = FALSE]
                        [] OTHER  -> [run EXCEPT !.pc = @ + 1,
                              !.restored = sum(run, CASE pc = 4 -> TRUE [] pc = 5 -> ~run.open
                                                      [] OTHER -> ~run.off)]
       IN  IF pc = 0
           THEN /\ run' = IF ~run.off /\ ~run.open /\ ~run.wren THEN Skip(TRUE)
                          ELSE IF ~Safe THEN Skip(FALSE)
                          ELSE [run EXCEPT !.pc = 1, !.restored = TRUE]
                /\ UNCHANGED <<chip, drv, faults>>
           ELSE IF wanted THEN Take(op, TRUE, after)
           ELSE run' = skipped /\ UNCHANGED <<chip, drv, faults>>

\* The read-only jobs have nothing to restore.
NothingToRestore ==
    /\ run.stage = "restore" /\ run.kind \notin Restoring
    /\ run' = Skip(TRUE) /\ UNCHANGED <<chip, drv, faults>>

-----------------------------------------------------------------------------
(* Admission, setup, cleanup. *)

Idle == [kind |-> "none", stage |-> "idle", pc |-> 0, polls |-> 0, late |-> FALSE,
         off |-> FALSE, open |-> FALSE, wren |-> FALSE, unknown |-> FALSE,
         a0 |-> "invalid", b0 |-> "invalid", wel |-> "invalid", lock |-> "none", last |-> {},
         primary |-> "none", restored |-> FALSE, outcome |-> "none", buf |-> "none",
         same |-> TRUE, got |-> {}, entry |-> <<>>]

\* probe up to the point where the hardware is taken.  A peripheral somebody
\* else uses is left alone, and no later job may try.
ProbeAdmit ==
    /\ run.stage = "admit"
    /\ \/ /\ drv.attempted \/ drv.fault
          /\ run' = [run EXCEPT !.stage = "done", !.outcome = "refused"]
          /\ UNCHANGED <<chip, drv, faults>>
       \/ /\ ~drv.attempted /\ ~drv.fault
          /\ drv' = [drv EXCEPT !.busy = TRUE, !.attempted = TRUE, !.cs = TRUE]
          /\ run' = [run EXCEPT !.stage = "setup", !.entry = <<chip.a0, chip.b0, chip.wel, chip.busy>>]
          /\ UNCHANGED <<chip, faults>>
       \/ /\ ~drv.attempted /\ ~drv.fault
          /\ Spend(1)
          /\ drv' \in {[drv EXCEPT !.fault = TRUE, !.stopped = FALSE, !.released = FALSE],
                       [drv EXCEPT !.fault = TRUE, !.attempted = TRUE]}
          /\ run' = [run EXCEPT !.stage = "done", !.outcome = "error"]
          /\ UNCHANGED chip

\* probe: chip selects high before they drive, the auxiliary line high, then
\* the bus.  Any readback that disagrees is a fault.
ProbeSetup ==
    /\ run.stage = "setup"
    /\ \/ /\ drv' = [drv EXCEPT !.pins = TRUE, !.aux = TRUE, !.released = FALSE]
          /\ run' = [run EXCEPT !.stage = "run", !.pc = 1]
          /\ UNCHANGED faults
       \/ /\ Spend(1)
          /\ \E aux, bus \in BOOLEAN :
                drv' = [drv EXCEPT !.pins = TRUE, !.aux = aux, !.released = ~(aux /\ bus), !.fault = TRUE]
          /\ run' = Failed(run)
       \/ /\ Spend(1)
          /\ drv' = [drv EXCEPT !.pins = TRUE, !.aux = TRUE]
          /\ run' = Failed(run)
    /\ UNCHANGED chip

\* cleanup: with the clock not proved stopped everything stays as it is.
cleanup(d) ==
    LET e == IF d.aux THEN d ELSE [d EXCEPT !.fault = TRUE] IN
    IF ~d.stopped THEN {<<[e EXCEPT !.fault = TRUE], 0>>}
    ELSE {<<[e EXCEPT !.released = TRUE], 0>>,
          <<[e EXCEPT !.released = FALSE, !.fault = TRUE], 1>>}

\* The chip is not known to be as it was found: probe's restore_required and
\* ready_unknown, qualify_finish's restore_bad.
Unclean == run.unknown \/ (run.kind \in Restoring /\ ~run.restored)

\* block1024_result, marker_finish, page0_finish, qualify_finish.
Outcome(d) ==
    LET whole == CASE run.kind = "qualify" ->
                        /\ run.primary = "none"
                        /\ {"preimage", "erased", "blank", "written", "verified", "marker"} \subseteq run.got
                   [] run.kind \in {"marker", "page0"} -> run.primary = "verified" /\ run.same
                   [] OTHER -> run.primary = "verified"
    IN  IF whole /\ ~d.fault /\ d.stopped /\ d.released /\ ~Unclean THEN "verified" ELSE "error"

\* probe from finish to done.
ProbeFinish ==
    /\ run.stage = "finish"
    /\ \E c \in cleanup([drv EXCEPT !.fault = @ \/ Unclean]) :
          LET d == Wiped([c[1] EXCEPT !.busy = FALSE]) IN
          /\ Spend(c[2])
          /\ drv' = d
          /\ run' = [run EXCEPT !.stage = "done", !.outcome = Outcome(d),
                                !.buf = IF d.stopped THEN "none" ELSE @]
    /\ UNCHANGED chip

Probe == ProbeAdmit \/ ProbeSetup \/ Compare \/ marker_restore_config \/ qualify_restore
           \/ NothingToRestore \/ ProbeFinish
=============================================================================
