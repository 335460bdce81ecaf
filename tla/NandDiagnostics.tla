--------------------------- MODULE NandDiagnostics ---------------------------
(***************************************************************************)
(* The NAND diagnostics as the firmware runs them: the shell commands      *)
(* (nand_commands.c, nand_backup_commands.c,                               *)
(* nand_qualification_commands.c), the two binary protocols with the host  *)
(* program (nand_backup_wire.c, nand_qualification_wire.c) and the driver  *)
(* of NandProbe.  The host program and the USB stack are external: frames  *)
(* and answers get lost, the host aborts, answers wrongly or sends what    *)
(* nobody asked for, and the link resets, each at any moment.              *)
(***************************************************************************)
EXTENDS NandProbe

CONSTANTS Jobs,      \* the commands considered, a subset of Kinds
          MaxBoots   \* bound: resets considered

ASSUME JobsAssumption == Jobs \subseteq Kinds /\ MaxBoots \in Nat

VARIABLES
  wire,     \* struct nand_backup_wire / nand_qualification_wire
  usb,      \* the USB lifecycle counters of the command's adapter
  bypass,   \* shell_set_bypass: the shell gives its input away
  owner,    \* who holds the external reservation of mic_commands.c
  host,     \* external: the host program
  rx,       \* the answer of the host on its way, or waiting to be read
  extra,    \* input nobody asked for is waiting
  boots     \* resets so far

vars == <<chip, drv, run, faults, wire, usb, bypass, owner, host, rx, extra, boots>>
link == <<wire, usb, bypass, owner, host, rx, extra, boots>>

-----------------------------------------------------------------------------
(* The protocol engine. *)

NoWire == [started |-> FALSE, hello |-> FALSE, armed |-> FALSE, stopped |-> FALSE,
           boundary |-> TRUE, usable |-> TRUE, quarantined |-> TRUE, reuse |-> FALSE,
           sent |-> 0, acked |-> 0, begun |-> FALSE, ended |-> FALSE, waiting |-> FALSE]

NoHost == [frame |-> "none", acked |-> {}, rows |-> 0, end |-> "none"]

\* fail: no more data, the terminal stays quarantined.
fail(w, usable) == [w EXCEPT !.stopped = TRUE, !.quarantined = TRUE, !.reuse = FALSE,
                             !.usable = @ /\ usable, !.waiting = FALSE]

\* link_valid
LinkValid == usb.active /\ ~usb.fault /\ usb.epoch = usb.session

\* pending_locked under link_valid: nothing is waiting to be read.
no_pending == LinkValid /\ ~extra /\ rx = "none"

data_admitted == /\ wire.hello /\ wire.armed /\ wire.usable /\ wire.boundary
                 /\ ~wire.stopped /\ ~wire.ended

\* nand_qualification_wire_check, asked before every START of a qualification.
WireCheck == (wire.armed => data_admitted) /\ no_pending

\* write_spans: all of the frame, or only a part of it (a timeout, a broken
\* link): then the stream has lost its frame boundary for good.
write_spans(w, frame) ==
    \/ /\ LinkValid
       /\ wire' = [w EXCEPT !.boundary = TRUE, !.waiting = frame # "end unclean"]
       /\ host' = [host EXCEPT !.frame = frame]
       /\ UNCHANGED faults
    \/ /\ IF LinkValid THEN Spend(1) ELSE UNCHANGED faults
       /\ wire' = [fail(w, FALSE) EXCEPT !.boundary = FALSE, !.sent = wire.sent]
       /\ UNCHANGED host

\* receive_ack: the exact frame acknowledged and nothing else waiting, or a
\* failure; after the host's own abort the wire can still carry the END.
receive_ack(acked, then, failed) ==
    \/ /\ LinkValid /\ rx = "ack" /\ ~extra
       /\ wire' = [acked EXCEPT !.waiting = FALSE] /\ run' = then
       /\ rx' = "none" /\ UNCHANGED faults
    \/ /\ run' = failed
       /\ \/ /\ LinkValid /\ rx = "abort" /\ ~extra
             /\ wire' = fail(wire, TRUE) /\ rx' = "none" /\ UNCHANGED faults
          \/ /\ LinkValid /\ (rx = "junk" \/ (rx # "none" /\ extra))
             /\ wire' = fail(wire, FALSE) /\ rx' = "none" /\ UNCHANGED faults
          \/ ~LinkValid /\ wire' = fail(wire, FALSE) /\ UNCHANGED <<rx, faults>>
          \/ /\ LinkValid /\ rx = "none"
             /\ wire' = fail(wire, FALSE) /\ Spend(1) /\ UNCHANGED rx

-----------------------------------------------------------------------------
(* The commands. *)

Returned == run.stage \in {"idle", "returned"}

\* The reservation, and no job attempted since the reset.
Admitted(kind) ==
    /\ Returned /\ owner = "none" /\ owner' = "nand"
    /\ ~drv.attempted /\ ~drv.busy /\ ~drv.fault
    /\ run' = [Idle EXCEPT !.kind = kind, !.stage = IF kind \in Wired THEN "hello" ELSE "admit"]

\* command_nand_id, _features, _page0, _marker up to the probe.
StartLocal(kind) ==
    /\ kind \notin Wired /\ Admitted(kind)
    /\ UNCHANGED <<chip, drv, faults, wire, usb, bypass, host, rx, extra, boots>>

\* command_nand_backup, command_nand_qualification: the shell is switched to
\* binary mode in one step with the snapshot of the link's epoch.
StartWired(kind) ==
    /\ kind \in Wired /\ ~wire.started /\ Admitted(kind)
    /\ wire' = [NoWire EXCEPT !.started = TRUE]
    /\ usb' = [usb EXCEPT !.active = TRUE, !.fault = FALSE, !.session = usb.epoch]
    /\ bypass' = TRUE
    /\ host' = NoHost
    /\ UNCHANGED <<chip, drv, faults, rx, extra, boots>>

\* handshake: the READY line, then exactly one HELLO.
SendReady ==
    /\ run.stage = "hello" /\ ~wire.waiting
    /\ write_spans(wire, "ready")
    /\ run' = IF wire'.waiting THEN run ELSE [run EXCEPT !.stage = "returned"]
    /\ UNCHANGED <<chip, drv, usb, bypass, owner, rx, extra, boots>>

ReceiveHello ==
    /\ run.stage = "hello" /\ wire.waiting
    /\ receive_ack([wire EXCEPT !.hello = TRUE],
                   [run EXCEPT !.stage = "admit"], [run EXCEPT !.stage = "returned"])
    /\ UNCHANGED <<chip, drv, usb, bypass, owner, host, extra, boots>>

\* A transfer of the running program.  The first START arms the wire's data
\* deadline; every START of a qualification asks the wire again.
Transfers ==
    /\ IF run.kind = "qualify" /\ ~WireCheck
       THEN Step(FALSE) /\ wire' = fail(wire, FALSE)
       ELSE Step(TRUE) /\ wire' = [wire EXCEPT !.armed = @ \/ run.kind \in Wired]
    /\ UNCHANGED <<usb, bypass, owner, host, rx, extra, boots>>

\* nand_backup_wire_send_begin: once, before any page.
send_begin == data_admitted /\ ~wire.begun

\* nand_backup_wire_send_page: a page only when every earlier one was acked.
send_page == data_admitted /\ wire.begun /\ wire.sent = wire.acked /\ wire.acked < Rows

\* nand_qualification_wire_progress: an event only when the last was acked.
progress == data_admitted /\ wire.sent = wire.acked

\* progress_valid: the state the driver reports with an event is the one the
\* protocol fixes for that event; a mismatch is never sent.
progress_valid(event) ==
    /\ Safe /\ drv.busy /\ drv.pins /\ run.primary = "none"
    /\ run.a0 # "invalid" /\ run.b0 # "invalid"
    /\ event # "preimage" => "preimage" \in run.got
    /\ LET erasing == {"before erase wren", "before erase", "after erase"}
           writing == {"before program wren", "before program load", "before program", "after program"}
       IN  /\ event \in erasing \cup writing => run.a0 = "open" /\ run.wel # "invalid"
           /\ event \in erasing => run.b0 = "off" /\ "exec" \notin run.got
           /\ event \in writing => run.b0 = "on" /\ {"erased", "blank"} \subseteq run.got
           /\ event \in {"before erase wren", "after erase", "before program wren", "after program"} =>
                run.wel = "clear"
           /\ event \in {"before erase", "before program load", "before program"} => run.wel = "set"
           /\ event \in {"before erase wren", "before erase"} => "erase" \notin run.got
           /\ event = "after erase" => "erased" \in run.got
           /\ event = "after program" => "written" \in run.got

\* qualify_event, block1024_run: the driver's own conditions for a frame.
FrameSafe == /\ Safe /\ ~run.late
             /\ Current.op # "event" => run.off /\ run.b0 = "off" /\ run.same

FrameAdmitted == CASE Current.op = "event" -> progress [] Current.op = "begin" -> send_begin
                   [] Current.op = "page" -> send_page

SendFrame ==
    /\ run.stage = "run" /\ Current.op \in Frames /\ ~wire.waiting
    /\ IF ~FrameSafe
       THEN run' = Failed(run) /\ UNCHANGED <<wire, host, faults>>
       ELSE IF ~FrameAdmitted
       THEN run' = Failed(run) /\ wire' = fail(wire, FALSE) /\ UNCHANGED <<host, faults>>
       ELSE IF Current.op = "event" /\ ~progress_valid(Current.want)
       THEN run' = Failed(run) /\ wire' = fail(wire, TRUE) /\ UNCHANGED <<host, faults>>
       ELSE IF Current.op = "event" /\ ~no_pending
       THEN run' = Failed(run) /\ wire' = fail(wire, FALSE) /\ UNCHANGED <<host, faults>>
       ELSE /\ write_spans([wire EXCEPT !.sent = IF Current.op = "begin" THEN @ ELSE @ + 1],
                           IF Current.op = "event" THEN Current.want ELSE Current.op)
            /\ run' = IF wire'.waiting THEN run ELSE Failed(run)
    /\ UNCHANGED <<chip, drv, usb, bypass, owner, rx, extra, boots>>

\* block1024_ack, observer_event: the frame was delivered, or the job fails.
ReceiveAck ==
    /\ run.stage = "run" /\ wire.waiting
    /\ receive_ack([wire EXCEPT !.acked = IF Current.op = "begin" THEN @ ELSE @ + 1,
                                !.begun = @ \/ Current.op = "begin"],
                   Advanced(run, 1), Failed(run))
    /\ drv' = IF Current.op = "page" THEN Wiped(drv) ELSE drv
    /\ UNCHANGED <<chip, usb, bypass, owner, host, extra, boots>>

\* nand_qualification_wire_clean_result: a result that may be called clean.
QualifyClean == /\ {"preimage", "erased", "blank", "written", "verified", "marker"} \subseteq run.got
                /\ run.a0 = "locked" /\ run.b0 = "on" /\ run.wel = "clear"

\* clean_result of the backup: every row acknowledged, ECC known to be on.
BackupClean == wire.acked = Rows /\ run.restored /\ run.b0 = "on"

\* clean_result: the driver's result and its state, both without a blemish.
clean_result == /\ run.outcome = "verified" /\ ~drv.busy /\ ~drv.fault /\ drv.stopped
                /\ drv.released /\ drv.pins /\ drv.cs /\ drv.aux /\ drv.scrubbed /\ ~run.unknown
                /\ IF run.kind = "qualify" THEN QualifyClean ELSE BackupClean

\* nand_qualification_wire_finish and nand_backup_wire_finish: one END, clean
\* only if all that was sent was acked and no data was refused.
FinishAdmitted == wire.hello /\ wire.usable /\ wire.boundary /\ ~wire.ended

CleanEnd == /\ ~wire.stopped /\ wire.sent = wire.acked
            /\ run.kind = "backup" => wire.acked = Rows

SendEnd ==
    /\ run.stage = "done" /\ run.kind \in Wired /\ ~wire.waiting
    /\ LET w == [wire EXCEPT !.ended = TRUE]
           refused == run.outcome = "refused" /\ ~wire.armed
           frame == IF clean_result THEN "end clean" ELSE "end unclean"
       IN  IF refused \/ ~FinishAdmitted
           THEN wire' = fail(wire, FALSE) /\ UNCHANGED <<host, faults>>
           ELSE IF clean_result /\ ~CleanEnd
           THEN wire' = fail(w, TRUE) /\ UNCHANGED <<host, faults>>
           ELSE IF run.kind = "qualify" /\ ~no_pending
           THEN wire' = fail(w, FALSE) /\ UNCHANGED <<host, faults>>
           ELSE write_spans(w, frame)
    /\ run' = IF wire'.waiting THEN run ELSE [run EXCEPT !.stage = "returned"]
    /\ UNCHANGED <<chip, drv, usb, bypass, owner, rx, extra, boots>>

ReceiveEndAck ==
    /\ run.stage = "done" /\ wire.waiting
    /\ receive_ack([wire EXCEPT !.reuse = TRUE, !.quarantined = FALSE],
                   [run EXCEPT !.stage = "release"], [run EXCEPT !.stage = "returned"])
    /\ UNCHANGED <<chip, drv, usb, bypass, owner, host, extra, boots>>

\* Mutant of ReleaseAllowed: the acknowledged END is enough.
ReleaseAcknowledged == wire.reuse

\* Under the interrupt lock, a last look at the link and at the input.
ReleaseAllowed == wire.reuse /\ no_pending

ReleaseTerminal ==
    /\ run.stage = "release"
    /\ IF ReleaseAllowed
       THEN bypass' = FALSE /\ owner' = "none" /\ usb' = [usb EXCEPT !.active = FALSE] /\ UNCHANGED wire
       ELSE wire' = fail(wire, TRUE) /\ UNCHANGED <<bypass, owner, usb>>
    /\ run' = [run EXCEPT !.stage = "returned"]
    /\ UNCHANGED <<chip, drv, faults, host, rx, extra, boots>>

\* command_nand_id, _features: released once the bus is given back whole.
BusWhole == ~drv.fault /\ drv.stopped /\ drv.released

\* command_nand_page0: the page buffers scrubbed and the chip known ready, too.
Page0Whole == BusWhole /\ drv.scrubbed /\ ~run.unknown

\* command_nand_marker: and its ECC setting restored, if it was touched.
MarkerWhole == Page0Whole /\ (run.off => run.restored)

Report ==
    /\ run.stage = "done" /\ run.kind \notin Wired
    /\ owner' = IF CASE run.kind = "marker" -> MarkerWhole [] run.kind = "page0" -> Page0Whole
                     [] OTHER -> BusWhole
                THEN "none" ELSE owner
    /\ run' = [run EXCEPT !.stage = "returned"]
    /\ UNCHANGED <<chip, drv, faults, wire, usb, bypass, host, rx, extra, boots>>

Driver == Probe /\ UNCHANGED link

-----------------------------------------------------------------------------
(* The world. *)

\* The data allowance of the job runs out; restoration has its own.
DataDeadline ==
    /\ run.stage = "run" /\ ~run.late /\ Spend(1)
    /\ run' = [run EXCEPT !.late = TRUE]
    /\ UNCHANGED <<chip, drv, link>>

\* nand_qualification_usb_status: anything but a start of frame.
UsbStatus ==
    /\ Spend(1)
    /\ usb' = [usb EXCEPT !.epoch = @ + 1, !.fault = @ \/ usb.active]
    /\ rx' \in {rx, "none"} /\ host' = [host EXCEPT !.frame = "none"]
    /\ UNCHANGED <<chip, drv, run, wire, bypass, owner, extra, boots>>

HostAnswers ==
    /\ host.frame # "none" /\ rx = "none"
    /\ \/ /\ rx' = "ack"
          /\ host' = [host EXCEPT !.frame = "none", !.acked = @ \cup {host.frame},
                                  !.rows = IF host.frame = "page" THEN @ + 1 ELSE @,
                                  !.end = IF host.frame \in {"end clean", "end unclean"}
                                          THEN host.frame ELSE @]
          /\ UNCHANGED faults
       \/ /\ Spend(1) /\ rx' \in {"abort", "junk"}
          /\ host' = [host EXCEPT !.frame = "none"]
    /\ UNCHANGED <<chip, drv, run, wire, usb, bypass, owner, extra, boots>>

StrayInput ==
    /\ ~extra /\ Spend(1) /\ extra' = TRUE
    /\ UNCHANGED <<chip, drv, run, wire, usb, bypass, owner, host, rx, boots>>

\* The shell takes waiting input, to discard it in binary mode.
ShellReads ==
    /\ Returned /\ (extra \/ rx # "none")
    /\ extra' = FALSE /\ rx' = "none"
    /\ UNCHANGED <<chip, drv, run, faults, wire, usb, bypass, owner, host, boots>>

\* The microphone, a recording or another diagnostic holds the reservation.
OtherReserves ==
    /\ Returned /\ owner # "nand"
    /\ owner' = IF owner = "none" THEN "other" ELSE "none"
    /\ UNCHANGED <<chip, drv, run, faults, wire, usb, bypass, host, rx, extra, boots>>

\* A reset stops the hardware and forgets the RAM; the chip keeps its registers.
Reset ==
    /\ boots < MaxBoots /\ boots' = boots + 1
    /\ drv' = IdleDriver /\ run' = Idle /\ wire' = NoWire /\ bypass' = FALSE /\ owner' = "none"
    /\ usb' = [epoch |-> 0, session |-> 0, active |-> FALSE, fault |-> FALSE]
    /\ rx' = "none" /\ extra' = FALSE /\ host' = NoHost
    /\ UNCHANGED <<chip, faults>>

Init ==
    /\ chip \in [a0 : {"locked", "open"}, b0 : {"on"}, wel : {FALSE}, busy : {"no", "oip"}, fail : {FALSE},
                 ecc : {"none"}, array : {"old", "torn"}, cache : {"torn"}]
    /\ drv = IdleDriver /\ run = Idle /\ faults = 0 /\ wire = NoWire
    /\ usb = [epoch |-> 0, session |-> 0, active |-> FALSE, fault |-> FALSE]
    /\ bypass = FALSE /\ owner = "none" /\ host = NoHost /\ rx = "none" /\ extra = FALSE /\ boots = 0

Next == \/ \E kind \in Jobs : StartLocal(kind) \/ StartWired(kind)
        \/ SendReady \/ ReceiveHello \/ Driver \/ Transfers \/ SendFrame \/ ReceiveAck
        \/ SendEnd \/ ReceiveEndAck \/ ReleaseTerminal \/ Report
        \/ DataDeadline \/ UsbStatus \/ HostAnswers \/ StrayInput \/ ShellReads
        \/ OtherReserves \/ Reset

Spec == Init /\ [][Next]_vars

-----------------------------------------------------------------------------
(* Properties *)

TypeOK ==
    /\ run.stage \in {"idle", "hello", "admit", "setup", "run", "restore", "finish", "done",
                      "release", "returned"}
    /\ run.kind \in Kinds \cup {"none"} /\ run.pc \in Nat /\ run.polls \in 0..Polls
    /\ chip.array \in {"old", "erased", "written", "torn"} /\ Status(chip) \subseteq Statuses
    /\ owner \in {"none", "nand", "other"} /\ rx \in {"none", "ack", "abort", "junk"}
    /\ wire.acked <= wire.sent

\* Once a diagnostic gave the reservation back, so that recordings may use the
\* flash again, the chip is exactly as the job found it (block protection, ECC,
\* write latch), it is not busy with the job's work, no DMA runs, the buffers
\* that held its pages are scrubbed; and nobody wrote a buffer the hardware
\* still owned.  Otherwise the reservation is kept until a reset.
RestoredOrHeld ==
    /\ TypeOK
    /\ ~drv.touched
    /\ Returned /\ drv.attempted /\ owner # "nand" =>
          /\ <<chip.a0, chip.b0, chip.wel>> = SubSeq(run.entry, 1, 3)
          /\ chip.busy \in {"no", run.entry[4]} /\ ~drv.dma /\ ~drv.fault /\ drv.scrubbed

\* Whatever the link, the host or the chip do, the block is erased only if it
\* still holds the preserved image and the host has acknowledged every event
\* up to the one before the erase; programmed only if it reads erased and the
\* host has acknowledged that too.
ErasedWithConsent ==
    [][LET begun == run'.got \ run.got IN
       /\ "erase" \in begun => /\ chip.array = "old"
                               /\ {"preimage", "protection", "erase", "before erase wren", "before erase"}
                                    \subseteq host.acked
       /\ "exec" \in begun  => /\ chip.array = "erased" /\ "erase" \in run.got
                               /\ {"after erase", "blank", "program", "before program load", "before program"}
                                    \subseteq host.acked]_vars

\* The terminal leaves binary mode, short of a reset, only after the host has
\* acknowledged a clean END over a link that never broke, with no input waiting
\* that the shell would then take for a command; and the clean END was true:
\* the block holds the pattern, or the host holds every row.
ReleasedOnCleanEnd ==
    [][bypass /\ ~bypass' /\ boots' = boots =>
         /\ host.end = "end clean" /\ LinkValid /\ ~extra /\ rx = "none"
         /\ run.outcome = "verified"
         /\ run.kind = "qualify" => chip.array = "written"
         /\ run.kind = "backup" => host.rows = Rows]_vars
=============================================================================
