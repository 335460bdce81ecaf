------------------------------ MODULE Transfer ------------------------------
(***************************************************************************)
(* What the pendant and the phone together promise about one recording,    *)
(* with no messages, no sessions and no failures: the phone copies sealed  *)
(* segments, the pendant learns which copies are durable, and the pendant  *)
(* gives its own copy up only when the user has asked for exactly that of  *)
(* a finished recording.  SyncLink implements it.                          *)
(***************************************************************************)
EXTENDS Naturals

CONSTANT N        \* the segments a recording may have

VARIABLES
  sealed,   \* the segments of the pendant's copy
  final,    \* the recording is finished
  there,    \* the pendant still has its copy
  held,     \* the segments the phone counts as its own
  once,     \* those it has ever counted
  acked,    \* those the pendant counts as received
  wish,     \* what the user has asked to be deleted: "phone", "pendant"
  known     \* the phone knows that the pendant's copy is gone

vars == <<sealed, final, there, held, once, acked, wish, known>>

Init == /\ sealed = 0 /\ final = FALSE /\ there = TRUE
        /\ held = {} /\ once = {} /\ acked = {} /\ wish = {} /\ known = FALSE

Record == /\ there /\ ~final
          /\ \/ sealed < N /\ sealed' = sealed + 1 /\ UNCHANGED final
             \/ final' = TRUE /\ UNCHANGED sealed
          /\ UNCHANGED <<there, held, once, acked, wish, known>>

Copy(i) == /\ there /\ i <= sealed /\ wish = {}
           /\ held' = held \cup {i} /\ once' = once \cup {i}
           /\ UNCHANGED <<sealed, final, there, acked, wish, known>>

Acknowledge(S) == /\ there /\ S \subseteq once /\ acked' = acked \cup S
                  /\ UNCHANGED <<sealed, final, there, held, once, wish, known>>

Ask(W) == /\ final /\ wish' = wish \cup W
          /\ UNCHANGED <<sealed, final, there, held, once, acked, known>>

DropCopies == /\ "phone" \in wish /\ held' = {}
              /\ UNCHANGED <<sealed, final, there, once, acked, wish, known>>

GiveUp == /\ "pendant" \in wish /\ final /\ there' = FALSE
          /\ UNCHANGED <<sealed, final, held, once, acked, wish, known>>

Learn == /\ ~there /\ known' = TRUE
         /\ UNCHANGED <<sealed, final, there, held, once, acked, wish>>

Next == \/ Record \/ DropCopies \/ GiveUp \/ Learn
        \/ \E i \in 1..N : Copy(i)
        \/ \E S \in SUBSET (1..N) : Acknowledge(S)
        \/ \E W \in SUBSET {"phone", "pendant"} : Ask(W)

Spec == Init /\ [][Next]_vars
=============================================================================
