---------------------------- MODULE PassWindows ----------------------------
(***************************************************************************)
(* What the pass schedule promises, without its table, its search and its  *)
(* timer: a satellite window is opened for one pass at a time. The pass is *)
(* one the device knows, it is chosen while it is still to come, and the   *)
(* passes chosen come in the order of their starts. The window is opened   *)
(* once for each choice, and never a whole second before the pass begins.  *)
(*                                                                         *)
(* The same pass is chosen twice only if its window was over before the    *)
(* pass began: that much is left to rounding.                              *)
(***************************************************************************)
EXTENDS Integers

CONSTANTS
  Second,   \* the ticks of a second
  Pass      \* the passes there may be

VARIABLES
  clock,    \* the time
  started,  \* the device has been told the time and schedules windows
  known,    \* the passes it knows
  chosen,   \* the pass the next window, or the open one, is for; at most one
  open,     \* the window is open
  last      \* the start of the last pass chosen

vars == <<clock, started, known, chosen, open, last>>

Init ==
  /\ clock \in Nat
  /\ started = FALSE
  /\ known \in SUBSET Pass
  /\ chosen = {} /\ open = FALSE /\ last = 0

Tick ==
  /\ clock' \in Nat /\ clock' > clock
  /\ UNCHANGED <<started, known, chosen, open, last>>

(* Passes are learned only before the first choice.                        *)
Learn ==
  /\ ~started
  /\ known' \in SUBSET Pass
  /\ UNCHANGED <<clock, started, chosen, open, last>>

Start ==
  /\ ~started
  /\ started' = TRUE
  /\ UNCHANGED <<clock, known, chosen, open, last>>

Choose ==
  /\ started
  /\ chosen = {}
  /\ \E p \in known :
       /\ p.start > clock
       /\ p.start >= last
       /\ chosen' = {p}
       /\ last' = p.start
  /\ UNCHANGED <<clock, started, known, open>>

Open ==
  /\ ~open
  /\ \E p \in chosen : clock > p.start - Second
  /\ open' = TRUE
  /\ UNCHANGED <<clock, started, known, chosen, last>>

(* The window closes, or could not be opened.                              *)
Close ==
  /\ chosen # {}
  /\ open' = FALSE
  /\ chosen' = {}
  /\ UNCHANGED <<clock, started, known, last>>

Next == Tick \/ Learn \/ Start \/ Choose \/ Open \/ Close

Spec == Init /\ [][Next]_vars

=============================================================================
