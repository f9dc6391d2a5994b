---------------------------- MODULE SatRequests ----------------------------
(***************************************************************************)
(* What the link to the satellite stack promises to main() on the          *)
(* application core, without its rings, queues, buffers and threads.       *)
(*                                                                         *)
(* Requests are numbered in the order in which they are made. Each is      *)
(* processed at most once and in that order, each gives at most one        *)
(* answer, and an answer is a token of one semaphore, not a reply to one   *)
(* request: answers that arrive together count once, and a token outlives  *)
(* the window it was given in. Closing the link drops everything else.     *)
(***************************************************************************)
EXTENDS Naturals

VARIABLES
  open,        \* the network core runs the satellite stack
  asked,       \* requests made in this window
  processed,   \* the last request processed in this window
  answers,     \* answers on their way to the application
  token        \* sat_sem

vars == <<open, asked, processed, answers, token>>

Init ==
  /\ open = FALSE
  /\ asked = 0 /\ processed = 0 /\ answers = 0 /\ token = 0

Open ==
  /\ ~open
  /\ open' = TRUE
  /\ asked' = 0 /\ processed' = 0 /\ answers' = 0
  /\ UNCHANGED token

Ask ==
  /\ open
  /\ asked' = asked + 1
  /\ UNCHANGED <<open, processed, answers, token>>

(* The next request in the order of asking is processed and answered.      *)
Process ==
  /\ open
  /\ processed < asked
  /\ processed' = processed + 1
  /\ answers' = answers + 1
  /\ UNCHANGED <<open, asked, token>>

(* An answer is lost, or gives the token.                                  *)
Lose ==
  /\ answers > 0
  /\ answers' = answers - 1
  /\ UNCHANGED <<open, asked, processed, token>>

Deliver ==
  /\ answers > 0
  /\ answers' = answers - 1
  /\ token' = 1
  /\ UNCHANGED <<open, asked, processed>>

Take ==
  /\ token = 1
  /\ token' = 0
  /\ UNCHANGED <<open, asked, processed, answers>>

Close ==
  /\ open
  /\ open' = FALSE
  /\ asked' = 0 /\ processed' = 0 /\ answers' = 0
  /\ UNCHANGED token

Next ==
  Open \/ Ask \/ Process \/ Lose \/ Deliver \/ Take \/ Close

Spec == Init /\ [][Next]_vars

=============================================================================
