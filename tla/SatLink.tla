------------------------------ MODULE SatLink ------------------------------
(***************************************************************************)
(* The request and acknowledgement link of a satellite window: ipc_send    *)
(* and its semaphore on the application core (app/src/main.c), the calls   *)
(* of sat_transmit and of the board functions that use it                  *)
(* (app/src/sat_board.c), and the receive callback, the two threads and    *)
(* the buffer pool of the network core (app/cpunet/src/main.c).            *)
(*                                                                         *)
(* A request is its number in the window: only the order and the fate of   *)
(* the requests matter here, and every answer is the same message.         *)
(*                                                                         *)
(* A definition X_Fault beside a definition X is a faulty variant of X that*)
(* no behaviour uses: with it in the place of X some property fails, which *)
(* shows that the property says something about X.                         *)
(***************************************************************************)
EXTENDS Naturals, Sequences

CONSTANTS
  PoolSize,     \* CONFIG_SAT_IPC_PKT_COUNT, the buffers of sat_pool
  RingSize,     \* requests the shared memory ring holds
  MaxPackets,   \* bound: packets the SDK sends in one window
  Faults        \* what may go wrong

FaultKinds == {"send", "packet", "transmit", "answer"}

ASSUME PoolAssumption == PoolSize \in Nat \ {0}
ASSUME RingAssumption == RingSize \in Nat \ {0}
ASSUME PacketsAssumption == MaxPackets \in Nat
ASSUME FaultsAssumption == Faults \subseteq FaultKinds

(* Where main() stands: outside a window, about to send a request, waiting *)
(* for its acknowledgement, about to build the packet, between two sendings *)
(* of it, or closing the link.                                             *)
Places == {"off", "send", "wait", "packet", "loop", "close"}
Commands == {"INIT", "ENABLE", "SEND", "DISABLE"}

VARIABLES
  at,            \* where main() stands
  cmd,           \* the command of the request being made
  packets,       \* packets sent in this window
  transmitting,  \* _transmitting, and the LED
  sent,          \* requests put on the ring in this window
  sat_sem,       \* the acknowledgement semaphore, of limit 1
  to_net,        \* the ring: requests not yet received
  tx_queue,      \* requests received and not yet taken by sat_tx_thread
  tx_thread,     \* sat_tx_thread: idle, processing, or about to answer
  current,       \* the request it processes
  processed,     \* the last request it processed
  rx_queue,      \* answers queued for the forwarder
  to_app,        \* the ring: answers not yet received
  free,          \* free buffers of sat_pool
  timeouts,      \* history: waits given up in this window
  leftover,      \* history: the token the last window left in sat_sem
  lost           \* history: an answer was lost in this window

appVars   == <<at, cmd, packets, transmitting, sent>>
netVars   == <<to_net, tx_queue, tx_thread, current, processed, rx_queue,
               to_app, free>>
histVars  == <<timeouts, leftover, lost>>
vars == <<appVars, sat_sem, netVars, histVars>>

(* k_sem_give on a semaphore of limit 1.                                   *)
SemGive_Unbounded(s) == s + 1
SemGive(s) == 1

-----------------------------------------------------------------------------
Init ==
  /\ at = "off" /\ cmd = "INIT" /\ packets = 0 /\ transmitting = FALSE
  /\ sent = 0 /\ sat_sem = 0
  /\ to_net = <<>> /\ tx_queue = <<>>
  /\ tx_thread = "idle" /\ current = 0 /\ processed = 0
  /\ rx_queue = 0 /\ to_app = 0
  /\ free = PoolSize
  /\ timeouts = 0 /\ leftover = 0 /\ lost = FALSE

-----------------------------------------------------------------------------
(* The application core.                                                   *)

(* _sat_enable: the endpoint is bound and SAT_CMD_INIT is the first        *)
(* request. Nothing empties sat_sem.                                       *)
OpenLink ==
  /\ at = "off"
  /\ at' = "send" /\ cmd' = "INIT"
  /\ packets' = 0
  /\ UNCHANGED <<transmitting, sent, sat_sem, netVars, histVars>>

(* How main() goes on when ipc_send returns. Only _sat_enable looks at the *)
(* result; the board functions drop it, and the SDK goes from the enabling *)
(* to the packet and from the packet to the disabling.                     *)
Proceed(ok) ==
  \/ /\ cmd = "INIT"
     /\ at' = (IF ok THEN "packet" ELSE "close") /\ UNCHANGED cmd
  \/ cmd = "ENABLE" /\ at' = "send" /\ cmd' = "SEND"
  \/ cmd = "SEND" /\ at' = "send" /\ cmd' = "DISABLE"
  \/ cmd = "DISABLE" /\ at' = "loop" /\ UNCHANGED cmd

(* ipc_service_send: the request is on the ring, or main() is told so.     *)
SendRequest ==
  /\ at = "send"
  /\ Len(to_net) < RingSize
  /\ sent' = sent + 1
  /\ to_net' = Append(to_net, sent')
  /\ at' = "wait"
  /\ UNCHANGED <<cmd, packets, transmitting, sat_sem, tx_queue, tx_thread,
                 current, processed, rx_queue, to_app, free, histVars>>

SendFails ==
  /\ at = "send"
  /\ Len(to_net) = RingSize \/ "send" \in Faults
  /\ Proceed(FALSE)
  /\ UNCHANGED <<packets, transmitting, sent, sat_sem, netVars, histVars>>

(* k_sem_take(&sat_sem, K_SECONDS(3)): any token will do.                  *)
TakeAck ==
  /\ at = "wait"
  /\ sat_sem = 1
  /\ sat_sem' = 0
  /\ Proceed(TRUE)
  /\ UNCHANGED <<packets, transmitting, sent, netVars, histVars>>

TimeOut_Forever ==
  /\ at = "wait"
  /\ sat_sem = 0
  /\ UNCHANGED vars

TimeOut ==
  /\ at = "wait"
  /\ sat_sem = 0
  /\ timeouts' = timeouts + 1
  /\ Proceed(FALSE)
  /\ UNCHANGED <<packets, transmitting, sent, sat_sem, netVars, leftover,
                 lost>>

(* sat_transmit: the packet is built once, then sent while the window      *)
(* lasts, and the LED is put out. A failure returns at once.               *)
BuildPacket ==
  /\ at = "packet"
  /\ \/ at' = "loop" /\ transmitting' = TRUE
     \/ "packet" \in Faults /\ at' = "close" /\ UNCHANGED transmitting
  /\ UNCHANGED <<cmd, packets, sent, sat_sem, netVars, histVars>>

NextPacket ==
  /\ at = "loop"
  /\ packets < MaxPackets
  /\ packets' = packets + 1
  /\ at' = "send" /\ cmd' = "ENABLE"
  /\ UNCHANGED <<transmitting, sent, sat_sem, netVars, histVars>>

TransmitFails ==
  /\ at = "loop" /\ "transmit" \in Faults
  /\ at' = "close"
  /\ UNCHANGED <<cmd, packets, transmitting, sent, sat_sem, netVars, histVars>>

WindowOver ==
  /\ at = "loop"
  /\ at' = "close" /\ transmitting' = FALSE
  /\ UNCHANGED <<cmd, packets, sent, sat_sem, netVars, histVars>>

(* _sat_disable: the endpoint goes and the network core is switched off.   *)
(* What either ring, queue or thread held is gone; sat_sem stays.          *)
CloseLink_KeepsAnswers ==
  /\ at = "close"
  /\ at' = "off"
  /\ sent' = 0
  /\ to_net' = <<>> /\ tx_queue' = <<>>
  /\ tx_thread' = "idle" /\ current' = 0 /\ processed' = 0
  /\ rx_queue' = 0 /\ free' = PoolSize
  /\ timeouts' = 0 /\ leftover' = sat_sem /\ lost' = FALSE
  /\ UNCHANGED <<cmd, packets, transmitting, sat_sem, to_app>>

CloseLink ==
  /\ at = "close"
  /\ at' = "off"
  /\ sent' = 0
  /\ to_net' = <<>> /\ tx_queue' = <<>>
  /\ tx_thread' = "idle" /\ current' = 0 /\ processed' = 0
  /\ rx_queue' = 0 /\ to_app' = 0
  /\ free' = PoolSize
  /\ timeouts' = 0 /\ leftover' = sat_sem /\ lost' = FALSE
  /\ UNCHANGED <<cmd, packets, transmitting, sat_sem>>

(* _ep_recv: every answer is SAT_CMD_OK and gives the semaphore.           *)
ReceiveAnswer ==
  /\ to_app > 0
  /\ to_app' = to_app - 1
  /\ sat_sem' = SemGive(sat_sem)
  /\ UNCHANGED <<appVars, to_net, tx_queue, tx_thread, current, processed,
                 rx_queue, free, histVars>>

-----------------------------------------------------------------------------
(* The network core.                                                       *)

(* ep_recv: waits for a buffer, copies the request into it, queues it.     *)
ReceiveRequest_Urgent ==
  /\ to_net # <<>>
  /\ free > 0
  /\ free' = free - 1
  /\ tx_queue' = <<Head(to_net)>> \o tx_queue
  /\ to_net' = Tail(to_net)
  /\ UNCHANGED <<appVars, sat_sem, tx_thread, current, processed, rx_queue,
                 to_app, histVars>>

ReceiveRequest ==
  /\ to_net # <<>>
  /\ free > 0
  /\ free' = free - 1
  /\ tx_queue' = Append(tx_queue, Head(to_net))
  /\ to_net' = Tail(to_net)
  /\ UNCHANGED <<appVars, sat_sem, tx_thread, current, processed, rx_queue,
                 to_app, histVars>>

(* sat_tx_thread takes a request, processes it and releases its buffer,    *)
(* then waits for a buffer for the answer. hubble_sat_process may fail:    *)
(* the answer is the same.                                                 *)
TakeRequest ==
  /\ tx_thread = "idle"
  /\ tx_queue # <<>>
  /\ current' = Head(tx_queue)
  /\ tx_queue' = Tail(tx_queue)
  /\ tx_thread' = "process"
  /\ UNCHANGED <<appVars, sat_sem, to_net, processed, rx_queue, to_app, free,
                 histVars>>

ProcessRequest_KeepsBuffer ==
  /\ tx_thread = "process"
  /\ processed' = current
  /\ tx_thread' = "answer"
  /\ current' = 0
  /\ UNCHANGED <<appVars, sat_sem, to_net, tx_queue, rx_queue, to_app, free,
                 histVars>>

ProcessRequest ==
  /\ tx_thread = "process"
  /\ processed' = current
  /\ free' = free + 1
  /\ tx_thread' = "answer"
  /\ current' = 0
  /\ UNCHANGED <<appVars, sat_sem, to_net, tx_queue, rx_queue, to_app,
                 histVars>>

AnswerRequest_Twice ==
  /\ tx_thread = "answer"
  /\ free > 0
  /\ free' = free - 1
  /\ rx_queue' = rx_queue + 1
  /\ tx_thread' \in {"idle", "answer"}
  /\ UNCHANGED <<appVars, sat_sem, to_net, tx_queue, current, processed,
                 to_app, histVars>>

AnswerRequest ==
  /\ tx_thread = "answer"
  /\ free > 0
  /\ free' = free - 1
  /\ rx_queue' = rx_queue + 1
  /\ tx_thread' = "idle"
  /\ UNCHANGED <<appVars, sat_sem, to_net, tx_queue, current, processed,
                 to_app, histVars>>

(* The forwarder of main() drops the result of ipc_service_send.           *)
ForwardAnswer ==
  /\ rx_queue > 0
  /\ rx_queue' = rx_queue - 1
  /\ free' = free + 1
  /\ \/ to_app' = to_app + 1 /\ UNCHANGED lost
     \/ "answer" \in Faults /\ lost' = TRUE /\ UNCHANGED to_app
  /\ UNCHANGED <<appVars, sat_sem, to_net, tx_queue, tx_thread, current,
                 processed, timeouts, leftover>>

-----------------------------------------------------------------------------
(* The specification.                                                      *)

Request == SendRequest \/ SendFails
Wait == TakeAck \/ TimeOut
Transmit == BuildPacket \/ NextPacket \/ TransmitFails \/ WindowOver
Application ==
  OpenLink \/ Request \/ Wait \/ Transmit \/ CloseLink \/ ReceiveAnswer
SatTxThread == TakeRequest \/ ProcessRequest \/ AnswerRequest
NetworkCore == ReceiveRequest \/ SatTxThread \/ ForwardAnswer

Next == Application \/ NetworkCore

Spec == Init /\ [][Next]_vars

(* main() runs when it can, and the receive callbacks, sat_tx_thread and   *)
(* the forwarder are scheduled; those that want a buffer of the pool queue *)
(* for it (strong fairness). Nothing is assumed of the time-out, which     *)
(* would hide a request that is never answered, nor of a next window.      *)
FairSpec ==
  /\ Spec
  /\ WF_vars(Request \/ TakeAck \/ Transmit \/ CloseLink)
  /\ WF_vars(ReceiveAnswer) /\ WF_vars(ForwardAnswer)
  /\ SF_vars(ReceiveRequest) /\ SF_vars(SatTxThread)

-----------------------------------------------------------------------------
(* The properties.                                                         *)

TypeOK ==
  /\ at \in Places /\ cmd \in Commands
  /\ packets \in 0..MaxPackets /\ transmitting \in BOOLEAN
  /\ sent \in Nat /\ sat_sem \in {0, 1}
  /\ to_net \in Seq(Nat) /\ tx_queue \in Seq(Nat)
  /\ tx_thread \in {"idle", "process", "answer"}
  /\ current \in Nat /\ processed \in Nat
  /\ rx_queue \in Nat /\ to_app \in Nat /\ free \in 0..PoolSize
  /\ timeouts \in Nat /\ leftover \in {0, 1} /\ lost \in BOOLEAN

One(b) == IF b THEN 1 ELSE 0
Processing == One(tx_thread = "process")
Answers == One(tx_thread = "answer") + rx_queue + to_app

(* What has been asked and not processed is, oldest first, with            *)
(* sat_tx_thread, in its queue and on the ring, each request once, none    *)
(* missing and none of an earlier window.                                  *)
InOrder ==
  /\ tx_thread = "process" => current = processed + 1
  /\ \A i \in 1..Len(tx_queue) : tx_queue[i] = processed + Processing + i
  /\ \A i \in 1..Len(to_net) :
       to_net[i] = processed + Processing + Len(tx_queue) + i
  /\ sent = processed + Processing + Len(tx_queue) + Len(to_net)

(* Each buffer of sat_pool is free, holds a request until it is processed, *)
(* or holds an answer until it is forwarded: none leaks on any path of the *)
(* three threads that share the pool.                                      *)
BufferBalance ==
  free + Len(tx_queue) + Processing + rx_queue = PoolSize

(* Requests whose answer has not given the semaphore, and the semaphore    *)
(* itself, are accounted for: one for the wait in progress, one for each   *)
(* wait given up, and one for a token of an earlier window.                *)
InFlightBound ==
  (sent - processed) + Answers + sat_sem
    <= timeouts + One(at = "wait") + leftover

(* Outside a window nothing of the last one is left but sat_sem. With the  *)
(* other parts it is inductive: no step of the network core or of a        *)
(* callback can start from what a closed window left.                      *)
ClosedIsEmpty ==
  at = "off" =>
    /\ sent = 0 /\ processed = 0 /\ tx_thread = "idle"
    /\ to_net = <<>> /\ tx_queue = <<>> /\ Answers = 0

IndInv ==
  TypeOK /\ InOrder /\ BufferBalance /\ InFlightBound /\ ClosedIsEmpty

(* The receive callback and sat_tx_thread both wait for ever for a buffer  *)
(* of one pool, and each may hold what the other waits for. They cannot    *)
(* until the application has given up as many waits as there are buffers.  *)
PoolStuck == tx_thread = "answer" /\ free = 0 /\ rx_queue = 0
PoolNeverStuck == timeouts + leftover < PoolSize => ~PoolStuck

(* The token that ends a wait is the answer to the request just made, and  *)
(* the network core has processed it, provided no wait of the window was   *)
(* given up and the window did not open on a token of an earlier one.      *)
AckIsOwn ==
  [][TakeAck /\ timeouts = 0 /\ leftover = 0 => processed = sent]_vars

(* A request is answered, whatever the threads and the pool do, unless an  *)
(* answer is lost or waits were given up up to the size of the pool: no    *)
(* wait of main() is ended by its time-out alone.                          *)
AckArrives ==
  (at = "wait" /\ ~lost /\ timeouts + leftover < PoolSize)
    ~> (at # "wait" \/ lost)

(* Once time-outs fire, main() leaves the window whatever is lost or fails *)
(* and even if the network core is stuck.                                  *)
WindowCloses == WF_vars(TimeOut) => (at # "off" ~> at = "off")

(* The link is SatRequests: in order, at most once, one answer each.       *)
Requests == INSTANCE SatRequests WITH
  open <- at # "off", asked <- sent, processed <- processed,
  answers <- Answers, token <- sat_sem
LinkRefines == Requests!Spec

(* sat_ipc.h:44 calls SAT_CMD_OK the acknowledgement that the previous     *)
(* command succeeded: the wait of ipc_send ends when its own request has   *)
(* been processed. A late answer breaks it.                                *)
AckFollowsCommand == [][TakeAck => processed = sent]_vars

(* sat.h:98 says that sat_is_transmitting is true while sat_transmit() is  *)
(* executing and false otherwise. A failed sending returns without it.     *)
TransmittingOnlyInside == transmitting => at \in {"send", "wait", "loop"}

=============================================================================
