----------------------------- MODULE HciBridge -----------------------------
(***************************************************************************)
(* The network core while it runs the Bluetooth controller: what comes over *)
(* the endpoint "nrf_bt_hci" from the host on the application core is put  *)
(* into a buffer and handed to the controller, and the controller's events *)
(* go back (app/cpunet/src/main.c). The host, the controller, the pools and *)
(* the shared-memory rings are the SDK's and are modelled as main.c uses   *)
(* them.                                                                   *)
(*                                                                         *)
(* A packet is its kind and its number among those of its kind; its event  *)
(* (command complete, or number of completed packets) carries the same     *)
(* pair. X_Fault beside X is a faulty variant that no behaviour uses.      *)
(***************************************************************************)
EXTENDS Naturals, Sequences, FiniteSets

CONSTANTS
  Kinds,       \* HCI_IPC_CMD, HCI_IPC_ACL, HCI_IPC_ISO, those in use
  Pool,        \* for each kind, the buffers there are for packets to send
  Credit,      \* for each kind, the packets the host sends without an event
  EventPool,   \* the buffers there are for events
  RingSize,    \* messages a ring holds
  MaxPackets,  \* bound: packets of one kind
  Faults       \* what may go wrong

FaultKinds == {"broken", "refused", "unasked"}

ASSUME KindsAssumption == Kinds \subseteq {"cmd", "acl", "iso"}
ASSUME PoolAssumption == Pool \in [Kinds -> Nat] /\ Credit \in [Kinds -> Nat]
ASSUME SizeAssumption ==
  EventPool \in Nat \ {0} /\ RingSize \in Nat \ {0} /\ MaxPackets \in Nat
ASSUME FaultsAssumption == Faults \subseteq FaultKinds

VARIABLES
  bound,       \* ipc_bound_sem has been given
  sent,        \* for each kind, the packets the host has sent
  answered,    \* for each kind, the events that have come back to it
  to_net,      \* the ring to this core
  free,        \* for each kind, its free buffers
  tx_queue,
  handling,    \* the packet tx_thread has passed to bt_send, if any
  answering,   \* the controller is done with it and releases its buffer
  on_air,      \* data the controller has copied and not yet completed
  event_free,  \* free event buffers
  rx_queue,
  forwarding,  \* the event main() sends, if any
  to_host,     \* the ring to the host
  lost         \* history: kinds of which a packet was broken or refused

vars == <<bound, sent, answered, to_net, free, tx_queue, handling, answering,
          on_air, event_free, rx_queue, forwarding, to_host, lost>>

Packet == [kind : Kinds, n : 1..MaxPackets]
Unasked == [kind |-> "event", n |-> 0]
Event == Packet \cup {Unasked}

Init ==
  /\ bound = FALSE
  /\ sent = [k \in Kinds |-> 0] /\ answered = [k \in Kinds |-> 0]
  /\ to_net = <<>> /\ free = Pool
  /\ tx_queue = <<>> /\ handling = <<>> /\ answering = FALSE
  /\ on_air = <<>> /\ event_free = EventPool
  /\ rx_queue = <<>> /\ forwarding = <<>> /\ to_host = <<>>
  /\ lost = {}

-----------------------------------------------------------------------------
(* hci_ept_bound: main() starts to forward, and the host to send.          *)
Bind ==
  /\ ~bound
  /\ bound' = TRUE
  /\ UNCHANGED <<sent, answered, to_net, free, tx_queue, handling, answering,
                 on_air, event_free, rx_queue, forwarding, to_host, lost>>

(* The host keeps to its credit: it sends the next packet of a kind when   *)
(* few enough of the last are without an event.                            *)
HostSend(k) ==
  /\ bound
  /\ sent[k] < MaxPackets
  /\ sent[k] - answered[k] < Credit[k]
  /\ Len(to_net) < RingSize
  /\ sent' = [sent EXCEPT ![k] = @ + 1]
  /\ to_net' = Append(to_net, [kind |-> k, n |-> sent'[k]])
  /\ UNCHANGED <<bound, answered, free, tx_queue, handling, answering, on_air,
                 event_free, rx_queue, forwarding, to_host, lost>>

HostReceive ==
  /\ to_host # <<>>
  /\ LET k == Head(to_host).kind IN
       answered' = IF k \in Kinds THEN [answered EXCEPT ![k] = @ + 1]
                                  ELSE answered
  /\ to_host' = Tail(to_host)
  /\ UNCHANGED <<bound, sent, to_net, free, tx_queue, handling, answering,
                 on_air, event_free, rx_queue, forwarding, lost>>

-----------------------------------------------------------------------------
(* hci_ept_recv, hci_ipc_rx and the receive function of the kind, in the   *)
(* callback of the ring, where nothing may wait.                           *)

(* A whole packet gets a buffer and a place in the queue...                *)
ReceivePacket ==
  /\ to_net # <<>>
  /\ LET p == Head(to_net) IN
       /\ free[p.kind] > 0
       /\ free' = [free EXCEPT ![p.kind] = @ - 1]
       /\ tx_queue' = Append(tx_queue, p)
  /\ to_net' = Tail(to_net)
  /\ UNCHANGED <<bound, sent, answered, handling, answering, on_air,
                 event_free, rx_queue, forwarding, to_host, lost>>

(* ...or is dropped if there is none.                                      *)
DropPacket ==
  /\ to_net # <<>>
  /\ free[Head(to_net).kind] = 0
  /\ to_net' = Tail(to_net)
  /\ UNCHANGED <<bound, sent, answered, free, tx_queue, handling, answering,
                 on_air, event_free, rx_queue, forwarding, to_host, lost>>

(* One that is shorter or longer than its header says, of no known kind, or *)
(* too long for a buffer is dropped, and its buffer, if it had one already, *)
(* released.                                                               *)
BrokenPacket_KeepsBuffer ==
  /\ "broken" \in Faults
  /\ to_net # <<>>
  /\ LET k == Head(to_net).kind IN
       /\ lost' = lost \cup {k}
       /\ free' = [free EXCEPT ![k] = IF @ > 0 THEN @ - 1 ELSE @]
  /\ to_net' = Tail(to_net)
  /\ UNCHANGED <<bound, sent, answered, tx_queue, handling, answering, on_air,
                 event_free, rx_queue, forwarding, to_host>>

BrokenPacket ==
  /\ "broken" \in Faults
  /\ to_net # <<>>
  /\ lost' = lost \cup {Head(to_net).kind}
  /\ to_net' = Tail(to_net)
  /\ UNCHANGED <<bound, sent, answered, free, tx_queue, handling, answering,
                 on_air, event_free, rx_queue, forwarding, to_host>>

-----------------------------------------------------------------------------
(* tx_thread: bt_send on the first of the queue.                           *)
TakePacket ==
  /\ tx_queue # <<>> /\ handling = <<>>
  /\ handling' = <<Head(tx_queue)>>
  /\ tx_queue' = Tail(tx_queue)
  /\ UNCHANGED <<bound, sent, answered, to_net, free, answering, on_air,
                 event_free, rx_queue, forwarding, to_host, lost>>

Release(p) == free' = [free EXCEPT ![p.kind] = @ + 1]

(* bt_send fails: the buffer is released here.                             *)
SendRefused ==
  /\ "refused" \in Faults
  /\ handling # <<>> /\ ~answering
  /\ Release(handling[1])
  /\ lost' = lost \cup {handling[1].kind}
  /\ handling' = <<>>
  /\ UNCHANGED <<bound, sent, answered, to_net, tx_queue, answering, on_air,
                 event_free, rx_queue, forwarding, to_host>>

(* The controller carries out a command and queues its event, for which it *)
(* waits for a buffer, and then releases the command's: the host may have  *)
(* sent the next before that.                                              *)
AnswerCommand ==
  /\ handling # <<>> /\ ~answering
  /\ handling[1].kind = "cmd"
  /\ event_free > 0
  /\ event_free' = event_free - 1
  /\ rx_queue' = Append(rx_queue, handling[1])
  /\ answering' = TRUE
  /\ UNCHANGED <<bound, sent, answered, to_net, free, tx_queue, handling,
                 on_air, forwarding, to_host, lost>>

ReleaseCommand ==
  /\ answering
  /\ Release(handling[1])
  /\ answering' = FALSE /\ handling' = <<>>
  /\ UNCHANGED <<bound, sent, answered, to_net, tx_queue, on_air, event_free,
                 rx_queue, forwarding, to_host, lost>>

(* It copies data and releases its buffer at once; the event comes when the *)
(* data has been sent.                                                     *)
AcceptData ==
  /\ handling # <<>>
  /\ handling[1].kind # "cmd"
  /\ on_air' = Append(on_air, handling[1])
  /\ Release(handling[1])
  /\ handling' = <<>>
  /\ UNCHANGED <<bound, sent, answered, to_net, tx_queue, answering,
                 event_free, rx_queue, forwarding, to_host, lost>>

CompleteData ==
  /\ on_air # <<>>
  /\ event_free > 0
  /\ event_free' = event_free - 1
  /\ rx_queue' = Append(rx_queue, Head(on_air))
  /\ on_air' = Tail(on_air)
  /\ UNCHANGED <<bound, sent, answered, to_net, free, tx_queue, handling,
                 answering, forwarding, to_host, lost>>

(* An event nobody asked for: a connection, a disconnection.               *)
UnaskedEvent ==
  /\ "unasked" \in Faults
  /\ event_free > 0
  /\ event_free' = event_free - 1
  /\ rx_queue' = Append(rx_queue, Unasked)
  /\ UNCHANGED <<bound, sent, answered, to_net, free, tx_queue, handling,
                 answering, on_air, forwarding, to_host, lost>>

-----------------------------------------------------------------------------
(* main(): the next event is taken from the queue, and sent again and again *)
(* until the ring takes it.                                                *)
TakeEvent ==
  /\ bound
  /\ rx_queue # <<>> /\ forwarding = <<>>
  /\ forwarding' = <<Head(rx_queue)>>
  /\ rx_queue' = Tail(rx_queue)
  /\ UNCHANGED <<bound, sent, answered, to_net, free, tx_queue, handling,
                 answering, on_air, event_free, to_host, lost>>

SendEvent_NoRetry ==
  /\ forwarding # <<>>
  /\ to_host' = IF Len(to_host) < RingSize THEN to_host \o forwarding
                                           ELSE to_host
  /\ forwarding' = <<>>
  /\ event_free' = event_free + 1
  /\ UNCHANGED <<bound, sent, answered, to_net, free, tx_queue, handling,
                 answering, on_air, rx_queue, lost>>

SendEvent_Twice ==
  /\ forwarding # <<>>
  /\ Len(to_host) < RingSize
  /\ to_host' = to_host \o forwarding
  /\ forwarding' = <<>>
  /\ event_free' = event_free + 2
  /\ UNCHANGED <<bound, sent, answered, to_net, free, tx_queue, handling,
                 answering, on_air, rx_queue, lost>>

SendEvent ==
  /\ forwarding # <<>>
  /\ Len(to_host) < RingSize
  /\ to_host' = to_host \o forwarding
  /\ forwarding' = <<>>
  /\ event_free' = event_free + 1
  /\ UNCHANGED <<bound, sent, answered, to_net, free, tx_queue, handling,
                 answering, on_air, rx_queue, lost>>

-----------------------------------------------------------------------------
Receive == ReceivePacket \/ DropPacket

Controller == AnswerCommand \/ ReleaseCommand \/ AcceptData

Next ==
  \/ Bind \/ HostReceive \/ \E k \in Kinds : HostSend(k)
  \/ Receive \/ BrokenPacket
  \/ TakePacket \/ SendRefused \/ Controller \/ CompleteData \/ UnaskedEvent
  \/ TakeEvent \/ SendEvent

(* The callback and the threads run when they can, the host takes what is  *)
(* in its ring, and the waiters for an event buffer are served in turn.    *)
Fairness ==
  /\ WF_vars(Bind) /\ WF_vars(HostReceive)
  /\ WF_vars(Receive) /\ WF_vars(TakePacket)
  /\ SF_vars(Controller) /\ SF_vars(CompleteData)
  /\ WF_vars(TakeEvent) /\ WF_vars(SendEvent)

Spec == Init /\ [][Next]_vars /\ Fairness

-----------------------------------------------------------------------------
TypeOK ==
  /\ bound \in BOOLEAN /\ answering \in BOOLEAN
  /\ sent \in [Kinds -> 0..MaxPackets]
  /\ answered \in [Kinds -> 0..MaxPackets]
  /\ to_net \in Seq(Packet) /\ Len(to_net) <= RingSize
  /\ free \in [Kinds -> Nat] /\ \A k \in Kinds : free[k] <= Pool[k]
  /\ tx_queue \in Seq(Packet) /\ handling \in Seq(Packet)
  /\ on_air \in Seq(Packet)
  /\ event_free \in 0..EventPool
  /\ rx_queue \in Seq(Event) /\ forwarding \in Seq(Event)
  /\ to_host \in Seq(Event) /\ Len(to_host) <= RingSize
  /\ lost \subseteq Kinds

OfKind(s, k) == {i \in 1..Len(s) : s[i].kind = k}
Count(s, k) == Cardinality(OfKind(s, k))
Numbers(s, k) == {s[i].n : i \in OfKind(s, k)}
InOrder(s, k) == \A i, j \in OfKind(s, k) : i < j => s[i].n < s[j].n

(* Every buffer is free or holds one packet, or one event, on its way.     *)
BufferBalance ==
  /\ \A k \in Kinds :
       free[k] + Count(tx_queue, k) + Count(handling, k) = Pool[k]
  /\ event_free + Len(rx_queue) + Len(forwarding) = EventPool

(* What the host has sent and not got an event for, in the order in which  *)
(* it will come back.                                                      *)
Coming == to_host \o forwarding \o rx_queue
Handled == IF answering THEN <<>> ELSE handling
UnderWay == Coming \o on_air \o Handled \o tx_queue \o to_net

(* A buffer more than the host has credit, for commands, because the event *)
(* of a command is on its way before its buffer is free.                   *)
Enough(k) == Pool[k] >= Credit[k] + (IF k = "cmd" THEN 1 ELSE 0)

EachPacketOnce ==
  \A k \in Kinds :
    /\ InOrder(UnderWay, k)
    /\ Numbers(UnderWay, k) \subseteq (answered[k] + 1)..sent[k]
    /\ Enough(k) /\ k \notin lost =>
         Numbers(UnderWay, k) = (answered[k] + 1)..sent[k]

(* No buffer is lost or released twice on any path of the callback and the *)
(* two threads (cpunet/src/main.c:70-241, 291-296); no packet comes twice  *)
(* or before an earlier one of its kind; and each is somewhere, none       *)
(* dropped for want of a buffer and no event lost in a full ring, if there *)
(* are buffers enough for the credit the host has.                         *)
NothingLost == BufferBalance /\ EachPacketOnce

(* Every packet the host sends is answered (cpunet/src/main.c:223-240,     *)
(* 243-297, 519-524), however full the rings and the event pool are, if    *)
(* there are buffers enough of its kind and none of its kind was broken or *)
(* refused.                                                                *)
PacketAnswered ==
  \A k \in Kinds : \A m \in 1..MaxPackets :
    (sent[k] >= m /\ Enough(k)) ~> (answered[k] >= m \/ k \in lost)

=============================================================================
