--------------------------- MODULE SatLinkProofs ---------------------------
(***************************************************************************)
(* Proofs about the request and acknowledgement link, for every size of    *)
(* the pool and of the ring, every number of packets and every set of      *)
(* faults.                                                                 *)
(***************************************************************************)
EXTENDS SatLink, TLAPS

USE DEF appVars, netVars, histVars, vars

(* What appending a request to a queue gives.                              *)
LEMMA AppendFacts ==
  ASSUME NEW s \in Seq(Nat), NEW x \in Nat
  PROVE  /\ Append(s, x) \in Seq(Nat)
         /\ Len(Append(s, x)) = Len(s) + 1
         /\ \A i \in 1..Len(s) : Append(s, x)[i] = s[i]
         /\ Append(s, x)[Len(s) + 1] = x
  OBVIOUS

(* What taking the oldest request of a queue leaves.                       *)
LEMMA TailFacts ==
  ASSUME NEW s \in Seq(Nat), s # <<>>
  PROVE  /\ Head(s) \in Nat /\ Head(s) = s[1]
         /\ Tail(s) \in Seq(Nat)
         /\ Len(s) \in Nat \ {0}
         /\ Len(Tail(s)) = Len(s) - 1
         /\ \A i \in 1..Len(Tail(s)) : Tail(s)[i] = s[i + 1]
  OBVIOUS

(* The network core boots with empty rings and queues and a full pool.     *)
LEMMA InitInv == Init => IndInv
<1> SUFFICES ASSUME Init PROVE IndInv
  OBVIOUS
<1> USE PoolAssumption, PacketsAssumption DEF Init
<1>1. <<>> \in Seq(Nat) /\ Len(<<>>) = 0
  OBVIOUS
<1>2. TypeOK
  <2>1. at \in Places /\ cmd \in Commands /\ packets \in 0..MaxPackets
    BY DEF Places, Commands
  <2>2. free \in 0..PoolSize
    OBVIOUS
  <2>3. to_net \in Seq(Nat) /\ tx_queue \in Seq(Nat)
    BY <1>1
  <2>4. QED
    BY <2>1, <2>2, <2>3 DEF TypeOK
<1>3. InOrder
  BY <1>1 DEF InOrder, Processing, One
<1>4. BufferBalance
  BY <1>1 DEF BufferBalance, Processing, One
<1>5. InFlightBound /\ ClosedIsEmpty
  BY DEF InFlightBound, ClosedIsEmpty, Answers, One
<1>6. QED
  BY <1>2, <1>3, <1>4, <1>5 DEF IndInv

(* What ep_recv does to the ring and to the queue of sat_tx_thread.        *)
LEMMA ReceiveFacts ==
  ASSUME TypeOK, ReceiveRequest
  PROVE  /\ to_net' \in Seq(Nat) /\ Len(to_net) \in Nat \ {0}
         /\ Len(to_net') = Len(to_net) - 1
         /\ \A i \in 1..Len(to_net') : to_net'[i] = to_net[i + 1]
         /\ tx_queue' \in Seq(Nat) /\ Len(tx_queue) \in Nat
         /\ Len(tx_queue') = Len(tx_queue) + 1
         /\ \A i \in 1..Len(tx_queue) : tx_queue'[i] = tx_queue[i]
         /\ tx_queue'[Len(tx_queue) + 1] = to_net[1]
<1>1. to_net \in Seq(Nat) /\ to_net # <<>> /\ to_net' = Tail(to_net)
  BY DEF ReceiveRequest, TypeOK
<1>2. tx_queue \in Seq(Nat) /\ tx_queue' = Append(tx_queue, Head(to_net))
  BY DEF ReceiveRequest, TypeOK
<1>3. QED
  BY <1>1, <1>2, TailFacts, AppendFacts

(* The request sat_tx_thread takes is the first of its queue.             *)
LEMMA TakeFacts ==
  ASSUME TypeOK, TakeRequest
  PROVE  /\ current' \in Nat /\ current' = tx_queue[1]
         /\ tx_queue' \in Seq(Nat) /\ Len(tx_queue) \in Nat \ {0}
         /\ Len(tx_queue') = Len(tx_queue) - 1
         /\ \A i \in 1..Len(tx_queue') : tx_queue'[i] = tx_queue[i + 1]
  BY TailFacts DEF TakeRequest, TypeOK

(* The request main() makes is the last on the ring.                       *)
LEMMA SendFacts ==
  ASSUME TypeOK, SendRequest
  PROVE  /\ to_net' \in Seq(Nat) /\ Len(to_net) \in Nat
         /\ Len(to_net') = Len(to_net) + 1
         /\ \A i \in 1..Len(to_net) : to_net'[i] = to_net[i]
         /\ to_net'[Len(to_net) + 1] = sent + 1
<1>1. sent + 1 \in Nat
  BY DEF TypeOK
<1>2. QED
  BY <1>1, AppendFacts DEF SendRequest, TypeOK

(* The two waits for a buffer and the two releases keep the pool whole.    *)
LEMMA BalanceStep ==
  ASSUME TypeOK, BufferBalance, [Next]_vars
  PROVE  BufferBalance'
<1> USE DEF TypeOK, BufferBalance, Processing, One
<1>1. CASE UNCHANGED vars
  BY <1>1
<1>2. CASE OpenLink
  BY <1>2 DEF OpenLink
<1>3. CASE SendRequest
  BY <1>3 DEF SendRequest
<1>4. CASE SendFails
  BY <1>4 DEF SendFails, Proceed
<1>5. CASE TakeAck
  BY <1>5 DEF TakeAck, Proceed
<1>6. CASE TimeOut
  BY <1>6 DEF TimeOut, Proceed
<1>7. CASE BuildPacket
  BY <1>7 DEF BuildPacket
<1>8. CASE NextPacket
  BY <1>8 DEF NextPacket
<1>9. CASE TransmitFails
  BY <1>9 DEF TransmitFails
<1>10. CASE WindowOver
  BY <1>10 DEF WindowOver
<1>11. CASE CloseLink
  <2>1. <<>> \in Seq(Nat) /\ Len(<<>>) = 0
    OBVIOUS
  <2>2. QED
    BY <1>11, <2>1 DEF CloseLink
<1>12. CASE ReceiveAnswer
  BY <1>12 DEF ReceiveAnswer
<1>13. CASE ReceiveRequest
  <2>1. /\ free \in Nat /\ rx_queue \in Nat /\ free' = free - 1
        /\ rx_queue' = rx_queue /\ tx_thread' = tx_thread
    BY <1>13 DEF ReceiveRequest
  <2>2. Processing \in {0, 1} /\ Processing' = Processing
    BY <2>1
  <2>3. QED
    BY SMTT(30), <1>13, ReceiveFacts, <2>1, <2>2 DEF BufferBalance
<1>14. CASE TakeRequest
  BY <1>14, TakeFacts DEF TakeRequest
<1>15. CASE ProcessRequest
  BY <1>15 DEF ProcessRequest
<1>16. CASE AnswerRequest
  BY <1>16 DEF AnswerRequest
<1>17. CASE ForwardAnswer
  BY <1>17 DEF ForwardAnswer
<1>18. QED
  BY <1>1, <1>2, <1>3, <1>4, <1>5, <1>6, <1>7, <1>8, <1>9, <1>10, <1>11,
     <1>12, <1>13, <1>14, <1>15, <1>16, <1>17
     DEF Next, Application, NetworkCore, SatTxThread, Request, Wait, Transmit

(* No step takes a variable out of its type; that a buffer released fits   *)
(* the pool is the balance.                                                *)
LEMMA TypeStep ==
  ASSUME TypeOK, BufferBalance, [Next]_vars
  PROVE  TypeOK'
<1> USE DEF TypeOK, Places, Commands
<1>1. CASE UNCHANGED vars
  BY <1>1
<1>2. CASE OpenLink
  BY PacketsAssumption, <1>2 DEF OpenLink
<1>3. CASE SendRequest
  BY <1>3, SendFacts DEF SendRequest
<1>4. CASE SendFails
  BY <1>4 DEF SendFails, Proceed
<1>5. CASE TakeAck
  BY <1>5 DEF TakeAck, Proceed
<1>6. CASE TimeOut
  BY <1>6 DEF TimeOut, Proceed
<1>7. CASE BuildPacket
  BY <1>7 DEF BuildPacket
<1>8. CASE NextPacket
  BY PacketsAssumption, <1>8 DEF NextPacket
<1>9. CASE TransmitFails
  BY <1>9 DEF TransmitFails
<1>10. CASE WindowOver
  BY <1>10 DEF WindowOver
<1>11. CASE CloseLink
  <2>1. <<>> \in Seq(Nat)
    OBVIOUS
  <2>2. free' \in 0..PoolSize
    BY PoolAssumption, <1>11 DEF CloseLink
  <2>3. to_net' \in Seq(Nat) /\ tx_queue' \in Seq(Nat)
    BY <1>11, <2>1 DEF CloseLink
  <2>4. QED
    BY <1>11, <2>2, <2>3 DEF CloseLink
<1>12. CASE ReceiveAnswer
  BY <1>12 DEF ReceiveAnswer, SemGive
<1>13. CASE ReceiveRequest
  <2>1. free' \in 0..PoolSize
    BY PoolAssumption, <1>13 DEF ReceiveRequest
  <2>2. QED
    BY <1>13, ReceiveFacts, <2>1 DEF ReceiveRequest
<1>14. CASE TakeRequest
  BY <1>14, TakeFacts DEF TakeRequest
<1>15. CASE ProcessRequest
  BY <1>15 DEF ProcessRequest, BufferBalance, Processing, One
<1>16. CASE AnswerRequest
  BY <1>16 DEF AnswerRequest, BufferBalance, Processing, One
<1>17. CASE ForwardAnswer
  <2>1. free' \in 0..PoolSize /\ rx_queue' \in Nat
    BY <1>17 DEF ForwardAnswer, BufferBalance, Processing, One
  <2>2. to_app' \in Nat
    BY <1>17 DEF ForwardAnswer
  <2>3. lost' \in BOOLEAN
    BY <1>17, Zenon DEF ForwardAnswer
  <2>4. QED
    BY <1>17, <2>1, <2>2, <2>3 DEF ForwardAnswer
<1>18. QED
  BY <1>1, <1>2, <1>3, <1>4, <1>5, <1>6, <1>7, <1>8, <1>9, <1>10, <1>11,
     <1>12, <1>13, <1>14, <1>15, <1>16, <1>17
     DEF Next, Application, NetworkCore, SatTxThread, Request, Wait, Transmit

(* Requests stay numbered along the ring, the queue and the thread.        *)
LEMMA OrderStep ==
  ASSUME TypeOK, InOrder, ClosedIsEmpty, [Next]_vars
  PROVE  InOrder'
<1>1. CASE UNCHANGED vars
  BY <1>1 DEF TypeOK, InOrder, Processing, One
<1>2. CASE OpenLink
  BY <1>2 DEF OpenLink, TypeOK, InOrder, Processing, One
<1>3. CASE SendRequest
  <2>1. /\ tx_queue' = tx_queue /\ processed' = processed
        /\ Processing' = Processing /\ sent' = sent + 1
        /\ tx_thread' = tx_thread /\ current' = current
    BY <1>3 DEF SendRequest, Processing
  <2>2. sent = processed + Processing + Len(tx_queue) + Len(to_net)
    BY DEF InOrder
  <2>3. Len(tx_queue) \in Nat /\ processed \in Nat /\ Processing \in Nat
    BY DEF TypeOK, Processing, One
  <2>4. \A i \in 1..Len(to_net') :
          to_net'[i] = (processed + Processing + Len(tx_queue) + i)'
    <3> TAKE i \in 1..Len(to_net')
    <3>1. CASE i = Len(to_net) + 1
      BY <1>3, SendFacts, <2>1, <2>2, <2>3, <3>1
    <3>2. CASE i # Len(to_net) + 1
      <4>1. i \in 1..Len(to_net)
        BY <1>3, SendFacts, <3>2
      <4>2. to_net[i] = processed + Processing + Len(tx_queue) + i
        BY <4>1 DEF InOrder
      <4>3. QED
        BY <1>3, SendFacts, <2>1, <4>1, <4>2
    <3>3. QED
      BY <3>1, <3>2
  <2>5. QED
    BY <1>3, SendFacts, <2>1, <2>2, <2>3, <2>4 DEF InOrder
<1>4. CASE SendFails
  BY <1>4 DEF SendFails, TypeOK, InOrder, Processing, One, Proceed
<1>5. CASE TakeAck
  BY <1>5 DEF TakeAck, TypeOK, InOrder, Processing, One, Proceed
<1>6. CASE TimeOut
  BY <1>6 DEF TimeOut, TypeOK, InOrder, Processing, One, Proceed
<1>7. CASE BuildPacket
  BY <1>7 DEF BuildPacket, TypeOK, InOrder, Processing, One
<1>8. CASE NextPacket
  BY <1>8 DEF NextPacket, TypeOK, InOrder, Processing, One
<1>9. CASE TransmitFails
  BY <1>9 DEF TransmitFails, TypeOK, InOrder, Processing, One
<1>10. CASE WindowOver
  BY <1>10 DEF WindowOver, TypeOK, InOrder, Processing, One
<1>11. CASE CloseLink
  <2>1. <<>> \in Seq(Nat) /\ Len(<<>>) = 0
    OBVIOUS
  <2>2. QED
    BY <1>11, <2>1 DEF CloseLink, InOrder, Processing, One
<1>12. CASE ReceiveAnswer
  BY <1>12 DEF ReceiveAnswer, TypeOK, InOrder, Processing, One
<1>13. CASE ReceiveRequest
  <2>1. /\ sent' = sent /\ processed' = processed
        /\ Processing' = Processing
        /\ tx_thread' = tx_thread /\ current' = current
    BY <1>13 DEF ReceiveRequest, Processing
  <2>2. /\ sent \in Nat /\ processed \in Nat /\ Processing \in Nat
        /\ sent = processed + Processing + Len(tx_queue) + Len(to_net)
    BY DEF InOrder, TypeOK, Processing, One
  <2>3. to_net[1] = processed + Processing + Len(tx_queue) + 1
    BY <1>13, ReceiveFacts DEF InOrder
  <2>4. \A i \in 1..Len(tx_queue') :
          tx_queue'[i] = (processed + Processing + i)'
    <3> TAKE i \in 1..Len(tx_queue')
    <3>1. CASE i = Len(tx_queue) + 1
      BY <1>13, ReceiveFacts, <2>1, <2>2, <2>3, <3>1
    <3>2. CASE i # Len(tx_queue) + 1
      <4>1. i \in 1..Len(tx_queue)
        BY <1>13, ReceiveFacts, <3>2
      <4>2. tx_queue[i] = processed + Processing + i
        BY <4>1 DEF InOrder
      <4>3. QED
        BY <1>13, ReceiveFacts, <2>1, <4>1, <4>2
    <3>3. QED
      BY <3>1, <3>2
  <2>5. /\ Len(to_net) \in Nat \ {0} /\ Len(tx_queue) \in Nat
        /\ Len(to_net') = Len(to_net) - 1
        /\ Len(tx_queue') = Len(tx_queue) + 1
        /\ \A i \in 1..Len(to_net') : to_net'[i] = to_net[i + 1]
    BY <1>13, ReceiveFacts
  <2>6. \A i \in 1..Len(to_net') :
          to_net'[i] = (processed + Processing + Len(tx_queue) + i)'
    <3> TAKE i \in 1..Len(to_net')
    <3>1. i + 1 \in 1..Len(to_net) /\ to_net'[i] = to_net[i + 1]
      BY <2>5
    <3>2. to_net[i + 1] = processed + Processing + Len(tx_queue) + (i + 1)
      BY <3>1 DEF InOrder
    <3>3. QED
      BY <2>1, <2>2, <2>5, <3>1, <3>2
  <2>7. QED
    BY <2>1, <2>2, <2>4, <2>5, <2>6 DEF InOrder
<1>14. CASE TakeRequest
  BY <1>14, TakeFacts DEF TakeRequest, TypeOK, InOrder, Processing, One
<1>15. CASE ProcessRequest
  BY <1>15 DEF ProcessRequest, TypeOK, InOrder, Processing, One
<1>16. CASE AnswerRequest
  BY <1>16 DEF AnswerRequest, TypeOK, InOrder, Processing, One
<1>17. CASE ForwardAnswer
  BY <1>17 DEF ForwardAnswer, TypeOK, InOrder, Processing, One
<1>18. QED
  BY <1>1, <1>2, <1>3, <1>4, <1>5, <1>6, <1>7, <1>8, <1>9, <1>10, <1>11,
     <1>12, <1>13, <1>14, <1>15, <1>16, <1>17
     DEF Next, Application, NetworkCore, SatTxThread, Request, Wait, Transmit

(* Each wait in progress or given up accounts for one answer.              *)
LEMMA FlightStep ==
  ASSUME TypeOK, InOrder, InFlightBound, ClosedIsEmpty, [Next]_vars
  PROVE  InFlightBound'
<1> USE DEF TypeOK, InFlightBound, Answers, One
<1>1. CASE UNCHANGED vars
  BY <1>1
<1>2. CASE OpenLink
  BY <1>2 DEF OpenLink
<1>3. CASE SendRequest
  BY <1>3 DEF SendRequest
<1>4. CASE SendFails
  BY <1>4 DEF SendFails, Proceed
<1>5. CASE TakeAck
  BY <1>5 DEF TakeAck, Proceed
<1>6. CASE TimeOut
  BY <1>6 DEF TimeOut, Proceed
<1>7. CASE BuildPacket
  BY <1>7 DEF BuildPacket
<1>8. CASE NextPacket
  BY <1>8 DEF NextPacket
<1>9. CASE TransmitFails
  BY <1>9 DEF TransmitFails
<1>10. CASE WindowOver
  BY <1>10 DEF WindowOver
<1>11. CASE CloseLink
  BY <1>11 DEF CloseLink
<1>12. CASE ReceiveAnswer
  BY <1>12 DEF ReceiveAnswer, SemGive
<1>13. CASE ReceiveRequest
  BY <1>13 DEF ReceiveRequest
<1>14. CASE TakeRequest
  BY <1>14 DEF TakeRequest
<1>15. CASE ProcessRequest
  <2>1. processed' = processed + 1 /\ UNCHANGED <<sent, sat_sem, at>>
    BY <1>15 DEF ProcessRequest, InOrder, appVars
  <2>2. /\ tx_thread = "process" /\ tx_thread' = "answer"
        /\ UNCHANGED <<rx_queue, to_app, timeouts, leftover>>
    BY <1>15 DEF ProcessRequest, histVars
  <2> QED
    BY SMTT(30), <2>1, <2>2
<1>16. CASE AnswerRequest
  BY SMTT(30), <1>16 DEF AnswerRequest
<1>17. CASE ForwardAnswer
  BY SMTT(30), <1>17 DEF ForwardAnswer
<1>18. QED
  BY <1>1, <1>2, <1>3, <1>4, <1>5, <1>6, <1>7, <1>8, <1>9, <1>10, <1>11,
     <1>12, <1>13, <1>14, <1>15, <1>16, <1>17
     DEF Next, Application, NetworkCore, SatTxThread, Request, Wait, Transmit

(* Nothing starts in a closed link.                                        *)
LEMMA ClosedStep ==
  ASSUME TypeOK, ClosedIsEmpty, [Next]_vars
  PROVE  ClosedIsEmpty'
<1> USE DEF TypeOK, ClosedIsEmpty, Answers, One
<1>1. CASE UNCHANGED vars
  BY <1>1
<1>2. CASE OpenLink
  BY <1>2 DEF OpenLink
<1>3. CASE SendRequest
  BY <1>3 DEF SendRequest
<1>4. CASE SendFails
  BY <1>4 DEF SendFails, Proceed
<1>5. CASE TakeAck
  BY <1>5 DEF TakeAck, Proceed
<1>6. CASE TimeOut
  BY <1>6 DEF TimeOut, Proceed
<1>7. CASE BuildPacket
  BY <1>7 DEF BuildPacket
<1>8. CASE NextPacket
  BY <1>8 DEF NextPacket
<1>9. CASE TransmitFails
  BY <1>9 DEF TransmitFails
<1>10. CASE WindowOver
  BY <1>10 DEF WindowOver
<1>11. CASE CloseLink
  BY <1>11 DEF CloseLink
<1>12. CASE ReceiveAnswer
  BY <1>12 DEF ReceiveAnswer
<1>13. CASE ReceiveRequest
  BY <1>13 DEF ReceiveRequest
<1>14. CASE TakeRequest
  BY <1>14 DEF TakeRequest
<1>15. CASE ProcessRequest
  BY <1>15 DEF ProcessRequest
<1>16. CASE AnswerRequest
  BY <1>16 DEF AnswerRequest
<1>17. CASE ForwardAnswer
  BY <1>17 DEF ForwardAnswer
<1>18. QED
  BY <1>1, <1>2, <1>3, <1>4, <1>5, <1>6, <1>7, <1>8, <1>9, <1>10, <1>11,
     <1>12, <1>13, <1>14, <1>15, <1>16, <1>17
     DEF Next, Application, NetworkCore, SatTxThread, Request, Wait, Transmit

(* The inductive invariant survives every step.                            *)
LEMMA StepInv == IndInv /\ [Next]_vars => IndInv'
  BY BalanceStep, TypeStep, OrderStep, FlightStep, ClosedStep DEF IndInv

(* Types, order, balance, bound and the empty closed link hold in every    *)
(* reachable state.                                                        *)
THEOREM Invariance == Spec => []IndInv
<1>1. Init => IndInv
  BY InitInv
<1>2. IndInv /\ [Next]_vars => IndInv'
  BY StepInv
<1>3. QED
  BY <1>1, <1>2, PTL DEF Spec

(* Every variable keeps its type: the semaphore stays binary and no buffer *)
(* beyond those of the pool is ever released.                              *)
THEOREM TypeCorrect == Spec => []TypeOK
<1>1. IndInv => TypeOK
  BY DEF IndInv
<1>2. QED
  BY <1>1, Invariance, PTL

(* Requests are received, queued and processed in the order they were      *)
(* made, each once, in any interleaving of the threads.                    *)
THEOREM OrderCorrect == Spec => []InOrder
<1>1. IndInv => InOrder
  BY DEF IndInv
<1>2. QED
  BY <1>1, Invariance, PTL

(* No buffer of the pool is lost or freed twice.                           *)
THEOREM BalanceCorrect == Spec => []BufferBalance
<1>1. IndInv => BufferBalance
  BY DEF IndInv
<1>2. QED
  BY <1>1, Invariance, PTL

(* No more requests are in flight, with their answers and the semaphore,   *)
(* than a wait in progress, waits given up and a token left by an earlier  *)
(* window: ipc_send waits after each request and the network core answers  *)
(* each once (main.c:65-85, cpunet/src/main.c:372-403, 479-487).           *)
THEOREM BoundCorrect == Spec => []InFlightBound
<1>1. IndInv => InFlightBound
  BY DEF IndInv
<1>2. QED
  BY <1>1, Invariance, PTL

(* The threads that wait for a buffer of the pool do not stop one another  *)
(* before as many waits as there are buffers were given up: a full pool of *)
(* requests and one more whose answer has no buffer are all accounted for. *)
THEOREM PoolCorrect == Spec => []PoolNeverStuck
<1>1. IndInv => PoolNeverStuck
  <2> SUFFICES ASSUME IndInv, PoolStuck
               PROVE  timeouts + leftover >= PoolSize
    BY PoolAssumption
       DEF IndInv, TypeOK, PoolNeverStuck
  <2>1. Processing = 0 /\ Answers = 1 + to_app
    BY DEF PoolStuck, Processing, Answers, One, IndInv, TypeOK
  <2>2. Len(tx_queue) = PoolSize
    BY <2>1, PoolAssumption DEF PoolStuck, IndInv, TypeOK, BufferBalance
  <2>3. sent - processed >= PoolSize
    BY <2>1, <2>2, PoolAssumption DEF IndInv, TypeOK, InOrder
  <2>4. (sent - processed) + Answers + sat_sem <= timeouts + 1 + leftover
    BY DEF IndInv, InFlightBound, TypeOK, One, Answers
  <2>5. QED
    BY <2>1, <2>3, <2>4, PoolAssumption DEF IndInv, TypeOK
<1>2. QED
  BY <1>1, Invariance, PTL

(* The token taken answers the request just made unless a wait was given   *)
(* up or a token left over: with none of these nothing else is in flight.  *)
THEOREM AckCorrect == Spec => AckIsOwn
<1>1. IndInv /\ [Next]_vars
        => [TakeAck /\ timeouts = 0 /\ leftover = 0 => processed = sent]_vars
  <2> SUFFICES ASSUME IndInv, TakeAck, timeouts = 0, leftover = 0
               PROVE  processed = sent
    OBVIOUS
  <2>1. (sent - processed) + Answers + 1 <= 1
    BY DEF TakeAck, IndInv, InFlightBound, TypeOK, One, Answers
  <2>2. Answers \in Nat /\ sent - processed \in Nat
    BY DEF IndInv, TypeOK, InOrder, Answers, Processing, One
  <2>3. QED
    BY <2>1, <2>2 DEF IndInv, TypeOK
<1>2. QED
  BY <1>1, Invariance, PTL DEF Spec, AckIsOwn

(* Every step of the link is a step of SatRequests or a stutter.           *)
LEMMA StepRefines ==
  ASSUME IndInv, [Next]_vars
  PROVE  [Requests!Next]_Requests!vars
<1> USE DEF Requests!vars, Answers, One
<1>0. /\ tx_thread \in {"idle", "process", "answer"}
      /\ rx_queue \in Nat /\ to_app \in Nat
  BY DEF IndInv, TypeOK
<1>1. CASE UNCHANGED vars
  BY <1>1
<1>2. CASE OpenLink
  <2>1. Requests!Open
    BY <1>2 DEF OpenLink, Requests!Open, IndInv, ClosedIsEmpty
  <2>2. QED
    BY <2>1 DEF Requests!Next
<1>3. CASE SendRequest
  <2>1. Requests!Ask
    BY <1>3 DEF SendRequest, Requests!Ask
  <2>2. QED
    BY <2>1 DEF Requests!Next
<1>4. CASE \/ SendFails \/ BuildPacket \/ NextPacket
           \/ TransmitFails \/ WindowOver
  BY <1>4 DEF SendFails, BuildPacket, NextPacket, TransmitFails, WindowOver,
              Proceed
<1>5. CASE TakeAck
  <2>1. Requests!Take
    BY <1>5 DEF TakeAck, Proceed, Requests!Take
  <2>2. QED
    BY <2>1 DEF Requests!Next
<1>6. CASE TimeOut
  BY <1>6 DEF TimeOut, Proceed
<1>7. CASE CloseLink
  <2>1. Requests!Close
    BY <1>7 DEF CloseLink, Requests!Close
  <2>2. QED
    BY <2>1 DEF Requests!Next
<1>8. CASE ReceiveAnswer
  <2>1. Requests!Deliver
    BY <1>0, <1>8 DEF ReceiveAnswer, SemGive, Requests!Deliver
  <2>2. QED
    BY <2>1 DEF Requests!Next
<1>9. CASE ReceiveRequest \/ TakeRequest
  BY <1>9 DEF ReceiveRequest, TakeRequest
<1>10. CASE ProcessRequest
  <2>1. at # "off" /\ processed < sent /\ processed' = processed + 1
    BY <1>10 DEF ProcessRequest, IndInv, TypeOK, ClosedIsEmpty, InOrder,
                 Processing
  <2>2. Requests!Process
    BY <1>0, <1>10, <2>1 DEF ProcessRequest, Requests!Process
  <2>3. QED
    BY <2>2 DEF Requests!Next
<1>11. CASE AnswerRequest
  BY <1>0, <1>11 DEF AnswerRequest
<1>12. CASE ForwardAnswer
  <2>1. CASE to_app' = to_app + 1
    BY <1>0, <1>12, <2>1 DEF ForwardAnswer
  <2>2. CASE to_app' = to_app
    <3>1. Requests!Lose
      BY <1>0, <1>12, <2>2 DEF ForwardAnswer, Requests!Lose
    <3>2. QED
      BY <3>1 DEF Requests!Next
  <2>3. QED
    BY <1>12, <2>1, <2>2 DEF ForwardAnswer
<1>13. QED
  BY <1>1, <1>2, <1>3, <1>4, <1>5, <1>6, <1>7, <1>8, <1>9, <1>10, <1>11,
     <1>12
     DEF Next, Application, NetworkCore, SatTxThread, Request, Wait, Transmit

(* The rings, queues, buffers and threads implement SatRequests: requests  *)
(* are processed in order and at most once, and give at most one answer.   *)
THEOREM Refinement == Spec => LinkRefines
<1>1. Init => Requests!Init
  BY DEF Init, Requests!Init, Answers, One
<1>2. IndInv /\ [Next]_vars => [Requests!Next]_Requests!vars
  BY StepRefines
<1>3. QED
  BY <1>1, <1>2, Invariance, PTL DEF Spec, LinkRefines, Requests!Spec

=============================================================================
