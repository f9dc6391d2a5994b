-------------------------- MODULE HciBridgeProofs --------------------------
(***************************************************************************)
(* Proofs about the HCI bridge, for every number of buffers, every credit  *)
(* of the host, every size of the rings and every set of faults.           *)
(***************************************************************************)
EXTENDS HciBridge, FiniteSetTheorems, SequenceTheorems, TLAPS

USE DEF vars

-----------------------------------------------------------------------------
(* The inductive invariant.                                                *)

(* The controller is given one packet at a time, main() forwards one event *)
(* at a time, and only data is on the air.                                 *)
OneAtATime ==
  /\ Len(handling) <= 1 /\ Len(forwarding) <= 1
  /\ answering => handling # <<>> /\ handling[1].kind = "cmd"
  /\ \A i \in 1..Len(on_air) : on_air[i].kind # "cmd"

(* The host keeps to its credit.                                           *)
WithinCredit ==
  \A k \in Kinds :
    answered[k] <= sent[k] /\ sent[k] - answered[k] <= Credit[k]

IndInv == TypeOK /\ OneAtATime /\ WithinCredit /\ NothingLost

-----------------------------------------------------------------------------
(* Sequences of events.                                                    *)

EventSeq == Seq(Event)

(* Every packet is an event, and an event nobody asked for is of no kind.  *)
LEMMA EventKinds ==
  /\ Packet \subseteq Event /\ Unasked \in Event
  /\ Unasked.kind \notin Kinds
  /\ \A e \in Event : e.n \in Nat
  /\ \A s \in Seq(Packet) : s \in EventSeq
<1>1. Packet \subseteq Event /\ Unasked \in Event
  BY DEF Event
<1>2. Unasked.kind \notin Kinds
  BY KindsAssumption DEF Unasked
<1>3. \A e \in Event : e.n \in Nat
  BY SizeAssumption DEF Event, Packet, Unasked
<1>4. \A s \in Seq(Packet) : s \in EventSeq
  BY <1>1 DEF EventSeq
<1>5. QED
  BY <1>1, <1>2, <1>3, <1>4

(* The numbers of a kind in a sequence.                                    *)
LEMMA NumbersType ==
  ASSUME NEW s \in EventSeq, NEW k
  PROVE  Numbers(s, k) \subseteq Nat
<1>1. \A i \in 1..Len(s) : s[i].n \in Nat
  BY EventKinds DEF EventSeq
<1>2. QED
  BY <1>1 DEF Numbers, OfKind

LEMMA NumbersEmpty ==
  ASSUME NEW k
  PROVE  Numbers(<<>>, k) = {} /\ InOrder(<<>>, k)
  BY DEF Numbers, InOrder, OfKind

LEMMA NumbersOne ==
  ASSUME NEW e \in Event, NEW k
  PROVE  /\ Numbers(<<e>>, k) = IF e.kind = k THEN {e.n} ELSE {}
         /\ InOrder(<<e>>, k)
<1>1. Len(<<e>>) = 1 /\ <<e>>[1] = e
  OBVIOUS
<1>2. OfKind(<<e>>, k) = IF e.kind = k THEN {1} ELSE {}
  BY <1>1 DEF OfKind
<1>3. QED
  BY <1>1, <1>2 DEF Numbers, InOrder

(* All the numbers of a kind in s are below all those in t.                *)
Below(s, t, k) == \A m \in Numbers(s, k), n \in Numbers(t, k) : m < n

(* What is put together has the numbers of both parts...                   *)
LEMMA ConcatNumbers ==
  ASSUME NEW s \in EventSeq, NEW t \in EventSeq, NEW k
  PROVE  /\ s \o t \in EventSeq
         /\ Numbers(s \o t, k) = Numbers(s, k) \cup Numbers(t, k)
<1> DEFINE u == s \o t
<1>1. /\ u \in EventSeq /\ Len(u) = Len(s) + Len(t)
      /\ Len(s) \in Nat /\ Len(t) \in Nat
      /\ \A i \in 1..Len(s) : u[i] = s[i]
      /\ \A j \in 1..Len(t) : u[Len(s) + j] = t[j]
  BY ConcatProperties DEF EventSeq
<1>2. ASSUME NEW i \in 1..Len(u), i \notin 1..Len(s)
      PROVE  \E j \in 1..Len(t) : i = Len(s) + j
  <2>1. i - Len(s) \in 1..Len(t) /\ i = Len(s) + (i - Len(s))
    BY <1>1, <1>2
  <2>2. QED
    BY <2>1
<1> HIDE DEF u
<1>3. ASSUME NEW i \in 1..Len(u), u[i].kind = k
      PROVE  u[i].n \in Numbers(s, k) \cup Numbers(t, k)
  <2>1. CASE i \in 1..Len(s)
    BY <1>1, <1>3, <2>1 DEF Numbers, OfKind
  <2>2. CASE i \notin 1..Len(s)
    <3>1. PICK j \in 1..Len(t) : i = Len(s) + j
      BY <1>2, <2>2
    <3>2. QED
      BY <1>1, <1>3, <3>1 DEF Numbers, OfKind
  <2>3. QED
    BY <2>1, <2>2
<1>4. Numbers(s, k) \subseteq Numbers(u, k)
  BY <1>1 DEF Numbers, OfKind
<1>5. Numbers(t, k) \subseteq Numbers(u, k)
  BY <1>1 DEF Numbers, OfKind
<1>6. QED
  <2>1. Numbers(u, k) \subseteq Numbers(s, k) \cup Numbers(t, k)
    BY <1>3 DEF Numbers, OfKind
  <2>2. QED
    BY <1>1, <1>4, <1>5, <2>1 DEF u

(* ...and is in order if both are and one is below the other.              *)
LEMMA ConcatOrder ==
  ASSUME NEW s \in EventSeq, NEW t \in EventSeq, NEW k
  PROVE  InOrder(s \o t, k) <=>
           InOrder(s, k) /\ InOrder(t, k) /\ Below(s, t, k)
<1> DEFINE u == s \o t
<1>1. /\ u \in EventSeq /\ Len(u) = Len(s) + Len(t)
      /\ Len(s) \in Nat /\ Len(t) \in Nat
      /\ \A i \in 1..Len(s) : u[i] = s[i]
      /\ \A j \in 1..Len(t) : u[Len(s) + j] = t[j]
  BY ConcatProperties DEF EventSeq
<1>2. ASSUME NEW i \in 1..Len(u), i \notin 1..Len(s)
      PROVE  \E j \in 1..Len(t) : i = Len(s) + j
  <2>1. i - Len(s) \in 1..Len(t) /\ i = Len(s) + (i - Len(s))
    BY <1>1, <1>2
  <2>2. QED
    BY <2>1
<1> HIDE DEF u
<1>3. /\ \A i \in OfKind(s, k) : i \in OfKind(u, k) /\ i \in 1..Len(s)
      /\ \A j \in OfKind(t, k) :
           Len(s) + j \in OfKind(u, k) /\ j \in 1..Len(t)
  BY <1>1 DEF OfKind
<1>a. ASSUME NEW i \in OfKind(u, k), i \notin OfKind(s, k)
      PROVE  \E j \in OfKind(t, k) : i = Len(s) + j
  <2>1. i \in 1..Len(u) /\ u[i].kind = k /\ i \notin 1..Len(s)
    BY <1>1, <1>a DEF OfKind
  <2>2. PICK j \in 1..Len(t) : i = Len(s) + j
    BY <1>2, <2>1
  <2>3. QED
    BY <1>1, <2>1, <2>2 DEF OfKind
<1>4. ASSUME InOrder(u, k)
      PROVE  InOrder(s, k) /\ InOrder(t, k) /\ Below(s, t, k)
  <2>1. InOrder(s, k)
    BY <1>1, <1>3, <1>4 DEF InOrder
  <2>2. ASSUME NEW i \in OfKind(t, k), NEW j \in OfKind(t, k), i < j
        PROVE  t[i].n < t[j].n
    <3>1. /\ Len(s) + i \in OfKind(u, k) /\ Len(s) + j \in OfKind(u, k)
          /\ Len(s) + i < Len(s) + j
      BY <1>1, <1>3, <2>2
    <3>2. u[Len(s) + i].n < u[Len(s) + j].n
      BY <1>4, <3>1 DEF InOrder
    <3>3. QED
      BY <1>1, <1>3, <3>2
  <2>3. ASSUME NEW i \in OfKind(s, k), NEW j \in OfKind(t, k)
        PROVE  s[i].n < t[j].n
    <3>1. /\ i \in OfKind(u, k) /\ Len(s) + j \in OfKind(u, k)
          /\ i < Len(s) + j
      BY <1>1, <1>3
    <3>2. u[i].n < u[Len(s) + j].n
      BY <1>4, <3>1 DEF InOrder
    <3>3. QED
      BY <1>1, <1>3, <3>2
  <2>4. QED
    BY <2>1, <2>2, <2>3 DEF InOrder, Below, Numbers
<1>5. ASSUME InOrder(s, k), InOrder(t, k), Below(s, t, k)
      PROVE  InOrder(u, k)
  <2> SUFFICES ASSUME NEW i \in OfKind(u, k), NEW j \in OfKind(u, k), i < j
               PROVE  u[i].n < u[j].n
    BY DEF InOrder
  <2>1. CASE i \in OfKind(s, k) /\ j \in OfKind(s, k)
    BY <1>1, <1>3, <1>5, <2>1 DEF InOrder
  <2>2. CASE i \in OfKind(s, k) /\ j \notin OfKind(s, k)
    <3>1. PICK l \in OfKind(t, k) : j = Len(s) + l
      BY <1>a, <2>2
    <3>2. s[i].n \in Numbers(s, k) /\ t[l].n \in Numbers(t, k)
      BY <2>2 DEF Numbers
    <3>3. QED
      BY <1>1, <1>3, <1>5, <2>2, <3>1, <3>2 DEF Below
  <2>3. CASE i \notin OfKind(s, k)
    <3>1. PICK l \in OfKind(t, k) : i = Len(s) + l
      BY <1>a, <2>3
    <3>2. j \notin OfKind(s, k)
      BY <1>1, <1>3, <3>1
    <3>3. PICK m \in OfKind(t, k) : j = Len(s) + m
      BY <1>a, <3>2
    <3>4. l < m /\ u[i] = t[l] /\ u[j] = t[m]
      BY <1>1, <1>3, <3>1, <3>3
    <3>5. QED
      BY <1>5, <3>4 DEF InOrder
  <2>4. QED
    BY <2>1, <2>2, <2>3
<1>6. QED
  BY <1>4, <1>5 DEF u

(* What stays on its way when s becomes t: the order, and no number that   *)
(* was not there; all of them, if Kept.                                    *)
Fewer(s, t, k) ==
  Numbers(t, k) \subseteq Numbers(s, k) /\ (InOrder(s, k) => InOrder(t, k))

Kept(s, t, k) == Fewer(s, t, k) /\ Numbers(s, k) \subseteq Numbers(t, k)

(* What comes behind does not matter.                                      *)
LEMMA FewerConcat ==
  ASSUME NEW s \in EventSeq, NEW t \in EventSeq, NEW z \in EventSeq, NEW k
  PROVE  /\ Fewer(s, t, k) => Fewer(s \o z, t \o z, k)
         /\ Kept(s, t, k) => Kept(s \o z, t \o z, k)
<1>1. ASSUME Fewer(s, t, k) PROVE Fewer(s \o z, t \o z, k)
  <2>1. Below(s, z, k) => Below(t, z, k)
    BY <1>1 DEF Fewer, Below
  <2>2. QED
    BY <1>1, <2>1, ConcatNumbers, ConcatOrder DEF Fewer
<1>2. QED
  BY <1>1, ConcatNumbers DEF Kept

(* Nor does what comes before.                                             *)
LEMMA FewerBehind ==
  ASSUME NEW s \in EventSeq, NEW t \in EventSeq, NEW z \in EventSeq, NEW k
  PROVE  /\ Fewer(s, t, k) => Fewer(z \o s, z \o t, k)
         /\ Kept(s, t, k) => Kept(z \o s, z \o t, k)
<1>1. ASSUME Fewer(s, t, k) PROVE Fewer(z \o s, z \o t, k)
  <2>1. Below(z, s, k) => Below(z, t, k)
    BY <1>1 DEF Fewer, Below
  <2>2. QED
    BY <1>1, <2>1, ConcatNumbers, ConcatOrder DEF Fewer
<1>2. QED
  BY <1>1, ConcatNumbers DEF Kept

LEMMA Associative ==
  ASSUME NEW s \in EventSeq, NEW t \in EventSeq, NEW u \in EventSeq
  PROVE  (s \o t) \o u = s \o (t \o u)
  BY ConcatAssociative DEF EventSeq

(* Where the last of s is the first of t instead, nothing else changes.    *)
LEMMA Shift ==
  ASSUME NEW s \in EventSeq, NEW t \in EventSeq, t # <<>>
  PROVE  /\ Head(t) \in Event /\ Head(t) = t[1]
         /\ Tail(t) \in EventSeq
         /\ t = <<Head(t)>> \o Tail(t)
         /\ Append(s, Head(t)) = s \o <<Head(t)>>
         /\ (s \o <<Head(t)>>) \o Tail(t) = s \o t
<1> DEFINE e == Head(t)
<1>1. e \in Event /\ Tail(t) \in EventSeq /\ <<e>> \in EventSeq /\ e = t[1]
  BY HeadTailProperties DEF EventSeq
<1>2. t = <<e>> \o Tail(t)
  <2>1. Len(t) \in Nat \ {0} /\ Len(Tail(t)) = Len(t) - 1 /\ Len(<<e>>) = 1
    BY HeadTailProperties DEF EventSeq
  <2>2. /\ <<e>> \o Tail(t) \in Seq(Event)
        /\ Len(<<e>> \o Tail(t)) = Len(t)
        /\ \A i \in 1..Len(t) :
             (<<e>> \o Tail(t))[i] =
               IF i <= 1 THEN <<e>>[i] ELSE Tail(t)[i - 1]
    BY <1>1, <2>1, ConcatProperties DEF EventSeq
  <2>3. \A i \in 1..Len(t) : t[i] = (<<e>> \o Tail(t))[i]
    <3> SUFFICES ASSUME NEW i \in 1..Len(t)
                 PROVE  t[i] = (<<e>> \o Tail(t))[i]
      OBVIOUS
    <3>1. CASE i = 1
      BY <1>1, <2>1, <2>2, <3>1
    <3>2. CASE i # 1
      <4>1. i - 1 \in 1..Len(Tail(t))
        BY <2>1, <3>2
      <4>2. Tail(t)[i - 1] = t[(i - 1) + 1]
        BY <4>1, HeadTailProperties DEF EventSeq
      <4>3. QED
        BY <2>1, <2>2, <3>2, <4>2
    <3>3. QED
      BY <3>1, <3>2
  <2>4. QED
    BY <2>2, <2>3, SeqEqual DEF EventSeq
<1>3. Append(s, e) = s \o <<e>>
  BY <1>1, AppendIsConcat DEF EventSeq
<1>4. (s \o <<e>>) \o Tail(t) = s \o (<<e>> \o Tail(t))
  BY <1>1, ConcatAssociative DEF EventSeq
<1>5. QED
  BY <1>1, <1>2, <1>3, <1>4

(* What is appended to the last part is appended to the whole.             *)
LEMMA AppendLast ==
  ASSUME NEW s \in EventSeq, NEW t \in EventSeq, NEW e \in Event
  PROVE  /\ Append(t, e) = t \o <<e>> /\ <<e>> \in EventSeq
         /\ s \o Append(t, e) = (s \o t) \o <<e>>
<1>1. <<e>> \in EventSeq /\ Append(t, e) = t \o <<e>>
  BY AppendIsConcat DEF EventSeq
<1>2. QED
  BY <1>1, ConcatAssociative DEF EventSeq

LEMMA EmptyLast ==
  ASSUME NEW s \in EventSeq
  PROVE  s \o <<>> = s /\ <<>> \in EventSeq
  BY ConcatEmptySeq DEF EventSeq

(* Taking the first of another kind away leaves a kind as it is, and       *)
(* taking one of its own leaves the rest.                                  *)
LEMMA TailKept ==
  ASSUME NEW s \in EventSeq, s # <<>>, NEW k
  PROVE  /\ Fewer(s, Tail(s), k)
         /\ Head(s).kind # k => Kept(s, Tail(s), k)
<1>1. /\ Head(s) \in Event /\ <<Head(s)>> \in EventSeq
      /\ Tail(s) \in EventSeq /\ s = <<Head(s)>> \o Tail(s)
  BY Shift DEF EventSeq
<1> DEFINE h == <<Head(s)>>
           r == Tail(s)
<1>2. /\ Numbers(h \o r, k) = Numbers(h, k) \cup Numbers(r, k)
      /\ InOrder(h \o r, k) => InOrder(r, k)
  BY <1>1, ConcatNumbers, ConcatOrder
<1>3. QED
  BY <1>1, <1>2, NumbersOne DEF Fewer, Kept

(* The same at the end of a sequence.                                      *)
LEMMA LastKept ==
  ASSUME NEW s \in EventSeq, NEW e \in Event, NEW k
  PROVE  /\ Fewer(s \o <<e>>, s, k)
         /\ e.kind # k => Kept(s \o <<e>>, s, k) /\ Kept(s, s \o <<e>>, k)
<1>1. <<e>> \in EventSeq
  BY DEF EventSeq
<1>2. /\ Numbers(s \o <<e>>, k) = Numbers(s, k) \cup Numbers(<<e>>, k)
      /\ InOrder(s \o <<e>>, k) <=>
           InOrder(s, k) /\ InOrder(<<e>>, k) /\ Below(s, <<e>>, k)
  BY <1>1, ConcatNumbers, ConcatOrder
<1>3. e.kind # k => Below(s, <<e>>, k)
  BY NumbersOne DEF Below
<1>4. QED
  BY <1>2, <1>3, NumbersOne DEF Fewer, Kept

(* An event may overtake what is of another kind.                          *)
LEMMA OvertakeKept ==
  ASSUME NEW s \in EventSeq, NEW t \in EventSeq, NEW e \in Event, NEW k,
         \A i \in 1..Len(t) : t[i].kind # e.kind
  PROVE  Kept((s \o t) \o <<e>>, (s \o <<e>>) \o t, k)
<1> DEFINE o == <<e>>
<1>1. o \in EventSeq /\ s \o t \in EventSeq /\ s \o o \in EventSeq
  BY ConcatNumbers DEF EventSeq
<1>2. Numbers(o, k) = {} \/ Numbers(t, k) = {}
  BY NumbersOne DEF Numbers, OfKind
<1> HIDE DEF o
<1>3. /\ Numbers((s \o t) \o o, k) =
           Numbers(s, k) \cup Numbers(t, k) \cup Numbers(o, k)
      /\ Numbers((s \o o) \o t, k) =
           Numbers(s, k) \cup Numbers(t, k) \cup Numbers(o, k)
  BY <1>1, ConcatNumbers
<1>4. Below(o, t, k)
  BY <1>2 DEF Below
<1>5. ASSUME InOrder((s \o t) \o o, k)
      PROVE  InOrder((s \o o) \o t, k)
  <2>1. InOrder(s \o t, k) /\ InOrder(o, k) /\ Below(s \o t, o, k)
    BY <1>1, <1>5, ConcatOrder
  <2>2. InOrder(s, k) /\ InOrder(t, k) /\ Below(s, t, k) /\ Below(s, o, k)
    BY <1>1, <2>1, ConcatOrder, ConcatNumbers DEF Below
  <2>3. InOrder(s \o o, k)
    BY <1>1, <2>1, <2>2, ConcatOrder
  <2>4. Numbers(s \o o, k) = Numbers(s, k) \cup Numbers(o, k)
    BY <1>1, ConcatNumbers
  <2>5. Below(s \o o, t, k)
    BY <1>4, <2>2, <2>4 DEF Below
  <2>6. QED
    BY <1>1, <2>2, <2>3, <2>5, ConcatOrder
<1>6. QED
  BY <1>3, <1>5 DEF Fewer, Kept, o

-----------------------------------------------------------------------------
(* The way of a packet.                                                    *)

ToController == Coming \o on_air
ToThread == ToController \o Handled
ToCore == ToThread \o tx_queue

LEMMA Queues ==
  ASSUME TypeOK
  PROVE  /\ to_host \in EventSeq /\ forwarding \in EventSeq
         /\ rx_queue \in EventSeq /\ on_air \in EventSeq
         /\ handling \in EventSeq /\ Handled \in EventSeq
         /\ tx_queue \in EventSeq /\ to_net \in EventSeq
         /\ to_host \o forwarding \in EventSeq /\ Coming \in EventSeq
         /\ ToController \in EventSeq /\ ToThread \in EventSeq
         /\ ToCore \in EventSeq /\ UnderWay \in EventSeq
         /\ UnderWay = ToCore \o to_net
<1>1. /\ to_host \in EventSeq /\ forwarding \in EventSeq
      /\ rx_queue \in EventSeq /\ on_air \in EventSeq
      /\ handling \in EventSeq /\ tx_queue \in EventSeq
      /\ to_net \in EventSeq
  BY EventKinds DEF TypeOK, EventSeq
<1>2. Handled \in EventSeq
  BY <1>1, EmptyLast DEF Handled
<1>3. to_host \o forwarding \in EventSeq /\ Coming \in EventSeq
  BY <1>1, ConcatNumbers DEF Coming
<1>4. ToController \in EventSeq
  BY <1>1, <1>3, ConcatNumbers DEF ToController
<1>5. ToThread \in EventSeq
  BY <1>2, <1>4, ConcatNumbers DEF ToThread
<1>6. ToCore \in EventSeq
  BY <1>1, <1>5, ConcatNumbers DEF ToCore
<1>7. UnderWay = ToCore \o to_net
  BY DEF UnderWay, ToCore, ToThread, ToController
<1>8. UnderWay \in EventSeq
  BY <1>1, <1>6, <1>7, ConcatNumbers
<1>9. QED
  BY <1>1, <1>2, <1>3, <1>4, <1>5, <1>6, <1>7, <1>8

(* There is one packet at the controller, or none, and so for main().      *)
LEMMA OneHeld ==
  ASSUME TypeOK, OneAtATime
  PROVE  /\ handling # <<>> =>
              handling = <<handling[1]>> /\ handling[1] \in Packet
         /\ forwarding # <<>> =>
              forwarding = <<forwarding[1]>> /\ forwarding[1] \in Event
<1>1. ASSUME NEW S, NEW q \in Seq(S), Len(q) <= 1, q # <<>>
      PROVE  q = <<q[1]>> /\ q[1] \in S
  <2>1. Len(q) = 1 /\ q[1] \in S
    <3>1. Len(q) \in Nat /\ Len(q) # 0
      BY <1>1, EmptySeq
    <3>2. Len(q) = 1
      BY <1>1, <3>1
    <3>3. QED
      BY <1>1, <3>2
  <2>2. <<q[1]>> \in Seq(S) /\ Len(<<q[1]>>) = 1 /\ <<q[1]>>[1] = q[1]
    BY <2>1
  <2>3. \A i \in 1..Len(q) : q[i] = <<q[1]>>[i]
    BY <2>1
  <2>4. QED
    BY <2>1, <2>2, <2>3, SeqEqual
<1>2. QED
  BY <1>1 DEF TypeOK, OneAtATime

(* A new event comes behind the others.                                    *)
LEMMA ComingAppend ==
  ASSUME TypeOK, NEW e \in Event,
         UNCHANGED <<to_host, forwarding>>, rx_queue' = Append(rx_queue, e)
  PROVE  Coming' = Coming \o <<e>>
<1>1. to_host \o forwarding \in EventSeq /\ rx_queue \in EventSeq
  BY Queues
<1>2. (to_host \o forwarding) \o Append(rx_queue, e) =
        ((to_host \o forwarding) \o rx_queue) \o <<e>>
  BY <1>1, AppendLast
<1>3. QED
  BY <1>2 DEF Coming

(* On every step within the core, and on those of the controller and of    *)
(* main(), a packet or its event stays on its way and in its order.        *)
LEMMA PathKept ==
  ASSUME IndInv, NEW k \in Kinds,
         Bind \/ ReceivePacket \/ TakePacket \/ Controller \/ CompleteData
           \/ UnaskedEvent \/ TakeEvent \/ SendEvent
  PROVE  Kept(UnderWay, UnderWay', k)
<1>0. /\ TypeOK /\ OneAtATime
      /\ to_host \in EventSeq /\ forwarding \in EventSeq
      /\ rx_queue \in EventSeq /\ on_air \in EventSeq
      /\ handling \in EventSeq /\ Handled \in EventSeq
      /\ tx_queue \in EventSeq /\ to_net \in EventSeq
      /\ to_host \o forwarding \in EventSeq /\ Coming \in EventSeq
      /\ ToController \in EventSeq /\ ToThread \in EventSeq
      /\ ToCore \in EventSeq /\ UnderWay \in EventSeq
  BY Queues DEF IndInv
<1>a. ASSUME UnderWay' = UnderWay PROVE Kept(UnderWay, UnderWay', k)
  BY <1>a DEF Kept, Fewer
<1>1. CASE Bind
  BY <1>1, <1>a DEF Bind, UnderWay, Coming, Handled
<1>2. CASE ReceivePacket
  <2>1. /\ to_net # <<>> /\ to_net' = Tail(to_net)
        /\ tx_queue' = Append(tx_queue, Head(to_net))
        /\ ToThread' = ToThread
    BY <1>2 DEF ReceivePacket, ToThread, ToController, Coming, Handled
  <2>2. ToThread \o Append(tx_queue, Head(to_net)) =
          ToCore \o <<Head(to_net)>>
    <3>1. Head(to_net) \in Event
      BY <1>0, <2>1, Shift
    <3>2. ToThread \o Append(tx_queue, Head(to_net)) =
            (ToThread \o tx_queue) \o <<Head(to_net)>>
      BY <1>0, <3>1, AppendLast
    <3>3. QED
      BY <3>2 DEF ToCore
  <2>3. UnderWay' = (ToCore \o <<Head(to_net)>>) \o Tail(to_net)
    BY <2>1, <2>2 DEF UnderWay, ToThread, ToController
  <2>4. UnderWay = ToCore \o to_net
    BY <1>0, Queues
  <2>5. QED
    BY <1>0, <1>a, <2>1, <2>3, <2>4, Shift
<1>3. CASE TakePacket
  <2>1. /\ tx_queue # <<>> /\ handling = <<>> /\ ~answering
        /\ handling' = <<Head(tx_queue)>> /\ ~answering'
        /\ tx_queue' = Tail(tx_queue) /\ to_net' = to_net
        /\ ToController' = ToController
    BY <1>0, <1>3 DEF TakePacket, ToController, Coming, OneAtATime
  <2>2. Handled = <<>> /\ Handled' = <<Head(tx_queue)>>
    BY <2>1 DEF Handled
  <2>3. /\ UnderWay = ((ToController \o <<>>) \o tx_queue) \o to_net
        /\ UnderWay' = ((ToController \o <<Head(tx_queue)>>)
                          \o Tail(tx_queue)) \o to_net
    BY <2>1, <2>2 DEF UnderWay, ToController
  <2>4. ToController \o <<>> = ToController
    BY <1>0, EmptyLast
  <2>5. (ToController \o <<Head(tx_queue)>>) \o Tail(tx_queue) =
          ToController \o tx_queue
    BY <1>0, <2>1, Shift
  <2>6. QED
    BY <1>a, <2>3, <2>4, <2>5
<1>4. CASE AnswerCommand
  <2> DEFINE e == handling[1]
  <2>1. /\ handling = <<e>> /\ e \in Event /\ e.kind = "cmd"
        /\ <<e>> \in EventSeq
    BY <1>0, <1>4, OneHeld, EventKinds DEF AnswerCommand
  <2>2. /\ Handled = <<e>> /\ Handled' = <<>>
        /\ UNCHANGED <<to_host, forwarding, on_air, tx_queue, to_net>>
        /\ rx_queue' = Append(rx_queue, e)
    BY <1>4, <2>1 DEF AnswerCommand, Handled
  <2> HIDE DEF e
  <2>3. Coming' = Coming \o <<e>>
    BY <1>0, <2>1, <2>2, ComingAppend
  <2>4. Kept((Coming \o on_air) \o <<e>>, (Coming \o <<e>>) \o on_air, k)
    BY <1>0, <2>1, OvertakeKept DEF OneAtATime
  <2>5. /\ Coming \o on_air \in EventSeq /\ Coming \o <<e>> \in EventSeq
        /\ (Coming \o on_air) \o <<e>> \in EventSeq
        /\ (Coming \o <<e>>) \o on_air \in EventSeq
    BY <1>0, <2>1, ConcatNumbers
  <2>6. ((Coming \o <<e>>) \o on_air) \o <<>> = (Coming \o <<e>>) \o on_air
    BY <2>5, EmptyLast
  <2>7. /\ ToThread = (Coming \o on_air) \o <<e>>
        /\ ToThread' = (Coming \o <<e>>) \o on_air
    BY <2>2, <2>3, <2>6 DEF ToThread, ToController
  <2>8. Kept(ToThread \o tx_queue, ToThread' \o tx_queue, k)
    BY <1>0, <2>4, <2>5, <2>7, FewerConcat
  <2>9. /\ ToThread \o tx_queue \in EventSeq
        /\ ToThread' \o tx_queue \in EventSeq
    BY <1>0, <2>5, <2>7, ConcatNumbers
  <2>10. Kept((ToThread \o tx_queue) \o to_net,
              (ToThread' \o tx_queue) \o to_net, k)
    BY <1>0, <2>8, <2>9, FewerConcat
  <2>11. /\ UnderWay = (ToThread \o tx_queue) \o to_net
         /\ UnderWay' = (ToThread' \o tx_queue) \o to_net
    BY <2>2 DEF UnderWay, ToThread, ToController
  <2>12. QED
    BY <2>10, <2>11
<1>5. CASE ReleaseCommand
  <2>1. /\ Handled' = Handled
        /\ UNCHANGED <<to_host, forwarding, rx_queue, on_air, tx_queue,
                       to_net>>
    BY <1>5 DEF ReleaseCommand, Handled
  <2>2. QED
    BY <1>a, <2>1 DEF UnderWay, Coming
<1>6. CASE AcceptData
  <2> DEFINE e == handling[1]
  <2>1. /\ handling = <<e>> /\ e \in Event
    BY <1>0, <1>6, OneHeld, EventKinds DEF AcceptData
  <2>2. ~answering
    BY <1>0, <1>6 DEF AcceptData, OneAtATime
  <2>3. /\ Handled = <<e>> /\ Handled' = <<>>
        /\ UNCHANGED <<to_host, forwarding, rx_queue, tx_queue, to_net>>
        /\ on_air' = Append(on_air, e)
    BY <1>6, <2>1, <2>2 DEF AcceptData, Handled
  <2> HIDE DEF e
  <2>4. Coming' = Coming
    BY <2>3 DEF Coming
  <2>5. Coming \o Append(on_air, e) = (Coming \o on_air) \o <<e>>
    <3>1. Coming \in EventSeq /\ on_air \in EventSeq /\ e \in Event
      BY <1>0, <2>1, EventKinds
    <3>2. QED
      BY <3>1, AppendLast
  <2>6. ((Coming \o on_air) \o <<e>>) \o <<>> = (Coming \o on_air) \o <<e>>
    <3>1. (Coming \o on_air) \o <<e>> \in EventSeq
      BY <1>0, <2>1, AppendLast, ConcatNumbers
    <3>2. QED
      BY <3>1, EmptyLast
  <2>7. UnderWay' = UnderWay
    BY <2>3, <2>4, <2>5, <2>6 DEF UnderWay
  <2>8. QED
    BY <1>a, <2>7
<1>7. CASE CompleteData
  <2>1. /\ on_air # <<>> /\ on_air' = Tail(on_air)
        /\ rx_queue' = Append(rx_queue, Head(on_air))
        /\ UNCHANGED <<to_host, forwarding, tx_queue, to_net>>
        /\ Handled' = Handled
    BY <1>7 DEF CompleteData, Handled
  <2>2. Coming' = Coming \o <<Head(on_air)>>
    <3>1. Head(on_air) \in Event
      BY <1>0, <2>1, Shift
    <3>2. QED
      BY <1>0, <2>1, <3>1, ComingAppend
  <2>3. (Coming \o <<Head(on_air)>>) \o Tail(on_air) = Coming \o on_air
    BY <1>0, <2>1, Shift
  <2>4. UnderWay' = UnderWay
    BY <2>1, <2>2, <2>3 DEF UnderWay
  <2>5. QED
    BY <1>a, <2>4
<1>8. CASE UnaskedEvent
  <2>1. /\ rx_queue' = Append(rx_queue, Unasked)
        /\ UNCHANGED <<to_host, forwarding, on_air, tx_queue, to_net>>
        /\ Handled' = Handled
    BY <1>8 DEF UnaskedEvent, Handled
  <2>2. Coming' = Coming \o <<Unasked>>
    BY <1>0, <2>1, EventKinds, ComingAppend
  <2>3. Kept(Coming, Coming', k) /\ Coming' \in EventSeq
    <3>1. Unasked \in Event /\ Unasked.kind # k
      BY EventKinds
    <3>2. <<Unasked>> \in EventSeq
      BY <3>1 DEF EventSeq
    <3>3. QED
      BY <1>0, <2>2, <3>1, <3>2, LastKept, ConcatNumbers
  <2>4. /\ Kept(Coming \o on_air, Coming' \o on_air, k)
        /\ Coming' \o on_air \in EventSeq
    BY <1>0, <2>3, FewerConcat, ConcatNumbers
  <2>5. /\ ToController = Coming \o on_air
        /\ ToController' = Coming' \o on_air
    BY <2>1 DEF ToController
  <2>6. /\ Kept(ToController \o Handled, ToController' \o Handled, k)
        /\ ToController' \o Handled \in EventSeq
    BY <1>0, <2>4, <2>5, FewerConcat, ConcatNumbers
  <2>7. /\ ToThread = ToController \o Handled
        /\ ToThread' = ToController' \o Handled
    BY <2>1 DEF ToThread
  <2>8. /\ Kept(ToThread \o tx_queue, ToThread' \o tx_queue, k)
        /\ ToThread' \o tx_queue \in EventSeq
    BY <1>0, <2>6, <2>7, FewerConcat, ConcatNumbers
  <2>9. /\ ToCore = ToThread \o tx_queue
        /\ ToCore' = ToThread' \o tx_queue
    BY <2>1 DEF ToCore
  <2>10. Kept(ToCore \o to_net, ToCore' \o to_net, k)
    BY <1>0, <2>8, <2>9, FewerConcat
  <2>11. UnderWay = ToCore \o to_net /\ UnderWay' = ToCore' \o to_net
    BY <2>1 DEF UnderWay, ToCore, ToThread, ToController
  <2>12. QED
    BY <2>10, <2>11
<1>9. CASE TakeEvent
  <2>1. /\ rx_queue # <<>> /\ forwarding = <<>>
        /\ forwarding' = <<Head(rx_queue)>> /\ rx_queue' = Tail(rx_queue)
        /\ UNCHANGED <<to_host, on_air, tx_queue, to_net>>
        /\ Handled' = Handled
    BY <1>9 DEF TakeEvent, Handled
  <2>2. (to_host \o <<Head(rx_queue)>>) \o Tail(rx_queue)
          = (to_host \o <<>>) \o rx_queue
    <3>1. to_host \o <<>> = to_host
      BY <1>0, EmptyLast
    <3>2. (to_host \o <<Head(rx_queue)>>) \o Tail(rx_queue)
            = to_host \o rx_queue
      BY <1>0, <2>1, Shift
    <3>3. QED
      BY <3>1, <3>2
  <2>3. Coming' = Coming
    BY <2>1, <2>2 DEF Coming
  <2>4. UnderWay' = UnderWay
    BY <2>1, <2>3 DEF UnderWay
  <2>5. QED
    BY <1>a, <2>4
<1>10. CASE SendEvent
  <2>1. /\ to_host' = to_host \o forwarding /\ forwarding' = <<>>
        /\ UNCHANGED <<rx_queue, on_air, tx_queue, to_net>>
        /\ Handled' = Handled
    BY <1>10 DEF SendEvent, Handled
  <2>2. (to_host \o forwarding) \o <<>> = to_host \o forwarding
    BY <1>0, EmptyLast
  <2>3. Coming' = Coming
    BY <2>1, <2>2 DEF Coming
  <2>4. UnderWay' = UnderWay
    BY <2>1, <2>3 DEF UnderWay
  <2>5. QED
    BY <1>a, <2>4
<1>11. QED
  BY <1>1, <1>2, <1>3, <1>4, <1>5, <1>6, <1>7, <1>8, <1>9, <1>10
     DEF Controller

(* A packet dropped or refused leaves those of other kinds as they are,    *)
(* and the rest of its own in order.                                       *)
LEMMA PathFewer ==
  ASSUME IndInv, NEW k \in Kinds
  PROVE  /\ DropPacket \/ BrokenPacket =>
              /\ to_net # <<>> /\ Fewer(UnderWay, UnderWay', k)
              /\ Head(to_net).kind # k => Kept(UnderWay, UnderWay', k)
         /\ SendRefused =>
              /\ Fewer(UnderWay, UnderWay', k)
              /\ handling[1].kind # k => Kept(UnderWay, UnderWay', k)
<1>0. /\ TypeOK /\ OneAtATime
      /\ handling \in EventSeq /\ Handled \in EventSeq
      /\ tx_queue \in EventSeq /\ to_net \in EventSeq
      /\ ToController \in EventSeq /\ ToThread \in EventSeq
      /\ ToCore \in EventSeq /\ UnderWay = ToCore \o to_net
  BY Queues DEF IndInv
<1>1. ASSUME DropPacket \/ BrokenPacket
      PROVE  /\ to_net # <<>> /\ Fewer(UnderWay, UnderWay', k)
             /\ Head(to_net).kind # k => Kept(UnderWay, UnderWay', k)
  <2>1. /\ to_net # <<>> /\ to_net' = Tail(to_net)
        /\ UNCHANGED <<to_host, forwarding, rx_queue, on_air, handling,
                       answering, tx_queue>>
    BY <1>1 DEF DropPacket, BrokenPacket
  <2>2. UnderWay' = ToCore \o Tail(to_net)
    BY <2>1 DEF UnderWay, ToCore, ToThread, ToController, Coming, Handled
  <2>3. /\ Fewer(to_net, Tail(to_net), k) /\ Tail(to_net) \in EventSeq
        /\ Head(to_net).kind # k => Kept(to_net, Tail(to_net), k)
    BY <1>0, <2>1, TailKept, Shift
  <2>4. QED
    BY <1>0, <2>1, <2>2, <2>3, FewerBehind
<1>2. ASSUME SendRefused
      PROVE  /\ Fewer(UnderWay, UnderWay', k)
             /\ handling[1].kind # k => Kept(UnderWay, UnderWay', k)
  <2> DEFINE e == handling[1]
             rest == handling[1].kind # k
  <2>1. handling = <<e>> /\ e \in Event
    BY <1>0, <1>2, OneHeld, EventKinds DEF SendRefused
  <2>2. /\ Handled = <<e>> /\ Handled' = <<>>
        /\ UNCHANGED <<tx_queue, to_net>> /\ ToController' = ToController
    BY <1>2, <2>1 DEF SendRefused, Handled, ToController, Coming
  <2>3. /\ ToThread = ToController \o <<e>>
        /\ ToThread' = ToController
    BY <1>0, <2>2, EmptyLast DEF ToThread
  <2>4. /\ Fewer(ToThread, ToThread', k) /\ ToThread' \in EventSeq
        /\ rest => Kept(ToThread, ToThread', k)
    BY <1>0, <2>1, <2>3, LastKept
  <2>5. /\ ToThread \o tx_queue \in EventSeq
        /\ ToThread' \o tx_queue \in EventSeq
        /\ Fewer(ToThread \o tx_queue, ToThread' \o tx_queue, k)
        /\ rest => Kept(ToThread \o tx_queue, ToThread' \o tx_queue, k)
    BY <1>0, <2>4, FewerConcat, ConcatNumbers
  <2>6. /\ UnderWay = (ToThread \o tx_queue) \o to_net
        /\ UnderWay' = (ToThread' \o tx_queue) \o to_net
    BY <2>2 DEF UnderWay, ToThread, ToController
  <2>7. QED
    BY <1>0, <2>5, <2>6, FewerConcat
<1>3. QED
  BY <1>1, <1>2

(* The host's next packet comes behind all the others.                     *)
LEMMA PathSent ==
  ASSUME IndInv, NEW h \in Kinds, HostSend(h), NEW k \in Kinds
  PROVE  /\ h # k => Kept(UnderWay, UnderWay', k)
         /\ h = k =>
              /\ InOrder(UnderWay', k)
              /\ Numbers(UnderWay', k) =
                   Numbers(UnderWay, k) \cup {sent[k] + 1}
<1> DEFINE e == [kind |-> h, n |-> sent'[h]]
<1>0. /\ TypeOK /\ to_net \in EventSeq /\ ToCore \in EventSeq
      /\ UnderWay \in EventSeq /\ UnderWay = ToCore \o to_net
  BY Queues DEF IndInv
<1>1. /\ sent[h] \in Nat /\ sent[h] < MaxPackets /\ sent'[h] = sent[h] + 1
      /\ to_net' = Append(to_net, e) /\ ToCore' = ToCore
  BY <1>0, SizeAssumption
     DEF TypeOK, HostSend, ToCore, ToThread, ToController, Coming, Handled
<1>2. e \in Event /\ e.kind = h /\ e.n = sent[h] + 1
  <2>1. sent'[h] \in 1..MaxPackets
    BY <1>1, SizeAssumption
  <2>2. QED
    BY <1>1, <2>1 DEF Event, Packet
<1> HIDE DEF e
<1>3. UnderWay' = UnderWay \o <<e>> /\ <<e>> \in EventSeq
  <2>1. UnderWay' = ToCore \o Append(to_net, e)
    BY <1>1 DEF UnderWay, ToCore, ToThread, ToController
  <2>2. QED
    BY <1>0, <1>2, <2>1, AppendLast
<1>4. CASE h # k
  BY <1>0, <1>2, <1>3, <1>4, LastKept
<1>5. CASE h = k
  <2>1. /\ InOrder(UnderWay, k)
        /\ Numbers(UnderWay, k) \subseteq (answered[k] + 1)..sent[k]
    BY DEF IndInv, NothingLost, EachPacketOnce
  <2>2. Numbers(<<e>>, k) = {sent[k] + 1} /\ InOrder(<<e>>, k)
    BY <1>2, <1>5, NumbersOne
  <2>3. Below(UnderWay, <<e>>, k)
    <3>1. answered[k] \in Nat /\ sent[k] \in Nat
      BY <1>0, SizeAssumption DEF TypeOK
    <3>2. QED
      BY <2>1, <2>2, <3>1 DEF Below
  <2>4. UnderWay \in EventSeq /\ <<e>> \in EventSeq
    BY <1>0, <1>3
  <2>5. Numbers(UnderWay \o <<e>>, k) = Numbers(UnderWay, k) \cup {sent[k] + 1}
    BY <2>2, <2>4, ConcatNumbers
  <2>6. InOrder(UnderWay \o <<e>>, k)
    BY <2>1, <2>2, <2>3, <2>4, ConcatOrder
  <2>7. QED
    BY <1>3, <1>5, <2>5, <2>6
<1>6. QED
  BY <1>4, <1>5

(* The event the host takes is the first on the way.                       *)
LEMMA PathReceived ==
  ASSUME IndInv, HostReceive, NEW k \in Kinds
  PROVE  LET e == Head(to_host) IN
         /\ e.kind # k => Kept(UnderWay, UnderWay', k)
         /\ e.kind = k =>
              /\ InOrder(UnderWay', k) /\ e.n \in Numbers(UnderWay, k)
              /\ Numbers(UnderWay, k) = Numbers(UnderWay', k) \cup {e.n}
              /\ \A n \in Numbers(UnderWay', k) : e.n < n
<1> DEFINE e == Head(to_host)
           r == Tail(to_host)
           A == forwarding \o rx_queue
           B == A \o on_air
           C == B \o Handled
           D == C \o tx_queue
           E == D \o to_net
<1>0. /\ TypeOK
      /\ to_host \in EventSeq /\ forwarding \in EventSeq
      /\ rx_queue \in EventSeq /\ on_air \in EventSeq
      /\ Handled \in EventSeq
      /\ tx_queue \in EventSeq /\ to_net \in EventSeq
  BY Queues DEF IndInv
<1>1. /\ to_host # <<>> /\ to_host' = r
      /\ UNCHANGED <<forwarding, rx_queue, on_air, tx_queue, to_net>>
      /\ Handled' = Handled
  BY DEF HostReceive, Handled
<1>2. e \in Event /\ r \in EventSeq /\ to_host = <<e>> \o r
  BY <1>0, <1>1, Shift
<1> HIDE DEF e, r
<1>3. /\ A \in EventSeq /\ B \in EventSeq /\ C \in EventSeq
      /\ D \in EventSeq /\ E \in EventSeq
  BY <1>0, ConcatNumbers
<1>a. /\ A = forwarding \o rx_queue /\ B = A \o on_air
      /\ C = B \o Handled /\ D = C \o tx_queue /\ E = D \o to_net
  OBVIOUS
<1> HIDE DEF A, B, C, D, E
<1>4. ASSUME NEW s \in EventSeq
      PROVE  ((((s \o forwarding) \o rx_queue) \o on_air) \o Handled)
               \o tx_queue \o to_net = s \o E
  <2>1. (s \o forwarding) \o rx_queue = s \o (forwarding \o rx_queue)
    <3>1. forwarding \in EventSeq /\ rx_queue \in EventSeq
      BY <1>0
    <3>2. QED
      BY <3>1, Associative
  <2>2. (s \o A) \o on_air = s \o (A \o on_air)
    <3>1. A \in EventSeq /\ on_air \in EventSeq
      BY <1>0, <1>3
    <3>2. QED
      BY <3>1, Associative
  <2>3. (s \o B) \o Handled = s \o (B \o Handled)
    <3>1. B \in EventSeq /\ Handled \in EventSeq
      BY <1>0, <1>3
    <3>2. QED
      BY <3>1, Associative
  <2>4. (s \o C) \o tx_queue = s \o (C \o tx_queue)
    <3>1. C \in EventSeq /\ tx_queue \in EventSeq
      BY <1>0, <1>3
    <3>2. QED
      BY <3>1, Associative
  <2>5. (s \o D) \o to_net = s \o (D \o to_net)
    <3>1. D \in EventSeq /\ to_net \in EventSeq
      BY <1>0, <1>3
    <3>2. QED
      BY <3>1, Associative
  <2>6. QED
    BY <1>a, <2>1, <2>2, <2>3, <2>4, <2>5
<1>5. UnderWay = to_host \o E /\ UnderWay' = r \o E
  BY <1>0, <1>1, <1>2, <1>4 DEF UnderWay, Coming
<1>6. /\ <<e>> \in EventSeq /\ r \o E \in EventSeq
      /\ UnderWay = <<e>> \o (r \o E)
  <2>1. <<e>> \in EventSeq
    BY <1>2 DEF EventSeq
  <2>2. r \o E \in EventSeq
    BY <1>2, <1>3, ConcatNumbers
  <2>3. (<<e>> \o r) \o E = <<e>> \o (r \o E)
    <3>1. E \in EventSeq /\ r \in EventSeq
      BY <1>2, <1>3
    <3>2. QED
      BY <2>1, <3>1, Associative
  <2>4. QED
    BY <1>2, <1>5, <2>1, <2>2, <2>3
<1>7. InOrder(UnderWay, k)
  BY DEF IndInv, NothingLost, EachPacketOnce
<1>8. /\ Numbers(UnderWay, k) = Numbers(<<e>>, k) \cup Numbers(UnderWay', k)
      /\ InOrder(UnderWay', k) /\ Below(<<e>>, UnderWay', k)
  BY <1>5, <1>6, <1>7, ConcatNumbers, ConcatOrder
<1>9. QED
  BY <1>2, <1>7, <1>8, NumbersOne DEF Kept, Fewer, Below, e

-----------------------------------------------------------------------------
(* Counting the packets of a kind.                                         *)

LEMMA CountType ==
  ASSUME NEW s \in EventSeq, NEW k
  PROVE  /\ IsFiniteSet(OfKind(s, k)) /\ OfKind(s, k) \subseteq 1..Len(s)
         /\ Count(s, k) \in Nat
<1>1. OfKind(s, k) \in SUBSET (1..Len(s)) /\ Len(s) \in Nat
  BY DEF OfKind, EventSeq
<1>2. IsFiniteSet(1..Len(s))
  BY <1>1, FS_Interval
<1>3. IsFiniteSet(OfKind(s, k))
  BY <1>1, <1>2, FS_Subset
<1>4. QED
  BY <1>1, <1>3, FS_CardinalityType DEF Count

(* None is in no sequence, and one of the kind in a sequence of it alone.  *)
LEMMA CountOne ==
  ASSUME NEW e \in Event, NEW k
  PROVE  /\ Count(<<>>, k) = 0
         /\ Count(<<e>>, k) = IF e.kind = k THEN 1 ELSE 0
<1>1. OfKind(<<>>, k) = {}
  BY DEF OfKind
<1>2. OfKind(<<e>>, k) = IF e.kind = k THEN {1} ELSE {}
  BY DEF OfKind
<1>3. QED
  BY <1>1, <1>2, FS_EmptySet, FS_Singleton DEF Count

(* One more at the end counts if it is of the kind...                      *)
LEMMA CountAppend ==
  ASSUME NEW s \in EventSeq, NEW e \in Event, NEW k
  PROVE  Count(Append(s, e), k) =
           Count(s, k) + (IF e.kind = k THEN 1 ELSE 0)
<1> DEFINE u == Append(s, e)
           l == Len(s) + 1
<1>1. /\ Len(s) \in Nat /\ Len(u) = l /\ u[l] = e
      /\ \A i \in 1..Len(s) : u[i] = s[i]
  BY DEF EventSeq
<1>2. /\ IsFiniteSet(OfKind(s, k)) /\ l \notin OfKind(s, k)
      /\ Count(s, k) \in Nat
  BY <1>1, CountType
<1>3. OfKind(u, k) = IF e.kind = k THEN OfKind(s, k) \cup {l}
                                   ELSE OfKind(s, k)
  <2>1. \A i \in 1..l : i = l \/ i \in 1..Len(s)
    BY <1>1
  <2>2. \A i \in 1..Len(s) : i \in 1..l /\ i # l
    BY <1>1
  <2>3. l \in 1..l
    BY <1>1
  <2> HIDE DEF u, l
  <2>4. QED
    BY <1>1, <2>1, <2>2, <2>3 DEF OfKind
<1> HIDE DEF u, l
<1>4. CASE e.kind = k
  BY <1>2, <1>3, <1>4, FS_AddElement DEF Count, u
<1>5. CASE e.kind # k
  BY <1>2, <1>3, <1>5 DEF Count, u
<1>6. QED
  BY <1>4, <1>5

(* ...and so does one less at the beginning.                               *)
LEMMA CountTail ==
  ASSUME NEW s \in EventSeq, s # <<>>, NEW k
  PROVE  Count(s, k) =
           Count(Tail(s), k) + (IF Head(s).kind = k THEN 1 ELSE 0)
<1> DEFINE r == Tail(s)
           T == OfKind(r, k)
           U == {i + 1 : i \in T}
<1>1. /\ Len(s) \in Nat \ {0} /\ Head(s) = s[1] /\ r \in EventSeq
      /\ Len(r) = Len(s) - 1
      /\ \A i \in 1..Len(r) : r[i] = s[i + 1]
  BY HeadTailProperties, Shift DEF EventSeq
<1>2. IsFiniteSet(T) /\ T \subseteq 1..Len(r) /\ Count(r, k) \in Nat
  BY <1>1, CountType
<1>3. IsFiniteSet(U) /\ Cardinality(U) = Cardinality(T)
  <2> DEFINE f == [i \in T |-> i + 1]
  <2>1. f \in Bijection(T, U)
    <3>1. \A i, j \in T : i + 1 = j + 1 => i = j
      BY <1>1, <1>2
    <3>2. QED
      BY <3>1 DEF Bijection, Injection, Surjection, IsInjective
  <2>2. ExistsBijection(T, U)
    BY <2>1 DEF ExistsBijection
  <2>3. QED
    BY <1>2, <2>2, FS_Bijection
<1>4. 1 \notin U
  BY <1>1, <1>2
<1>5. OfKind(s, k) = IF Head(s).kind = k THEN U \cup {1} ELSE U
  <2>1. ASSUME NEW i \in OfKind(s, k), i # 1 PROVE i \in U
    <3>1. i \in 1..Len(s) /\ s[i].kind = k
      BY DEF OfKind
    <3>2. i - 1 \in 1..Len(r) /\ (i - 1) + 1 = i
      BY <1>1, <2>1, <3>1
    <3>3. i - 1 \in T
      BY <1>1, <3>1, <3>2 DEF OfKind
    <3>4. QED
      BY <3>2, <3>3
  <2>2. ASSUME NEW i \in T PROVE i + 1 \in OfKind(s, k)
    <3>1. i \in 1..Len(r) /\ r[i].kind = k
      BY DEF OfKind
    <3>2. i + 1 \in 1..Len(s)
      BY <1>1, <3>1
    <3>3. QED
      BY <1>1, <3>1, <3>2 DEF OfKind
  <2>3. 1 \in OfKind(s, k) <=> Head(s).kind = k
    BY <1>1 DEF OfKind
  <2>4. U \subseteq OfKind(s, k)
    BY <2>2
  <2> HIDE DEF U
  <2>5. QED
    BY <1>4, <2>1, <2>3, <2>4
<1> HIDE DEF U, T
<1>6. CASE Head(s).kind = k
  <2>1. Cardinality(U \cup {1}) = Cardinality(U) + 1
    BY <1>3, <1>4, FS_AddElement
  <2>2. QED
    BY <1>2, <1>3, <1>5, <1>6, <2>1 DEF Count, T
<1>7. CASE Head(s).kind # k
  BY <1>2, <1>3, <1>5, <1>7 DEF Count, T
<1>8. QED
  BY <1>6, <1>7

(* In order, there are as many packets as numbers.                         *)
LEMMA CountNumbers ==
  ASSUME NEW s \in EventSeq, NEW k, InOrder(s, k)
  PROVE  IsFiniteSet(Numbers(s, k)) /\ Cardinality(Numbers(s, k)) = Count(s, k)
<1> DEFINE S == OfKind(s, k)
           T == Numbers(s, k)
           f == [i \in S |-> s[i].n]
<1>1. IsFiniteSet(S) /\ S \subseteq 1..Len(s) /\ Len(s) \in Nat
  BY CountType DEF EventSeq
<1>2. \A i \in S : s[i].n \in Nat
  BY <1>1, EventKinds DEF EventSeq
<1>3. \A i, j \in S : s[i].n = s[j].n => i = j
  BY <1>1, <1>2 DEF InOrder
<1>4. f \in Bijection(S, T)
  BY <1>3 DEF Bijection, Injection, Surjection, IsInjective, Numbers
<1>5. ExistsBijection(S, T)
  BY <1>4 DEF ExistsBijection
<1>6. QED
  BY <1>1, <1>5, FS_Bijection DEF Count

-----------------------------------------------------------------------------
(* The initial state and the steps.                                        *)

(* Nothing is on its way, and every buffer is free.                        *)
LEMMA InitInv == Init => IndInv
<1> SUFFICES ASSUME Init PROVE IndInv
  OBVIOUS
<1> USE DEF Init
<1>1. TypeOK
  <2>1. /\ sent \in [Kinds -> 0..MaxPackets]
        /\ answered \in [Kinds -> 0..MaxPackets]
    BY SizeAssumption
  <2>2. free \in [Kinds -> Nat] /\ \A k \in Kinds : free[k] <= Pool[k]
    BY PoolAssumption
  <2>3. event_free \in 0..EventPool /\ Len(<<>>) <= RingSize
    BY SizeAssumption
  <2>4. <<>> \in Seq(Packet) /\ <<>> \in Seq(Event)
    OBVIOUS
  <2>5. bound \in BOOLEAN /\ answering \in BOOLEAN
    OBVIOUS
  <2>6. QED
    BY <2>1, <2>2, <2>3, <2>4, <2>5 DEF TypeOK
<1>2. OneAtATime
  BY DEF OneAtATime
<1>3. WithinCredit
  BY PoolAssumption DEF WithinCredit
<1>4. BufferBalance
  <2>1. \A k \in Kinds : Count(<<>>, k) = 0
    BY CountOne, EventKinds
  <2>2. \A k \in Kinds : Pool[k] + 0 + 0 = Pool[k]
    BY PoolAssumption
  <2>3. EventPool + 0 + 0 = EventPool /\ Len(<<>>) = 0
    BY SizeAssumption
  <2>4. QED
    BY <2>1, <2>2, <2>3 DEF BufferBalance
<1>5. EachPacketOnce
  <2>1. UnderWay = <<>>
    BY EmptyLast DEF UnderWay, Coming, Handled
  <2>2. ASSUME NEW k \in Kinds
        PROVE  Numbers(UnderWay, k) = (answered[k] + 1)..sent[k]
    BY <2>1, NumbersEmpty
  <2>3. QED
    BY <2>1, <2>2, NumbersEmpty DEF EachPacketOnce
<1>6. QED
  BY <1>1, <1>2, <1>3, <1>4, <1>5 DEF IndInv, NothingLost

(* What the first of a queue is, and what it leaves.                       *)
LEMMA QueueFacts ==
  ASSUME NEW S, NEW q \in Seq(S)
  PROVE  /\ Len(q) \in Nat
         /\ q # <<>> =>
              /\ Head(q) \in S /\ Tail(q) \in Seq(S)
              /\ Len(q) = Len(Tail(q)) + 1
         /\ \A e \in S : /\ Append(q, e) \in Seq(S)
                         /\ Len(Append(q, e)) = Len(q) + 1
                         /\ <<e>> \in Seq(S) /\ Len(<<e>>) = 1
  OBVIOUS

(* Every step keeps one packet at the controller, one event at main() and  *)
(* only data on the air.                                                   *)
LEMMA OneStep ==
  ASSUME IndInv, Next
  PROVE  OneAtATime'
<1>0. /\ handling \in Seq(Packet) /\ on_air \in Seq(Packet)
      /\ answering \in BOOLEAN
      /\ OneAtATime
      /\ handling # <<>> => handling = <<handling[1]>>
      /\ handling # <<>> => handling[1] \in Packet
  BY OneHeld DEF IndInv, TypeOK
<1>1. CASE \/ Bind \/ HostReceive \/ \E k \in Kinds : HostSend(k)
           \/ Receive \/ BrokenPacket \/ UnaskedEvent
  <2>1. UNCHANGED <<handling, forwarding, answering, on_air>>
    BY <1>1 DEF Bind, HostReceive, HostSend, Receive, ReceivePacket,
                DropPacket, BrokenPacket, UnaskedEvent
  <2>2. QED
    BY <1>0, <2>1 DEF OneAtATime
<1>2. CASE TakePacket
  BY <1>0, <1>2 DEF TakePacket, OneAtATime
<1>3. CASE SendRefused \/ ReleaseCommand
  BY <1>0, <1>3 DEF SendRefused, ReleaseCommand, OneAtATime
<1>4. CASE AnswerCommand
  BY <1>0, <1>4 DEF AnswerCommand, OneAtATime
<1>5. CASE AcceptData
  <2>1. /\ handling[1].kind # "cmd" /\ handling[1] \in Packet
        /\ on_air' = Append(on_air, handling[1])
        /\ handling' = <<>> /\ ~answering
        /\ UNCHANGED <<answering, forwarding>>
    BY <1>0, <1>5 DEF AcceptData, OneAtATime
  <2>2. \A i \in 1..Len(on_air') : on_air'[i].kind # "cmd"
    <3> SUFFICES ASSUME NEW i \in 1..Len(on_air')
                 PROVE  on_air'[i].kind # "cmd"
      OBVIOUS
    <3>1. /\ Len(on_air') = Len(on_air) + 1 /\ Len(on_air) \in Nat
          /\ on_air'[Len(on_air) + 1] = handling[1]
          /\ \A j \in 1..Len(on_air) : on_air'[j] = on_air[j]
      BY <1>0, <2>1
    <3>2. CASE i = Len(on_air) + 1
      BY <2>1, <3>1, <3>2
    <3>3. CASE i # Len(on_air) + 1
      <4>1. i \in 1..Len(on_air)
        BY <3>1, <3>3
      <4>2. QED
        BY <1>0, <3>1, <4>1 DEF OneAtATime
    <3>4. QED
      BY <3>2, <3>3
  <2>3. QED
    BY <1>0, <2>1, <2>2 DEF OneAtATime
<1>6. CASE CompleteData
  <2>1. /\ on_air # <<>> /\ on_air' = Tail(on_air)
        /\ UNCHANGED <<handling, answering, forwarding>>
    BY <1>6 DEF CompleteData
  <2>2. \A i \in 1..Len(on_air') : on_air'[i].kind # "cmd"
    <3>1. \A i \in 1..Len(on_air') :
            i + 1 \in 1..Len(on_air) /\ on_air'[i] = on_air[i + 1]
      BY <1>0, <2>1
    <3>2. QED
      BY <1>0, <3>1 DEF OneAtATime
  <2>3. QED
    BY <1>0, <2>1, <2>2 DEF OneAtATime
<1>7. CASE TakeEvent
  BY <1>0, <1>7 DEF TakeEvent, OneAtATime
<1>8. CASE SendEvent
  BY <1>0, <1>8 DEF SendEvent, OneAtATime
<1>9. QED
  BY <1>1, <1>2, <1>3, <1>4, <1>5, <1>6, <1>7, <1>8
     DEF Next, Controller

(* The host never has more under way than its credit, and gets no event it *)
(* is not due.                                                             *)
LEMMA CreditStep ==
  ASSUME IndInv, Next
  PROVE  WithinCredit'
<1>0. /\ WithinCredit
      /\ \A k \in Kinds : /\ sent[k] \in 0..MaxPackets
                          /\ answered[k] \in 0..MaxPackets
                          /\ Credit[k] \in Nat
      /\ sent \in [Kinds -> 0..MaxPackets]
      /\ answered \in [Kinds -> 0..MaxPackets]
  BY PoolAssumption DEF IndInv, TypeOK
<1>1. CASE UNCHANGED <<sent, answered>>
  BY <1>0, <1>1 DEF WithinCredit
<1>2. ASSUME NEW h \in Kinds, HostSend(h) PROVE WithinCredit'
  <2>1. /\ sent' = [sent EXCEPT ![h] = @ + 1] /\ answered' = answered
        /\ sent[h] - answered[h] < Credit[h]
    BY <1>2 DEF HostSend
  <2>2. QED
    BY <1>0, <2>1, SizeAssumption DEF WithinCredit
<1>3. CASE HostReceive
  <2> DEFINE e == Head(to_host)
  <2>1. answered' = IF e.kind \in Kinds
                      THEN [answered EXCEPT ![e.kind] = @ + 1] ELSE answered
    BY <1>3 DEF HostReceive
  <2>2. sent' = sent
    BY <1>3 DEF HostReceive
  <2>3. ASSUME NEW k \in Kinds, e.kind = k PROVE answered[k] + 1 <= sent[k]
    <3>1. e.n \in Numbers(UnderWay, k)
      BY <1>3, <2>3, PathReceived
    <3>2. e.n \in (answered[k] + 1)..sent[k]
      BY <3>1 DEF IndInv, NothingLost, EachPacketOnce
    <3>3. QED
      BY <1>0, <3>2
  <2> HIDE DEF e
  <2>4. QED
    BY <1>0, <2>1, <2>2, <2>3, SizeAssumption DEF WithinCredit
<1>4. QED
  BY <1>1, <1>2, <1>3
     DEF Next, Bind, Receive, ReceivePacket, DropPacket, BrokenPacket,
         TakePacket, SendRefused, Controller, AnswerCommand, ReleaseCommand,
         AcceptData, CompleteData, UnaskedEvent, TakeEvent, SendEvent

(* A packet that leaves the controller gives its buffer back.              *)
LEMMA ReleaseBalance ==
  ASSUME IndInv, handling # <<>>, Release(handling[1]), handling' = <<>>,
         tx_queue' = tx_queue, NEW k \in Kinds
  PROVE  /\ free' \in [Kinds -> Nat]
         /\ free'[k] + Count(tx_queue', k) + Count(handling', k) = Pool[k]
<1> DEFINE e == handling[1]
           c == Count(tx_queue, k)
<1>0. TypeOK /\ OneAtATime /\ BufferBalance
  BY DEF IndInv, NothingLost
<1>1. handling = <<e>> /\ e \in Event /\ e.kind \in Kinds
  BY <1>0, OneHeld, EventKinds DEF Packet
<1>2. /\ free \in [Kinds -> Nat] /\ c \in Nat
      /\ free' = [free EXCEPT ![e.kind] = @ + 1]
  BY <1>0, Queues, CountType DEF TypeOK, Release
<1>3. /\ Count(handling, k) = IF e.kind = k THEN 1 ELSE 0
      /\ Count(handling', k) = 0
  BY <1>1, CountOne
<1>4. free[k] + c + Count(handling, k) = Pool[k]
  BY <1>0 DEF BufferBalance
<1> HIDE DEF e, c
<1>5. free' \in [Kinds -> Nat]
  BY <1>1, <1>2
<1>6. free'[k] = free[k] + (IF e.kind = k THEN 1 ELSE 0)
  BY <1>1, <1>2
<1>7. free'[k] + c + 0 = Pool[k]
  <2>1. free[k] \in Nat
    BY <1>2
  <2>2. QED
    BY ONLY <1>2, <1>3, <1>4, <1>6, <2>1
<1>8. QED
  BY <1>3, <1>5, <1>7 DEF c

(* Every step keeps the balance of the buffers for packets.                *)
LEMMA PacketBalanceStep ==
  ASSUME IndInv, Next, NEW k \in Kinds
  PROVE  /\ free' \in [Kinds -> Nat]
         /\ free'[k] + Count(tx_queue', k) + Count(handling', k) = Pool[k]
<1> DEFINE c == Count(tx_queue, k)
           h == Count(handling, k)
<1>0. /\ TypeOK /\ OneAtATime
      /\ free \in [Kinds -> Nat] /\ c \in Nat /\ h \in Nat
      /\ free[k] + c + h = Pool[k]
      /\ tx_queue \in EventSeq /\ to_net \in Seq(Packet)
  BY Queues, CountType DEF IndInv, NothingLost, BufferBalance, TypeOK
<1>1. CASE UNCHANGED <<free, tx_queue, handling>>
  BY <1>0, <1>1
<1>2. CASE ReceivePacket
  <2> DEFINE p == Head(to_net)
  <2>1. /\ p \in Event /\ p.kind \in Kinds
        /\ free[p.kind] > 0
        /\ free' = [free EXCEPT ![p.kind] = @ - 1]
        /\ tx_queue' = Append(tx_queue, p) /\ handling' = handling
    <3>1. to_net # <<>> /\ p \in Packet
      BY <1>0, <1>2, QueueFacts DEF ReceivePacket
    <3>2. p \in Event /\ p.kind \in Kinds
      BY <3>1, EventKinds DEF Packet
    <3>3. QED
      BY <1>2, <3>2 DEF ReceivePacket
  <2>2. Count(tx_queue', k) = c + (IF p.kind = k THEN 1 ELSE 0)
    BY <1>0, <2>1, CountAppend
  <2> HIDE DEF p, c, h
  <2>3. free' \in [Kinds -> Nat]
    BY <1>0, <2>1
  <2>4. free'[k] = free[k] - (IF p.kind = k THEN 1 ELSE 0)
    BY <1>0, <2>1
  <2>5. Count(handling', k) = h
    BY <2>1 DEF h
  <2>6. (free[k] - (IF p.kind = k THEN 1 ELSE 0))
          + (c + (IF p.kind = k THEN 1 ELSE 0)) + h = Pool[k]
    <3>1. /\ free[k] \in Nat /\ c \in Nat /\ h \in Nat
          /\ free[k] + c + h = Pool[k]
      BY <1>0
    <3>2. QED
      BY <3>1
  <2>7. QED
    BY <2>2, <2>3, <2>4, <2>5, <2>6
<1>3. CASE TakePacket
  <2> DEFINE p == Head(tx_queue)
  <2>1. /\ tx_queue # <<>> /\ handling = <<>>
        /\ handling' = <<p>> /\ tx_queue' = Tail(tx_queue)
        /\ free' = free /\ p \in Event /\ Tail(tx_queue) \in EventSeq
    BY <1>0, <1>3, Shift DEF TakePacket
  <2>2. c = Count(tx_queue', k) + (IF p.kind = k THEN 1 ELSE 0)
    BY <1>0, <2>1, CountTail
  <2>3. h = 0 /\ Count(handling', k) = IF p.kind = k THEN 1 ELSE 0
    BY <2>1, CountOne
  <2>4. Count(tx_queue', k) \in Nat
    BY <2>1, CountType
  <2> HIDE DEF p, c, h
  <2>5. QED
    BY <1>0, <2>1, <2>2, <2>3, <2>4
<1>4. CASE SendRefused \/ ReleaseCommand \/ AcceptData
  <2>1. /\ handling # <<>> /\ Release(handling[1]) /\ handling' = <<>>
        /\ tx_queue' = tx_queue
    BY <1>0, <1>4 DEF SendRefused, ReleaseCommand, AcceptData, OneAtATime
  <2>2. QED
    BY <2>1, ReleaseBalance
<1>5. QED
  BY <1>1, <1>2, <1>3, <1>4
     DEF Next, Bind, HostReceive, HostSend, Receive, DropPacket, BrokenPacket,
         Controller, AnswerCommand, CompleteData, UnaskedEvent, TakeEvent,
         SendEvent

(* Every step keeps the balance of the buffers for events.                 *)
LEMMA EventBalanceStep ==
  ASSUME IndInv, Next
  PROVE  /\ event_free' \in Nat
         /\ event_free' + Len(rx_queue') + Len(forwarding') = EventPool
<1>0. /\ event_free \in Nat /\ EventPool \in Nat
      /\ rx_queue \in Seq(Event) /\ forwarding \in Seq(Event)
      /\ on_air \in Seq(Packet) /\ Len(rx_queue) \in Nat
      /\ Len(forwarding) \in Nat
      /\ event_free + Len(rx_queue) + Len(forwarding) = EventPool
  BY SizeAssumption DEF IndInv, NothingLost, BufferBalance, TypeOK
<1>1. CASE UNCHANGED <<event_free, rx_queue, forwarding>>
  BY <1>0, <1>1
<1>2. CASE AnswerCommand \/ CompleteData \/ UnaskedEvent
  <2>1. PICK e \in Event : /\ rx_queue' = Append(rx_queue, e)
                           /\ event_free > 0 /\ event_free' = event_free - 1
                           /\ forwarding' = forwarding
    <3>1. CASE AnswerCommand
      BY <3>1, OneHeld, EventKinds DEF AnswerCommand, IndInv
    <3>2. CASE CompleteData
      BY <1>0, <3>2, EventKinds DEF CompleteData
    <3>3. CASE UnaskedEvent
      BY <3>3, EventKinds DEF UnaskedEvent
    <3>4. QED
      BY <1>2, <3>1, <3>2, <3>3
  <2>2. Len(rx_queue') = Len(rx_queue) + 1
    BY <1>0, <2>1
  <2>3. /\ event_free > 0 /\ event_free' = event_free - 1
        /\ Len(forwarding') = Len(forwarding)
    BY <2>1
  <2>4. /\ event_free \in Nat /\ Len(rx_queue) \in Nat
        /\ Len(forwarding) \in Nat
        /\ event_free + Len(rx_queue) + Len(forwarding) = EventPool
    BY <1>0
  <2>5. QED
    BY ONLY <2>2, <2>3, <2>4
<1>3. CASE TakeEvent
  <2>1. /\ forwarding = <<>> /\ Len(forwarding') = 1
        /\ Len(rx_queue) = Len(rx_queue') + 1 /\ Len(rx_queue') \in Nat
        /\ event_free' = event_free
    BY <1>0, <1>3 DEF TakeEvent
  <2>2. QED
    BY <1>0, <2>1
<1>4. CASE SendEvent
  <2>1. /\ Len(forwarding) = 1 /\ Len(forwarding') = 0
        /\ rx_queue' = rx_queue /\ event_free' = event_free + 1
    <3>1. Len(forwarding) = 1
      <4>1. forwarding # <<>> /\ Len(forwarding) <= 1
        BY <1>4 DEF SendEvent, IndInv, OneAtATime
      <4>2. Len(forwarding) # 0
        BY <1>0, <4>1, EmptySeq
      <4>3. Len(forwarding) \in Nat
        BY <1>0
      <4>4. QED
        BY ONLY <4>1, <4>2, <4>3
    <3>2. QED
      BY <1>4, <3>1 DEF SendEvent
  <2>2. QED
    BY <1>0, <2>1
<1>5. QED
  BY <1>1, <1>2, <1>3, <1>4
     DEF Next, Bind, HostReceive, HostSend, Receive, ReceivePacket,
         DropPacket, BrokenPacket, TakePacket, SendRefused, Controller,
         ReleaseCommand, AcceptData

LEMMA BalanceStep ==
  ASSUME IndInv, Next
  PROVE  BufferBalance'
<1>1. \A k \in Kinds :
        free'[k] + Count(tx_queue', k) + Count(handling', k) = Pool[k]
  BY PacketBalanceStep
<1>2. event_free' + Len(rx_queue') + Len(forwarding') = EventPool
  BY EventBalanceStep
<1>3. QED
  BY <1>1, <1>2 DEF BufferBalance

(* Every step keeps the types and the bounds: of the counters by the       *)
(* credit, of the free buffers by the balance, of the rings by the guards. *)
LEMMA TypeStep ==
  ASSUME IndInv, Next
  PROVE  TypeOK'
<1>0. /\ bound \in BOOLEAN /\ answering \in BOOLEAN
      /\ sent \in [Kinds -> 0..MaxPackets]
      /\ answered \in [Kinds -> 0..MaxPackets]
      /\ to_net \in Seq(Packet) /\ Len(to_net) <= RingSize
      /\ tx_queue \in Seq(Packet) /\ handling \in Seq(Packet)
      /\ on_air \in Seq(Packet)
      /\ rx_queue \in Seq(Event) /\ forwarding \in Seq(Event)
      /\ to_host \in Seq(Event) /\ Len(to_host) <= RingSize
      /\ lost \subseteq Kinds
      /\ \A e \in Packet : e.kind \in Kinds /\ e \in Event
      /\ handling # <<>> => handling[1] \in Packet
  BY OneHeld DEF IndInv, TypeOK, Packet, Event
<1>1. bound' \in BOOLEAN /\ answering' \in BOOLEAN
  BY <1>0
     DEF Next, Bind, HostReceive, HostSend, Receive, ReceivePacket, DropPacket,
         BrokenPacket, TakePacket, SendRefused, Controller, AnswerCommand,
         ReleaseCommand, AcceptData, CompleteData, UnaskedEvent, TakeEvent,
         SendEvent
<1>2. sent' \in [Kinds -> 0..MaxPackets]
  <2>1. ASSUME NEW k \in Kinds, HostSend(k)
        PROVE  sent' \in [Kinds -> 0..MaxPackets]
    <3>1. sent[k] \in 0..MaxPackets /\ sent[k] < MaxPackets
      BY <1>0, <2>1 DEF HostSend
    <3>2. sent[k] + 1 \in 0..MaxPackets
      BY <3>1, SizeAssumption
    <3>3. sent' = [sent EXCEPT ![k] = sent[k] + 1]
      BY <2>1 DEF HostSend
    <3>4. QED
      BY <1>0, <3>2, <3>3
  <2>2. CASE UNCHANGED sent
    BY <1>0, <2>2
  <2>3. QED
    BY <2>1, <2>2
       DEF Next, Bind, HostReceive, Receive, ReceivePacket, DropPacket,
           BrokenPacket, TakePacket, SendRefused, Controller, AnswerCommand,
           ReleaseCommand, AcceptData, CompleteData, UnaskedEvent, TakeEvent,
           SendEvent
<1>3. answered' \in [Kinds -> 0..MaxPackets]
  <2>1. CASE HostReceive
    <3>1. answered' \in [Kinds -> Nat]
      <4>1. /\ answered \in [Kinds -> Nat]
            /\ \A k \in Kinds : answered[k] + 1 \in Nat
        BY <1>0, SizeAssumption
      <4>2. QED
        BY <2>1, <4>1 DEF HostReceive
    <3>2. \A k \in Kinds : answered'[k] <= sent'[k]
      BY CreditStep DEF WithinCredit
    <3>3. \A k \in Kinds : answered'[k] \in 0..MaxPackets
      BY <1>2, <3>1, <3>2, SizeAssumption
    <3>4. QED
      BY <3>1, <3>3
  <2>2. CASE UNCHANGED answered
    BY <1>0, <2>2
  <2>3. QED
    BY <2>1, <2>2
       DEF Next, Bind, HostSend, Receive, ReceivePacket, DropPacket,
           BrokenPacket, TakePacket, SendRefused, Controller, AnswerCommand,
           ReleaseCommand, AcceptData, CompleteData, UnaskedEvent, TakeEvent,
           SendEvent
<1>4. to_net' \in Seq(Packet) /\ Len(to_net') <= RingSize
  <2>1. ASSUME NEW k \in Kinds, HostSend(k)
        PROVE  to_net' \in Seq(Packet) /\ Len(to_net') <= RingSize
    <3>1. sent'[k] \in 1..MaxPackets
      BY <1>0, <2>1, SizeAssumption DEF HostSend
    <3>2. [kind |-> k, n |-> sent'[k]] \in Packet
      BY <3>1 DEF Packet
    <3>3. QED
      BY <1>0, <2>1, <3>2, QueueFacts, SizeAssumption DEF HostSend
  <2>2. CASE ReceivePacket \/ DropPacket \/ BrokenPacket
    <3>1. to_net # <<>> /\ to_net' = Tail(to_net)
      BY <2>2 DEF ReceivePacket, DropPacket, BrokenPacket
    <3>2. /\ Tail(to_net) \in Seq(Packet) /\ Len(Tail(to_net)) \in Nat
          /\ Len(to_net) = Len(Tail(to_net)) + 1
      BY <1>0, <3>1, QueueFacts
    <3>3. QED
      BY <1>0, <3>1, <3>2, SizeAssumption
  <2>3. CASE UNCHANGED to_net
    BY <1>0, <2>3
  <2>4. QED
    BY <2>1, <2>2, <2>3
       DEF Next, Bind, HostReceive, Receive, TakePacket, SendRefused,
           Controller, AnswerCommand, ReleaseCommand, AcceptData,
           CompleteData, UnaskedEvent, TakeEvent, SendEvent
<1>5. tx_queue' \in Seq(Packet) /\ handling' \in Seq(Packet)
  <2>1. CASE ReceivePacket
    BY <1>0, <2>1, QueueFacts DEF ReceivePacket
  <2>2. CASE TakePacket
    BY <1>0, <2>2, QueueFacts DEF TakePacket
  <2>3. CASE UNCHANGED <<tx_queue, handling>>
    BY <1>0, <2>3
  <2>4. CASE SendRefused \/ ReleaseCommand \/ AcceptData
    <3>1. tx_queue' = tx_queue /\ handling' = <<>>
      BY <2>4 DEF SendRefused, ReleaseCommand, AcceptData
    <3>2. QED
      BY <1>0, <3>1
  <2>5. QED
    BY <2>1, <2>2, <2>3, <2>4
       DEF Next, Bind, HostReceive, HostSend, Receive, DropPacket,
           BrokenPacket, Controller, AnswerCommand, CompleteData,
           UnaskedEvent, TakeEvent, SendEvent
<1>6. on_air' \in Seq(Packet)
  <2>1. CASE AcceptData
    BY <1>0, <2>1, QueueFacts DEF AcceptData
  <2>2. CASE CompleteData
    BY <1>0, <2>2, QueueFacts DEF CompleteData
  <2>3. CASE UNCHANGED on_air
    BY <1>0, <2>3
  <2>4. QED
    BY <2>1, <2>2, <2>3
       DEF Next, Bind, HostReceive, HostSend, Receive, ReceivePacket,
           DropPacket, BrokenPacket, TakePacket, SendRefused, Controller,
           AnswerCommand, ReleaseCommand, UnaskedEvent, TakeEvent, SendEvent
<1>7. rx_queue' \in Seq(Event) /\ forwarding' \in Seq(Event)
  <2>1. CASE AnswerCommand
    BY <1>0, <2>1, QueueFacts DEF AnswerCommand
  <2>2. CASE CompleteData
    <3>1. Head(on_air) \in Event
      BY <1>0, <2>2, QueueFacts DEF CompleteData
    <3>2. QED
      BY <1>0, <2>2, <3>1, QueueFacts DEF CompleteData
  <2>3. CASE UnaskedEvent
    BY <1>0, <2>3, QueueFacts, EventKinds DEF UnaskedEvent
  <2>4. CASE TakeEvent
    BY <1>0, <2>4, QueueFacts DEF TakeEvent
  <2>5. CASE SendEvent
    BY <1>0, <2>5 DEF SendEvent
  <2>6. CASE UNCHANGED <<rx_queue, forwarding>>
    BY <1>0, <2>6
  <2>7. QED
    BY <2>1, <2>2, <2>3, <2>4, <2>5, <2>6
       DEF Next, Bind, HostReceive, HostSend, Receive, ReceivePacket,
           DropPacket, BrokenPacket, TakePacket, SendRefused, Controller,
           ReleaseCommand, AcceptData
<1>8. to_host' \in Seq(Event) /\ Len(to_host') <= RingSize
  <2>1. CASE HostReceive
    <3>1. to_host # <<>> /\ to_host' = Tail(to_host)
      BY <2>1 DEF HostReceive
    <3>2. /\ Tail(to_host) \in Seq(Event) /\ Len(Tail(to_host)) \in Nat
          /\ Len(to_host) = Len(Tail(to_host)) + 1
      BY <1>0, <3>1, QueueFacts
    <3>3. QED
      BY <1>0, <3>1, <3>2, SizeAssumption
  <2>2. CASE SendEvent
    <3>1. /\ to_host' = to_host \o forwarding /\ Len(to_host) < RingSize
          /\ Len(forwarding) <= 1
      BY <2>2 DEF SendEvent, IndInv, OneAtATime
    <3>2. /\ to_host \o forwarding \in Seq(Event)
          /\ Len(to_host \o forwarding) = Len(to_host) + Len(forwarding)
          /\ Len(to_host) \in Nat /\ Len(forwarding) \in Nat
      BY <1>0, ConcatProperties
    <3>3. QED
      BY <3>1, <3>2, SizeAssumption
  <2>3. CASE UNCHANGED to_host
    BY <1>0, <2>3
  <2>4. QED
    BY <2>1, <2>2, <2>3
       DEF Next, Bind, HostSend, Receive, ReceivePacket, DropPacket,
           BrokenPacket, TakePacket, SendRefused, Controller, AnswerCommand,
           ReleaseCommand, AcceptData, CompleteData, UnaskedEvent, TakeEvent
<1>9. lost' \subseteq Kinds
  <2>1. CASE BrokenPacket
    BY <1>0, <2>1, QueueFacts DEF BrokenPacket
  <2>2. CASE SendRefused
    BY <1>0, <2>2 DEF SendRefused
  <2>3. CASE UNCHANGED lost
    BY <1>0, <2>3
  <2>4. QED
    BY <2>1, <2>2, <2>3
       DEF Next, Bind, HostReceive, HostSend, Receive, ReceivePacket,
           DropPacket, TakePacket, Controller, AnswerCommand, ReleaseCommand,
           AcceptData, CompleteData, UnaskedEvent, TakeEvent, SendEvent
<1>10. free' \in [Kinds -> Nat] /\ \A k \in Kinds : free'[k] <= Pool[k]
  <2>1. ASSUME NEW k \in Kinds
        PROVE  free' \in [Kinds -> Nat] /\ free'[k] <= Pool[k]
    <3>1. /\ free' \in [Kinds -> Nat]
          /\ free'[k] + Count(tx_queue', k) + Count(handling', k) = Pool[k]
      BY PacketBalanceStep
    <3>2. Count(tx_queue', k) \in Nat /\ Count(handling', k) \in Nat
      BY <1>5, CountType, EventKinds
    <3>3. QED
      BY <3>1, <3>2
  <2>2. CASE Kinds = {}
    <3>1. UNCHANGED free
      BY <1>0, <2>2, QueueFacts
         DEF Next, Bind, HostReceive, HostSend, Receive, ReceivePacket,
             DropPacket, BrokenPacket, TakePacket, SendRefused, Controller,
             AnswerCommand, ReleaseCommand, AcceptData, CompleteData,
             UnaskedEvent, TakeEvent, SendEvent, IndInv, OneAtATime
    <3>2. QED
      BY <2>2, <3>1 DEF IndInv, TypeOK
  <2>3. QED
    BY <2>1, <2>2
<1>11. event_free' \in 0..EventPool
  <2>1. /\ event_free' \in Nat
        /\ event_free' + Len(rx_queue') + Len(forwarding') = EventPool
    BY EventBalanceStep
  <2>2. Len(rx_queue') \in Nat /\ Len(forwarding') \in Nat
    BY <1>7, QueueFacts
  <2>3. QED
    BY <2>1, <2>2, SizeAssumption
<1>12. QED
  BY <1>1, <1>2, <1>3, <1>4, <1>5, <1>6, <1>7, <1>8, <1>9, <1>10, <1>11
     DEF TypeOK

-----------------------------------------------------------------------------
(* No packet is dropped for want of a buffer where there are enough: those *)
(* that have not been handed over and the one in the ring have different   *)
(* numbers, all of them without an event, and so they are within the       *)
(* credit; and a command that has its event, but still its buffer, is the  *)
(* only one of those.                                                      *)
LEMMA BufferAtHand ==
  ASSUME IndInv, to_net # <<>>, Enough(Head(to_net).kind)
  PROVE  free[Head(to_net).kind] > 0
<1> DEFINE p == Head(to_net)
           k == p.kind
           H == Numbers(Handled, k)
           T == Numbers(tx_queue, k)
           All == (answered[k] + 1)..sent[k]
           extra == IF k = "cmd" THEN 1 ELSE 0
<1>1. /\ TypeOK /\ OneAtATime
      /\ handling \in EventSeq /\ Handled \in EventSeq
      /\ tx_queue \in EventSeq /\ to_net \in EventSeq
      /\ ToController \in EventSeq /\ ToThread \in EventSeq
      /\ ToCore \in EventSeq /\ UnderWay = ToCore \o to_net
  BY Queues DEF IndInv
<1>2. p \in Packet /\ k \in Kinds /\ p.n \in Nat
  <2>1. to_net \in Seq(Packet) /\ to_net # <<>>
    BY <1>1 DEF TypeOK
  <2>2. p \in Packet
    BY <2>1, QueueFacts
  <2>3. QED
    BY <2>2, EventKinds DEF Packet
<1>3. p.n \in Numbers(to_net, k)
  <2>1. p = to_net[1] /\ Len(to_net) \in Nat \ {0}
    BY <1>1, Shift, EmptySeq DEF EventSeq
  <2>2. 1 \in OfKind(to_net, k)
    BY <2>1 DEF OfKind
  <2>3. QED
    BY <2>1, <2>2 DEF Numbers
<1>4. /\ InOrder(UnderWay, k) /\ Numbers(UnderWay, k) \subseteq All
      /\ free[k] + Count(tx_queue, k) + Count(handling, k) = Pool[k]
  BY <1>2 DEF IndInv, NothingLost, EachPacketOnce, BufferBalance
<1>5. /\ answered[k] \in Nat /\ sent[k] \in Nat /\ free[k] \in Nat
      /\ Pool[k] \in Nat /\ Credit[k] \in Nat
      /\ sent[k] - answered[k] <= Credit[k]
      /\ answered[k] <= sent[k]
  <2>1. sent[k] \in 0..MaxPackets /\ answered[k] \in 0..MaxPackets
    BY <1>1, <1>2 DEF TypeOK
  <2>2. /\ sent[k] - answered[k] <= Credit[k]
        /\ answered[k] <= sent[k]
    BY <1>2 DEF IndInv, WithinCredit
  <2>3. free[k] \in Nat /\ Pool[k] \in Nat /\ Credit[k] \in Nat
    BY <1>1, <1>2, PoolAssumption DEF TypeOK
  <2>4. QED
    BY <2>1, <2>2, <2>3, SizeAssumption
<1>6. Pool[k] >= Credit[k] + extra
  BY DEF Enough
<1> HIDE DEF k, p
<1>7. /\ InOrder(ToCore, k) /\ Below(ToCore, to_net, k)
      /\ Numbers(ToCore, k) \cup Numbers(to_net, k) \subseteq All
  BY <1>1, <1>4, ConcatOrder, ConcatNumbers
<1>8. /\ InOrder(ToThread, k) /\ InOrder(tx_queue, k)
      /\ Below(ToThread, tx_queue, k)
      /\ Numbers(ToCore, k) = Numbers(ToThread, k) \cup T
  BY <1>1, <1>7, ConcatOrder, ConcatNumbers DEF ToCore
<1>9. InOrder(Handled, k) /\ H \subseteq Numbers(ToThread, k)
  BY <1>1, <1>8, ConcatOrder, ConcatNumbers DEF ToThread
<1>10. /\ H \cup T \cup {p.n} \subseteq All
       /\ H \cap T = {} /\ p.n \notin H \cup T
  <2>1. H \subseteq Nat /\ T \subseteq Nat
    BY <1>1, NumbersType
  <2>2. H \subseteq Numbers(ToCore, k) /\ T \subseteq Numbers(ToCore, k)
    BY <1>8, <1>9
  <2>3. \A m \in H, n \in T : m < n
    BY <1>8, <1>9 DEF Below
  <2>4. \A m \in H \cup T : m < p.n
    BY <1>3, <1>7, <2>2 DEF Below
  <2> HIDE DEF H, T, All
  <2>5. \A n \in Nat : ~(n < n)
    OBVIOUS
  <2>6. QED
    BY <1>2, <1>3, <1>7, <2>1, <2>2, <2>3, <2>4, <2>5
<1>11. Cardinality(H \cup T \cup {p.n}) =
         Count(Handled, k) + Count(tx_queue, k) + 1
  <2>1. /\ IsFiniteSet(H) /\ Cardinality(H) = Count(Handled, k)
        /\ IsFiniteSet(T) /\ Cardinality(T) = Count(tx_queue, k)
        /\ Count(Handled, k) \in Nat /\ Count(tx_queue, k) \in Nat
    BY <1>1, <1>8, <1>9, CountNumbers, CountType
  <2> HIDE DEF H, T
  <2>2. /\ IsFiniteSet(H \cup T)
        /\ Cardinality(H \cup T) =
             Cardinality(H) + Cardinality(T) - Cardinality({})
    BY <1>10, <2>1, FS_Union
  <2>3. Cardinality(H \cup T) = Cardinality(H) + Cardinality(T)
    BY <2>1, <2>2, FS_EmptySet
  <2>4. Cardinality((H \cup T) \cup {p.n}) = Cardinality(H \cup T) + 1
    BY <1>10, <2>2, FS_AddElement
  <2>5. QED
    BY <2>1, <2>3, <2>4
<1>12. Count(Handled, k) + Count(tx_queue, k) + 1 <= sent[k] - answered[k]
  <2>1. answered[k] + 1 \in Int /\ sent[k] \in Int
    BY <1>5
  <2>2. IsFiniteSet(All) /\ Cardinality(All) =
          IF answered[k] + 1 > sent[k] THEN 0
                                       ELSE sent[k] - (answered[k] + 1) + 1
    BY <2>1, FS_Interval
  <2>3. Cardinality(H \cup T \cup {p.n}) <= Cardinality(All)
    BY <1>10, <2>2, FS_Subset
  <2> HIDE DEF H, T, All
  <2>4. Cardinality(All) <= sent[k] - answered[k] /\ Cardinality(All) \in Nat
    BY <1>5, <2>2
  <2>5. Count(Handled, k) \in Nat /\ Count(tx_queue, k) \in Nat
    BY <1>1, CountType
  <2>6. QED
    BY <1>5, <1>11, <2>3, <2>4, <2>5
<1>13. Count(handling, k) <= Count(Handled, k) + extra
  <2>1. CASE ~answering
    <3>1. Handled = handling
      BY <2>1 DEF Handled
    <3>2. Count(handling, k) \in Nat
      BY <1>1, CountType
    <3>3. QED
      BY <3>1, <3>2
  <2>2. CASE answering
    <3>1. /\ Handled = <<>> /\ handling = <<handling[1]>>
          /\ handling[1] \in Event /\ handling[1].kind = "cmd"
      BY <1>1, <2>2, OneHeld, EventKinds DEF Handled, OneAtATime
    <3>2. /\ Count(Handled, k) = 0
          /\ Count(handling, k) = IF "cmd" = k THEN 1 ELSE 0
      BY <3>1, CountOne
    <3>3. QED
      BY <3>2
  <2>3. QED
    BY <2>1, <2>2
<1>14. free[k] > 0
  <2>1. /\ Count(Handled, k) \in Nat /\ Count(tx_queue, k) \in Nat
        /\ Count(handling, k) \in Nat /\ extra \in Nat
    BY <1>1, CountType
  <2>2. free[k] + Count(tx_queue, k) + Count(handling, k) = Pool[k]
    BY <1>4
  <2> HIDE DEF extra
  <2>3. QED
    BY ONLY <1>5, <1>6, <1>12, <1>13, <2>1, <2>2
<1>15. QED
  BY <1>14 DEF k, p

(* What EachPacketOnce says of a kind.                                     *)
OnceOf(k) ==
  /\ InOrder(UnderWay, k)
  /\ Numbers(UnderWay, k) \subseteq (answered[k] + 1)..sent[k]
  /\ Enough(k) /\ k \notin lost =>
       Numbers(UnderWay, k) = (answered[k] + 1)..sent[k]

(* It stays while the host neither sends a packet of the kind nor gets its *)
(* event, and none of the kind disappears but those in lost.               *)
LEMMA OnceKept ==
  ASSUME IndInv, NEW k \in Kinds, sent'[k] = sent[k],
         answered'[k] = answered[k], lost \subseteq lost',
         Fewer(UnderWay, UnderWay', k),
         Enough(k) /\ k \notin lost' => Kept(UnderWay, UnderWay', k)
  PROVE  OnceOf(k)'
<1>1. OnceOf(k)
  BY DEF IndInv, NothingLost, EachPacketOnce, OnceOf
<1>2. /\ InOrder(UnderWay', k)
      /\ Numbers(UnderWay', k) \subseteq (answered'[k] + 1)..sent'[k]
  BY <1>1 DEF Fewer, OnceOf
<1>3. ASSUME Enough(k), k \notin lost'
      PROVE  Numbers(UnderWay', k) = (answered'[k] + 1)..sent'[k]
  BY <1>1, <1>3 DEF Kept, Fewer, OnceOf
<1>4. QED
  BY <1>2, <1>3 DEF OnceOf, Enough

LEMMA OnceSent ==
  ASSUME IndInv, NEW k \in Kinds, HostSend(k)
  PROVE  OnceOf(k)'
<1>1. OnceOf(k)
  BY DEF IndInv, NothingLost, EachPacketOnce, OnceOf
<1>2. /\ InOrder(UnderWay', k)
      /\ Numbers(UnderWay', k) = Numbers(UnderWay, k) \cup {sent[k] + 1}
  BY PathSent
<1>3. /\ answered[k] \in Nat /\ sent[k] \in Nat /\ answered[k] <= sent[k]
      /\ sent \in [Kinds -> 0..MaxPackets]
  BY SizeAssumption DEF IndInv, TypeOK, WithinCredit
<1>4. sent'[k] = sent[k] + 1 /\ answered' = answered /\ lost' = lost
  BY <1>3 DEF HostSend
<1>5. (answered[k] + 1)..sent[k] \cup {sent[k] + 1} =
        (answered[k] + 1)..(sent[k] + 1)
  BY <1>3
<1>6. Numbers(UnderWay', k) \subseteq (answered'[k] + 1)..sent'[k]
  BY <1>1, <1>2, <1>4, <1>5 DEF OnceOf
<1>7. ASSUME Enough(k), k \notin lost'
      PROVE  Numbers(UnderWay', k) = (answered'[k] + 1)..sent'[k]
  BY <1>1, <1>2, <1>4, <1>5, <1>7 DEF OnceOf
<1>8. QED
  BY <1>2, <1>6, <1>7 DEF OnceOf, Enough

LEMMA OnceReceived ==
  ASSUME IndInv, HostReceive, NEW k \in Kinds, Head(to_host).kind = k
  PROVE  OnceOf(k)'
<1> DEFINE m == Head(to_host).n
           N == Numbers(UnderWay, k)
           M == Numbers(UnderWay', k)
           a == answered[k]
           s == sent[k]
<1>1. OnceOf(k)
  BY DEF IndInv, NothingLost, EachPacketOnce, OnceOf
<1>2. /\ InOrder(UnderWay', k) /\ m \in N /\ N = M \cup {m}
      /\ \A n \in M : m < n
  BY PathReceived
<1>3. a \in Nat /\ s \in Nat /\ answered \in [Kinds -> 0..MaxPackets]
  BY SizeAssumption DEF IndInv, TypeOK
<1>4. answered'[k] = a + 1 /\ sent' = sent /\ lost' = lost
  BY <1>3 DEF HostReceive
<1>5. N \subseteq (a + 1)..s /\ (Enough(k) /\ k \notin lost => N = (a + 1)..s)
  BY <1>1 DEF OnceOf
<1> HIDE DEF m, N, M, a, s
<1>6. M \subseteq (a + 2)..s
  BY <1>2, <1>3, <1>5
<1>7. ASSUME N = (a + 1)..s PROVE M = (a + 2)..s
  <2>1. a + 1 \in N
    BY <1>2, <1>3, <1>7
  <2>2. m = a + 1
    BY <1>2, <1>3, <1>7, <2>1
  <2>3. (a + 2)..s \subseteq M
    BY <1>2, <1>3, <1>7, <2>2
  <2>4. QED
    BY <1>6, <2>3
<1>8. (answered'[k] + 1)..sent'[k] = (a + 2)..s
  BY <1>3, <1>4 DEF s
<1>9. QED
  BY <1>2, <1>4, <1>5, <1>6, <1>7, <1>8 DEF OnceOf, Enough, M

LEMMA OnceStep ==
  ASSUME IndInv, Next
  PROVE  EachPacketOnce'
<1> SUFFICES ASSUME NEW k \in Kinds PROVE OnceOf(k)'
  BY DEF EachPacketOnce, OnceOf
<1>0. /\ sent \in [Kinds -> 0..MaxPackets]
      /\ answered \in [Kinds -> 0..MaxPackets]
  BY DEF IndInv, TypeOK
<1>1. CASE Bind \/ ReceivePacket \/ TakePacket \/ Controller \/ CompleteData
             \/ UnaskedEvent \/ TakeEvent \/ SendEvent
  <2>1. UNCHANGED <<sent, answered, lost>>
    BY <1>1 DEF Bind, ReceivePacket, TakePacket, Controller, AnswerCommand,
                ReleaseCommand, AcceptData, CompleteData, UnaskedEvent,
                TakeEvent, SendEvent
  <2>2. Kept(UnderWay, UnderWay', k)
    BY <1>1, PathKept
  <2>3. QED
    BY <2>1, <2>2, OnceKept DEF Kept
<1>2. CASE DropPacket
  <2>1. UNCHANGED <<sent, answered, lost>> /\ to_net # <<>>
    BY <1>2 DEF DropPacket
  <2>2. Enough(k) => Head(to_net).kind # k
    <3>1. free[Head(to_net).kind] = 0
      BY <1>2 DEF DropPacket
    <3>2. QED
      BY <2>1, <3>1, BufferAtHand
  <2>3. /\ Fewer(UnderWay, UnderWay', k)
        /\ Enough(k) => Kept(UnderWay, UnderWay', k)
    BY <1>2, <2>2, PathFewer
  <2>4. QED
    BY <2>1, <2>3, OnceKept
<1>3. CASE BrokenPacket
  <2>1. UNCHANGED <<sent, answered>> /\ lost' = lost \cup {Head(to_net).kind}
    BY <1>3 DEF BrokenPacket
  <2>2. /\ Fewer(UnderWay, UnderWay', k)
        /\ k \notin lost' => Kept(UnderWay, UnderWay', k)
    BY <1>3, <2>1, PathFewer
  <2>3. QED
    BY <2>1, <2>2, OnceKept
<1>4. CASE SendRefused
  <2>1. UNCHANGED <<sent, answered>> /\ lost' = lost \cup {handling[1].kind}
    BY <1>4 DEF SendRefused
  <2>2. /\ Fewer(UnderWay, UnderWay', k)
        /\ k \notin lost' => Kept(UnderWay, UnderWay', k)
    BY <1>4, <2>1, PathFewer
  <2>3. QED
    BY <2>1, <2>2, OnceKept
<1>5. ASSUME NEW h \in Kinds, HostSend(h) PROVE OnceOf(k)'
  <2>1. CASE h = k
    BY <1>5, <2>1, OnceSent
  <2>2. CASE h # k
    <3>1. /\ sent'[k] = sent[k] /\ UNCHANGED <<answered, lost>>
      BY <1>0, <1>5, <2>2 DEF HostSend
    <3>2. Kept(UnderWay, UnderWay', k)
      BY <1>5, <2>2, PathSent
    <3>3. QED
      BY <3>1, <3>2, OnceKept DEF Kept
  <2>3. QED
    BY <2>1, <2>2
<1>6. CASE HostReceive
  <2>1. CASE Head(to_host).kind = k
    BY <1>6, <2>1, OnceReceived
  <2>2. CASE Head(to_host).kind # k
    <3>1. /\ answered'[k] = answered[k] /\ UNCHANGED <<sent, lost>>
      BY <1>0, <1>6, <2>2 DEF HostReceive
    <3>2. Kept(UnderWay, UnderWay', k)
      BY <1>6, <2>2, PathReceived
    <3>3. QED
      BY <3>1, <3>2, OnceKept DEF Kept
  <2>3. QED
    BY <2>1, <2>2
<1>7. QED
  BY <1>1, <1>2, <1>3, <1>4, <1>5, <1>6 DEF Next, Receive

LEMMA StepInv == IndInv /\ [Next]_vars => IndInv'
<1>1. ASSUME IndInv, Next PROVE IndInv'
  <2>1. TypeOK' /\ OneAtATime' /\ WithinCredit'
    BY <1>1, TypeStep, OneStep, CreditStep
  <2>2. BufferBalance' /\ EachPacketOnce'
    BY <1>1, BalanceStep, OnceStep
  <2>3. QED
    BY <2>1, <2>2 DEF IndInv, NothingLost
<1>2. ASSUME IndInv, UNCHANGED vars PROVE IndInv'
  BY <1>2 DEF IndInv, TypeOK, OneAtATime, WithinCredit, NothingLost,
              BufferBalance, EachPacketOnce, UnderWay, Coming, Handled, Enough
<1>3. QED
  BY <1>1, <1>2

-----------------------------------------------------------------------------
(* The theorems.                                                           *)

(* The invariant holds of every behaviour of the bridge.                   *)
THEOREM Invariance == Spec => []IndInv
  BY InitInv, StepInv, PTL DEF Spec

(* Every variable keeps its type: no pool ever has more buffers free than  *)
(* it has, no ring more messages than it holds, and the host never gets an *)
(* event more than it has sent packets (cpunet/src/main.c:70-241, 291-296).*)
THEOREM TypeCorrect == Spec => []TypeOK
<1>1. IndInv => TypeOK
  BY DEF IndInv
<1>2. QED
  BY <1>1, Invariance, PTL

(* No buffer is lost or released twice by the callback, tx_thread, the     *)
(* controller or main(), whatever is broken, refused or unasked for; every *)
(* packet the host has sent and not got an event for is in one place and   *)
(* in its order, and all of them are there if there are buffers enough     *)
(* (cpunet/src/main.c:70-241, 243-297, 519-524).                           *)
THEOREM NothingLostCorrect == Spec => []NothingLost
<1>1. IndInv => NothingLost
  BY DEF IndInv
<1>2. QED
  BY <1>1, Invariance, PTL

(* The callback drops a packet for want of a buffer (cpunet/src/main.c:70- *)
(* 205) only of a kind that has too few for the credit of the host.        *)
NoneDropped ==
  [][DropPacket => ~Enough(Head(to_net).kind)]_vars

THEOREM NoneDroppedCorrect == Spec => NoneDropped
<1>1. IndInv => (DropPacket => ~Enough(Head(to_net).kind))
  <2> SUFFICES ASSUME IndInv, DropPacket, Enough(Head(to_net).kind)
               PROVE  FALSE
    OBVIOUS
  <2>1. to_net # <<>> /\ free[Head(to_net).kind] = 0
    BY DEF DropPacket
  <2>2. free[Head(to_net).kind] > 0
    BY <2>1, BufferAtHand
  <2>3. QED
    BY <2>1, <2>2
<1>2. QED
  BY <1>1, Invariance, PTL DEF Spec, NoneDropped

=============================================================================
