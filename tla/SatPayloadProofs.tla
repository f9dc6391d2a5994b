-------------------------- MODULE SatPayloadProofs --------------------------
(***************************************************************************)
(* Proofs about the satellite payload, for every set of shells, of texts   *)
(* and of intervals.                                                       *)
(***************************************************************************)
EXTENDS SatPayload, SequenceTheorems, TLAPS

USE DEF vars, shellVars, settings, packetVars

-----------------------------------------------------------------------------
(* The inductive invariant.                                                *)

(* The shell within the payload command is the owner of the mutex.         *)
OneCommand == \A s \in Shells : pc[s] # "idle" <=> mutex = s

(* The command at work fits, and the copying starts from the first byte.   *)
CommandHeld ==
  \A s \in Shells :
    /\ Fits(command[s])
    /\ pc[s] # "bytes" => i[s] = 0

(* What the command has set so far is its own.                             *)
HalfApplied ==
  \A s \in Shells :
    /\ pc[s] \in {"bytes", "unlock"} => payload_type = command[s].type
    /\ pc[s] = "bytes" =>
         \A b \in 1..i[s] : buffer[b] = command[s].text.name
    /\ pc[s] = "unlock" /\ command[s].text.len # 0 =>
         /\ size = command[s].text.len
         /\ \A b \in 1..size : buffer[b] = command[s].text.name

IndInv ==
  /\ TypeOK /\ OneCommand /\ CommandHeld /\ HalfApplied
  /\ SettingsApplied /\ PacketMatchesSetting

-----------------------------------------------------------------------------
(* Commands, texts and packets.                                            *)

(* What a command is: only a custom one has a text.                        *)
LEMMA CommandTypes ==
  ASSUME NEW c \in Commands
  PROVE  /\ c.type \in PayloadTypes
         /\ c.text.len \in Nat /\ c.text.name \in Bytes
         /\ c.type # "custom" => c.text.len = 0
<1>1. CASE c \in [type : PayloadTypes \ {"custom"}, text : {NoText}]
  BY <1>1 DEF NoText, Bytes
<1>2. CASE c \in [type : {"custom"}, text : [name : Names, len : Lengths]]
  BY <1>2, LengthsAssumption DEF PayloadTypes, Bytes
<1>3. QED
  BY <1>1, <1>2 DEF Commands

LEMMA NothingTyped ==
  /\ Nothing \in Commands
  /\ Nothing.type = "invalid" /\ Nothing.text.len = 0 /\ Fits(Nothing)
  BY DEF Nothing, Commands, PayloadTypes, Sensors, NoText, Fits, PayloadMax

(* An interval in the range is left as it is by the cut to eight bits.     *)
LEMMA IntervalKept ==
  ASSUME NEW v \in 0..10
  PROVE  v % 256 = v
  OBVIOUS

(* The text of the settings is what the first bytes of the buffer hold.    *)
LEMMA TextInBuffer ==
  ASSUME NEW buf \in [1..PayloadMax -> Bytes], NEW n \in 0..(PayloadMax - 1)
  PROVE  /\ SubSeq(buf, 1, n) \in Seq(Bytes)
         /\ Len(SubSeq(buf, 1, n)) = n
         /\ \A b \in 1..n : SubSeq(buf, 1, n)[b] = buf[b]
<1>1. \A b \in 1..n : buf[b] \in Bytes
  BY DEF PayloadMax
<1>2. QED
  BY <1>1, SubSeqProperties DEF PayloadMax

(* The lengths of packets: enough for what is used, and one the SDK knows. *)
LEMMA PacketLengths ==
  ASSUME NEW n \in 0..PayloadMax
  PROVE  /\ NearestPacketLen(n) \in {0, 4, 9, PayloadMax}
         /\ n <= NearestPacketLen(n)
         /\ n = 0 => NearestPacketLen(n) = 0
  BY DEF NearestPacketLen, PayloadMax

(* What sat_transmit may find for the setting: fewer bytes than it uses,   *)
(* or none.                                                                *)
LEMMA ContentFacts ==
  ASSUME TypeOK, NEW c \in Content
  PROVE  /\ c.used \in 0..PayloadMax /\ c.data \in Seq(Bytes)
         /\ Len(c.data) < c.used \/ (c.used = 0 /\ c.data = <<>>)
         /\ payload_type = "custom" => c.data = SubSeq(buffer, 1, size)
         /\ payload_type \in Sensors \cup {"battery"} /\ c.data # <<>> =>
              c.data = Reading(Len(c.data))
         /\ payload_type = "invalid" => c.used = 0
<1>1. /\ SubSeq(buffer, 1, size) \in Seq(Bytes)
      /\ Len(SubSeq(buffer, 1, size)) < PayloadMax
  BY TextInBuffer DEF TypeOK, PayloadMax
<1>2. /\ Reading(1) \in Seq(Bytes) /\ Len(Reading(1)) = 1
      /\ Reading(8) \in Seq(Bytes) /\ Len(Reading(8)) = 8
  BY DEF Reading, Bytes
<1>3. <<>> \in Seq(Bytes)
  OBVIOUS
<1>4. CASE payload_type = "custom"
  <2>1. Content = {[data |-> SubSeq(buffer, 1, size), used |-> PayloadMax]}
    BY <1>4 DEF Content, Sensors
  <2>2. c.data = SubSeq(buffer, 1, size) /\ c.used = PayloadMax
    BY <2>1
  <2>3. QED
    BY <1>1, <1>4, <2>2 DEF PayloadMax, Sensors
<1>5. CASE payload_type = "battery"
  <2>1. Content = {[data |-> Reading(1), used |-> 2],
                   [data |-> <<>>, used |-> 0]}
    BY <1>5 DEF Content, Sensors
  <2>2. CASE c.data = Reading(1) /\ c.used = 2
    <3>1. Len(c.data) = 1 /\ c.used = 2
      BY <1>2, <2>2
    <3>2. Len(c.data) < c.used /\ c.used \in 0..PayloadMax
      BY <3>1 DEF PayloadMax
    <3>3. c.data \in Seq(Bytes) /\ c.data = Reading(Len(c.data))
      BY <1>2, <2>2
    <3>4. QED
      BY <1>5, <3>1, <3>2, <3>3 DEF Sensors
  <2>3. CASE c.data = <<>> /\ c.used = 0
    BY <1>3, <1>5, <2>3 DEF PayloadMax, Sensors
  <2>4. QED
    BY <2>1, <2>2, <2>3
<1>6. CASE payload_type \in Sensors
  <2>1. Content = {[data |-> Reading(8), used |-> 9],
                   [data |-> <<>>, used |-> 0]}
    BY <1>6 DEF Content, Sensors
  <2>2. CASE c.data = Reading(8) /\ c.used = 9
    <3>1. Len(c.data) = 8 /\ c.used = 9
      BY <1>2, <2>2
    <3>2. Len(c.data) < c.used /\ c.used \in 0..PayloadMax
      BY <3>1 DEF PayloadMax
    <3>3. c.data \in Seq(Bytes) /\ c.data = Reading(Len(c.data))
      BY <1>2, <2>2
    <3>4. QED
      BY <1>6, <3>1, <3>2, <3>3 DEF Sensors
  <2>3. CASE c.data = <<>> /\ c.used = 0
    BY <1>3, <1>6, <2>3 DEF PayloadMax, Sensors
  <2>4. QED
    BY <2>1, <2>2, <2>3
<1>7. CASE payload_type = "invalid"
  <2>1. Content = {[data |-> <<>>, used |-> 0]}
    BY <1>7 DEF Content, Sensors
  <2>2. c.data = <<>> /\ c.used = 0
    BY <2>1
  <2>3. QED
    BY <1>3, <1>7, <2>2 DEF PayloadMax, Sensors
<1>8. QED
  BY <1>4, <1>5, <1>6, <1>7 DEF TypeOK, PayloadTypes

-----------------------------------------------------------------------------
(* No command was given and no packet built.                               *)
LEMMA InitInv == Init => IndInv
<1> SUFFICES ASSUME Init PROVE IndInv
  OBVIOUS
<1> USE NothingTyped DEF Init
<1>1. TypeOK
  <2>1. /\ pc \in [Shells -> {"idle", "type", "bytes", "unlock"}]
        /\ command \in [Shells -> Commands]
        /\ i \in [Shells -> Nat]
        /\ \A s \in Shells : i[s] <= command[s].text.len
    OBVIOUS
  <2>2. /\ buffer \in [1..PayloadMax -> Bytes]
        /\ size \in 0..(PayloadMax - 1)
    BY DEF PayloadMax, Bytes
  <2>3. payload_type \in PayloadTypes /\ accepted \in Commands
    BY DEF PayloadTypes
  <2>4. packet.data \in Seq(Bytes)
    OBVIOUS
  <2>5. /\ mutex \in Shells \cup {Free} /\ retransmission \in 0..10
        /\ packet.channel \in 0..4 /\ packet.len \in Nat
    OBVIOUS
  <2>6. typed \in Intervals \cup {4} /\ wanted \subseteq Commands
    OBVIOUS
  <2>7. spoiled \in BOOLEAN
    OBVIOUS
  <2>8. QED
    BY <2>1, <2>2, <2>3, <2>4, <2>5, <2>6, <2>7 DEF TypeOK
<1>2. OneCommand /\ CommandHeld /\ HalfApplied
  BY FreeAssumption DEF OneCommand, CommandHeld, HalfApplied
<1>3. SettingsApplied /\ PacketMatchesSetting
  BY DEF SettingsApplied, PacketMatchesSetting, PacketFits
<1>4. QED
  BY <1>1, <1>2, <1>3 DEF IndInv

(* Every step keeps the types.                                             *)
LEMMA TypeStep ==
  ASSUME IndInv, Next
  PROVE  TypeOK'
<1>0. \A c \in Commands : /\ c.type \in PayloadTypes
                          /\ c.text.len \in Nat /\ c.text.name \in Bytes
  BY CommandTypes
<1>a. ASSUME NEW c \in Content
      PROVE  c.used \in 0..PayloadMax /\ c.data \in Seq(Bytes)
  BY ContentFacts DEF IndInv
<1> USE DEF IndInv, TypeOK, Goto
<1>1. ASSUME NEW s \in Shells, PayloadLock(s) PROVE TypeOK'
  BY <1>0, <1>1 DEF PayloadLock, CommandHeld
<1>2. ASSUME NEW s \in Shells, SetType(s) PROVE TypeOK'
  BY <1>0, <1>2 DEF SetType
<1>3. ASSUME NEW s \in Shells, CopyByte(s) PROVE TypeOK'
  <2>1. /\ command[s].text.len \in Nat /\ command[s].text.name \in Bytes
        /\ command[s].text.len < PayloadMax
        /\ i[s] \in Nat /\ i[s] <= command[s].text.len
    BY <1>0 DEF CommandHeld, Fits
  <2>2. buffer' \in [1..PayloadMax -> Bytes]
    BY <1>3, <2>1 DEF CopyByte
  <2>3. /\ i' \in [Shells -> Nat]
        /\ \A r \in Shells : i'[r] <= command'[r].text.len
    BY <1>0, <1>3, <2>1 DEF CopyByte
  <2>4. QED
    BY <1>3, <2>2, <2>3 DEF CopyByte
<1>4. ASSUME NEW s \in Shells, SetSize(s) PROVE TypeOK'
  <2>1. size' \in 0..(PayloadMax - 1)
    BY <1>0, <1>4 DEF SetSize, CommandHeld, Fits, PayloadMax
  <2>2. /\ i' \in [Shells -> Nat]
        /\ \A r \in Shells : i'[r] <= command'[r].text.len
    BY <1>0, <1>4 DEF SetSize
  <2>3. QED
    BY <1>4, <2>1, <2>2 DEF SetSize
<1>5. ASSUME NEW s \in Shells, PayloadUnlock(s) PROVE TypeOK'
  BY <1>0, <1>5, NothingTyped DEF PayloadUnlock, Refused, Empty, CommandHeld
<1>6. ASSUME NEW s \in Shells, Retransmission(s) PROVE TypeOK'
  BY <1>6 DEF Retransmission, InRange, EightBits
<1>7. CASE BuildPacket
  <2>1. PICK c \in Content :
          packet' = [channel |-> Channel(payload_type), data |-> c.data,
                     len |-> NearestPacketLen(c.used)]
    BY <1>7 DEF BuildPacket
  <2>2. /\ c.data \in Seq(Bytes)
        /\ NearestPacketLen(c.used) \in {0, 4, 9, PayloadMax}
    BY <1>a, PacketLengths
  <2>3. Channel(payload_type) \in 0..4
    BY DEF Channel
  <2>4. wanted' \subseteq Commands
    BY <1>7 DEF BuildPacket
  <2>5. UNCHANGED <<shellVars, settings, retransmission, accepted, spoiled,
                    typed>>
    BY <1>7 DEF BuildPacket
  <2>6. /\ packet'.channel \in 0..4 /\ packet'.data \in Seq(Bytes)
        /\ packet'.len \in Nat
    BY <2>1, <2>2, <2>3 DEF PayloadMax
  <2>7. QED
    BY <2>4, <2>5, <2>6
<1>8. QED
  BY <1>1, <1>2, <1>3, <1>4, <1>5, <1>6, <1>7 DEF Next

(* One command at a time, which fits and starts from its first byte.       *)
LEMMA CommandStep ==
  ASSUME IndInv, Next
  PROVE  (OneCommand /\ CommandHeld)'
<1>0. ASSUME NEW s \in Shells
      PROVE  command[s].text.len \in Nat /\ i[s] \in Nat
  <2>1. command[s] \in Commands /\ i[s] \in Nat
    BY DEF IndInv, TypeOK
  <2>2. QED
    BY <2>1, CommandTypes
<1> USE FreeAssumption DEF IndInv, TypeOK, OneCommand, CommandHeld, Goto
<1>1. ASSUME NEW s \in Shells, PayloadLock(s)
      PROVE  (OneCommand /\ CommandHeld)'
  BY <1>1 DEF PayloadLock
<1>2. ASSUME NEW s \in Shells, SetType(s) PROVE (OneCommand /\ CommandHeld)'
  BY <1>2 DEF SetType
<1>3. ASSUME NEW s \in Shells, CopyByte(s) PROVE (OneCommand /\ CommandHeld)'
  BY <1>3 DEF CopyByte
<1>4. ASSUME NEW s \in Shells, SetSize(s) PROVE (OneCommand /\ CommandHeld)'
  BY <1>4 DEF SetSize
<1>5. ASSUME NEW s \in Shells, PayloadUnlock(s)
      PROVE  (OneCommand /\ CommandHeld)'
  BY <1>5, NothingTyped DEF PayloadUnlock
<1>6. ASSUME NEW s \in Shells, Retransmission(s)
      PROVE  (OneCommand /\ CommandHeld)'
  BY <1>6 DEF Retransmission
<1>7. CASE BuildPacket
  BY <1>7 DEF BuildPacket
<1>8. QED
  BY <1>1, <1>2, <1>3, <1>4, <1>5, <1>6, <1>7 DEF Next

(* A command writes its own settings, and nobody else's come between.      *)
LEMMA HalfStep ==
  ASSUME IndInv, Next
  PROVE  HalfApplied'
<1>0. \A s \in Shells :
        /\ command[s].text.len \in Nat
        /\ i[s] \in Nat /\ i[s] <= command[s].text.len
        /\ command[s].text.len < PayloadMax
  BY CommandTypes DEF IndInv, TypeOK, CommandHeld, Fits
<1>a. /\ mutex \in Shells \cup {Free}
      /\ pc \in [Shells -> {"idle", "type", "bytes", "unlock"}]
      /\ command \in [Shells -> Commands] /\ i \in [Shells -> Nat]
      /\ buffer \in [1..PayloadMax -> Bytes]
  BY DEF IndInv, TypeOK
<1>b. /\ OneCommand /\ HalfApplied
      /\ \A s \in Shells : pc[s] # "bytes" => i[s] = 0
  BY DEF IndInv, CommandHeld
<1> USE <1>a, <1>b DEF OneCommand, HalfApplied, Goto
<1>1. ASSUME NEW s \in Shells, PayloadLock(s) PROVE HalfApplied'
  BY <1>1 DEF PayloadLock
<1>2. ASSUME NEW s \in Shells, SetType(s) PROVE HalfApplied'
  BY <1>0, <1>2 DEF SetType
<1>3. ASSUME NEW s \in Shells, CopyByte(s) PROVE HalfApplied'
  <2>1. /\ pc[s] = "bytes" /\ mutex = s /\ pc' = pc /\ command' = command
        /\ payload_type' = payload_type /\ size' = size
    BY <1>3 DEF CopyByte
  <2>2. \A r \in Shells \ {s} : pc[r] = "idle"
    BY <2>1
  <2>3. i'[s] = i[s] + 1
    BY <1>3 DEF CopyByte
  <2>4. buffer'[i[s] + 1] = command[s].text.name
    <3>1. i[s] < command[s].text.len
      BY <1>3 DEF CopyByte
    <3>2. /\ i[s] \in Nat /\ command[s].text.len \in Nat
          /\ command[s].text.len < PayloadMax
      BY <1>0
    <3>3. i[s] + 1 \in 1..PayloadMax
      BY ONLY <3>1, <3>2 DEF PayloadMax
    <3>4. QED
      BY <1>3, <3>3 DEF CopyByte
  <2>5. \A b \in 1..i[s] : buffer'[b] = buffer[b]
    BY <1>0, <1>3 DEF CopyByte, PayloadMax
  <2>6. \A b \in 1..i'[s] : buffer'[b] = command[s].text.name
    BY <1>0, <2>1, <2>3, <2>4, <2>5
  <2>7. QED
    BY <2>1, <2>2, <2>6
<1>4. ASSUME NEW s \in Shells, SetSize(s) PROVE HalfApplied'
  BY <1>0, <1>4 DEF SetSize
<1>5. ASSUME NEW s \in Shells, PayloadUnlock(s) PROVE HalfApplied'
  BY <1>5 DEF PayloadUnlock
<1>6. ASSUME NEW s \in Shells, Retransmission(s) PROVE HalfApplied'
  BY <1>6 DEF Retransmission
<1>7. CASE BuildPacket
  BY <1>7 DEF BuildPacket
<1>8. QED
  BY <1>1, <1>2, <1>3, <1>4, <1>5, <1>6, <1>7 DEF Next

(* When the command ends the settings are its own.                         *)
LEMMA SettingsStep ==
  ASSUME IndInv, Next
  PROVE  SettingsApplied'
<1> USE FreeAssumption DEF IndInv, TypeOK, OneCommand, SettingsApplied, Goto
<1>1. ASSUME NEW s \in Shells, PayloadLock(s) PROVE SettingsApplied'
  BY <1>1 DEF PayloadLock
<1>2. ASSUME NEW s \in Shells, SetType(s) PROVE SettingsApplied'
  BY <1>2 DEF SetType
<1>3. ASSUME NEW s \in Shells, CopyByte(s) PROVE SettingsApplied'
  BY <1>3 DEF CopyByte
<1>4. ASSUME NEW s \in Shells, SetSize(s) PROVE SettingsApplied'
  BY <1>4 DEF SetSize
<1>5. ASSUME NEW s \in Shells, PayloadUnlock(s) PROVE SettingsApplied'
  <2> DEFINE c == command[s]
  <2>1. UNCHANGED <<settings, retransmission, typed>>
    BY <1>5 DEF PayloadUnlock
  <2>2. ASSUME ~spoiled'
        PROVE  /\ payload_type = c.type /\ accepted' = c
               /\ c.type = "custom" => c.text.len # 0
    BY <1>5, <2>2 DEF PayloadUnlock, HalfApplied, Refused, Empty
  <2>3. ASSUME ~spoiled', c.type = "custom"
        PROVE  IsText(SubSeq(buffer, 1, size), c.text)
    <3>1. size = c.text.len /\ \A b \in 1..size : buffer[b] = c.text.name
      BY <1>5, <2>2, <2>3 DEF PayloadUnlock, HalfApplied
    <3>2. QED
      BY <3>1, TextInBuffer DEF IsText
  <2>4. QED
    BY <2>1, <2>2, <2>3
<1>6. ASSUME NEW s \in Shells, Retransmission(s) PROVE SettingsApplied'
  <2>1. PICK v \in Intervals : retransmission' = v % 256 /\ typed' = v
    BY <1>6 DEF Retransmission, EightBits
  <2>2. v \in 0..10 => v % 256 = v
    BY IntervalKept
  <2>3. QED
    BY <1>6, <2>1, <2>2 DEF Retransmission
<1>7. CASE BuildPacket
  BY <1>7 DEF BuildPacket
<1>8. QED
  BY <1>1, <1>2, <1>3, <1>4, <1>5, <1>6, <1>7 DEF Next

(* A packet is built from the settings as they are, and outside a command  *)
(* those are the ones asked for.                                           *)
LEMMA PacketStep ==
  ASSUME IndInv, Next
  PROVE  PacketMatchesSetting'
<1>1. CASE UNCHANGED packetVars
  BY <1>1 DEF IndInv, PacketMatchesSetting, PacketFits
<1>2. CASE BuildPacket
  <2>1. PICK c \in Content :
          packet' = [channel |-> Channel(payload_type), data |-> c.data,
                     len |-> NearestPacketLen(c.used)]
    BY <1>2 DEF BuildPacket
  <2>2. /\ c.used \in 0..PayloadMax /\ c.data \in Seq(Bytes)
        /\ Len(c.data) < c.used \/ (c.used = 0 /\ c.data = <<>>)
        /\ payload_type = "custom" => c.data = SubSeq(buffer, 1, size)
        /\ payload_type \in Sensors \cup {"battery"} /\ c.data # <<>> =>
             c.data = Reading(Len(c.data))
        /\ payload_type = "invalid" => c.used = 0
    BY ContentFacts DEF IndInv
  <2>3. /\ NearestPacketLen(c.used) \in {0, 4, 9, PayloadMax}
        /\ c.used <= NearestPacketLen(c.used)
        /\ c.used = 0 => NearestPacketLen(c.used) = 0
    BY <2>2, PacketLengths
  <2>4. PacketFits'
    BY <2>1, <2>2, <2>3 DEF PacketFits, PayloadMax
  <2>5. ASSUME NEW w \in wanted'
        PROVE  /\ w.type = payload_type
               /\ w.type = "custom" => IsText(SubSeq(buffer, 1, size), w.text)
    BY <1>2, <2>5 DEF BuildPacket, IndInv, SettingsApplied
  <2>6. QED
    BY <2>1, <2>2, <2>3, <2>4, <2>5 DEF PacketMatchesSetting
<1>3. QED
  BY <1>1, <1>2 DEF Next, PayloadLock, SetType, CopyByte, SetSize,
                    PayloadUnlock, Retransmission

(* The inductive invariant survives every step.                            *)
LEMMA StepInv == IndInv /\ [Next]_vars => IndInv'
<1>1. ASSUME IndInv, Next PROVE IndInv'
  BY <1>1, TypeStep, CommandStep, HalfStep, SettingsStep, PacketStep
     DEF IndInv
<1>2. ASSUME IndInv, UNCHANGED vars PROVE IndInv'
  BY <1>2 DEF IndInv, TypeOK, OneCommand, CommandHeld, HalfApplied,
              SettingsApplied, PacketMatchesSetting, PacketFits
<1>3. QED
  BY <1>1, <1>2

-----------------------------------------------------------------------------
(* In every reachable state one command at a time writes its settings, and *)
(* what it has written so far is its own.                                  *)
THEOREM Invariance == Spec => []IndInv
<1>1. Init => IndInv
  BY InitInv
<1>2. IndInv /\ [Next]_vars => IndInv'
  BY StepInv
<1>3. QED
  BY <1>1, <1>2, PTL DEF Spec

(* Every variable keeps its type: a text never reaches the last byte of    *)
(* its buffer, and the interval stays in its range.                        *)
THEOREM TypeCorrect == Spec => []TypeOK
<1>1. IndInv => TypeOK
  BY DEF IndInv
<1>2. QED
  BY <1>1, Invariance, PTL

(* However many shells type commands, and in whatever order these meet,    *)
(* the settings between two of them are those of the last one accepted.    *)
THEOREM SettingsCorrect == Spec => []SettingsApplied
<1>1. IndInv => SettingsApplied
  BY DEF IndInv
<1>2. QED
  BY <1>1, Invariance, PTL

(* A packet has a length the SDK knows and room for its data even if it is *)
(* built half way through a command, and outside of one it is what the     *)
(* setting asks for.                                                       *)
THEOREM PacketCorrect == Spec => []PacketMatchesSetting
<1>1. IndInv => PacketMatchesSetting
  BY DEF IndInv
<1>2. QED
  BY <1>1, Invariance, PTL

=============================================================================
