----------------------------- MODULE SatPayload -----------------------------
(***************************************************************************)
(* What a satellite packet is made of: the commands payload and            *)
(* retransmission of app/src/shell.c, the settings they change and the     *)
(* packet sat_transmit builds from them (app/src/sat_board.c).             *)
(*                                                                         *)
(* The shells exclude one another with a mutex, main() does not take it.   *)
(* main() has the highest priority and the shells the lowest, so main() may *)
(* build a packet between any two writes of a command, and no shell runs   *)
(* while it reads the settings.                                            *)
(*                                                                         *)
(* A custom text is a name and a length: its bytes only matter for whose   *)
(* they are. X_Fault beside X is a faulty variant that no behaviour uses.  *)
(***************************************************************************)
EXTENDS Integers, Sequences

CONSTANTS
  Shells,    \* the shell threads
  Names,     \* whose a custom text is
  Lengths,   \* the lengths of custom texts that are typed
  Intervals  \* the retransmission intervals that are typed

ASSUME LengthsAssumption == Lengths \subseteq Nat
ASSUME IntervalsAssumption == Intervals \subseteq Int

PayloadMax == 13   \* HUBBLE_SAT_PAYLOAD_MAX
Free == "free"
Blank == "blank"

ASSUME FreeAssumption == Free \notin Shells

(* enum sat_payload_type; "invalid" is INVALID and SENSOR_CHAN_MAX, which  *)
(* no sensor of the board has.                                             *)
Sensors == {"temperature", "pressure", "humidity"}
PayloadTypes == Sensors \cup {"custom", "battery", "invalid"}
NoText == [name |-> Blank, len |-> 0]

Nothing == [type |-> "invalid", text |-> NoText]

(* What can be typed after "payload".                                      *)
Commands ==
  [type : PayloadTypes \ {"custom"}, text : {NoText}]
    \cup [type : {"custom"}, text : [name : Names, len : Lengths]]

VARIABLES
  mutex,           \* _mutex of shell.c: its owner, or Free
  pc, command, i,  \* where each shell stands, its command, bytes copied
  payload_type,    \* _payload_type
  buffer, size,    \* _custom_payload_buffer, _custom_payload_size
  retransmission,  \* _retransmission_frequency_s
  packet,          \* the last packet built
  accepted,        \* history: the last payload command that was accepted
  spoiled,         \* history: the last command did not do what it said
  typed,           \* history: the last interval accepted, as it was typed
  wanted           \* history: the setting the packet was to follow, if any

shellVars == <<mutex, pc, command, i>>
settings == <<payload_type, buffer, size>>
packetVars == <<packet, wanted>>
vars == <<shellVars, settings, retransmission, packetVars, accepted, spoiled,
          typed>>

Init ==
  /\ mutex = Free
  /\ pc = [s \in Shells |-> "idle"]
  /\ command = [s \in Shells |-> Nothing]
  /\ i = [s \in Shells |-> 0]
  /\ payload_type = "invalid"
  /\ buffer = [b \in 1..PayloadMax |-> Blank] /\ size = 0
  /\ retransmission = 4 /\ typed = 4
  /\ packet = [channel |-> 0, data |-> <<>>, len |-> 0] /\ wanted = {}
  /\ accepted = Nothing /\ spoiled = FALSE

Goto(s, label) == pc' = [pc EXCEPT ![s] = label]

-----------------------------------------------------------------------------
(* The payload command. A text of more than 12 characters is refused and   *)
(* changes nothing.                                                        *)
Fits_OffByOne(c) == c.text.len <= PayloadMax
Fits(c) == c.text.len < PayloadMax

PayloadLock_NoMutex(s) ==
  /\ pc[s] = "idle"
  /\ mutex' = s
  /\ \E c \in Commands : Fits(c) /\ command' = [command EXCEPT ![s] = c]
  /\ Goto(s, "type")
  /\ UNCHANGED <<i, settings, retransmission, packetVars, accepted, spoiled,
                 typed>>

PayloadLock(s) ==
  /\ pc[s] = "idle"
  /\ mutex = Free
  /\ mutex' = s
  /\ \E c \in Commands : Fits(c) /\ command' = [command EXCEPT ![s] = c]
  /\ Goto(s, "type")
  /\ UNCHANGED <<i, settings, retransmission, packetVars, accepted, spoiled,
                 typed>>

(* sat_payload_set: the type, the bytes, and then the length. Without any  *)
(* byte the old text and its length stay. A name that is no sensor's sets  *)
(* the type all the same.                                                  *)
SetType(s) ==
  /\ pc[s] = "type"
  /\ payload_type' = command[s].type
  /\ Goto(s, IF command[s].text.len # 0 THEN "bytes" ELSE "unlock")
  /\ UNCHANGED <<mutex, command, i, buffer, size, retransmission, packetVars,
                 accepted, spoiled, typed>>

CopyByte(s) ==
  /\ pc[s] = "bytes"
  /\ i[s] < command[s].text.len
  /\ i' = [i EXCEPT ![s] = @ + 1]
  /\ buffer' = [buffer EXCEPT ![i[s] + 1] = command[s].text.name]
  /\ UNCHANGED <<mutex, pc, command, payload_type, size, retransmission,
                 packetVars, accepted, spoiled, typed>>

SetSize(s) ==
  /\ pc[s] = "bytes"
  /\ i[s] = command[s].text.len
  /\ size' = command[s].text.len
  /\ i' = [i EXCEPT ![s] = 0]
  /\ Goto(s, "unlock")
  /\ UNCHANGED <<mutex, command, payload_type, buffer, retransmission,
                 packetVars, accepted, spoiled, typed>>

(* The command ends. It did not do what it said if it printed "Invalid     *)
(* payload" and changed the type, or if it was to set an empty text.       *)
Refused(c) == c.type = "invalid"
Empty(c) == c.type = "custom" /\ c.text.len = 0

PayloadUnlock(s) ==
  /\ pc[s] = "unlock"
  /\ mutex' = Free
  /\ accepted' = (IF Refused(command[s]) THEN accepted ELSE command[s])
  /\ spoiled' = (Refused(command[s]) \/ Empty(command[s]))
  /\ command' = [command EXCEPT ![s] = Nothing]
  /\ Goto(s, "idle")
  /\ UNCHANGED <<i, settings, retransmission, packetVars, typed>>

(* The retransmission command: the value is cut to eight bits, and only    *)
(* then compared with its range.                                           *)
EightBits(v) == v % 256

InRange_Signed(v) == v <= 10
InRange(v) == EightBits(v) \in 0..10

Retransmission(s) ==
  /\ pc[s] = "idle"
  /\ mutex = Free
  /\ \E v \in Intervals :
       /\ InRange(v)
       /\ retransmission' = EightBits(v)
       /\ typed' = v
  /\ UNCHANGED <<shellVars, settings, packetVars, accepted, spoiled>>

-----------------------------------------------------------------------------
(* sat_transmit.                                                           *)

(* _channel_to_hubble *)
Channel(type) ==
  CASE type = "temperature" -> 1
    [] type = "pressure"    -> 2
    [] type = "humidity"    -> 3
    [] type = "battery"     -> 4
    [] OTHER                -> 0

(* _nearest_packet_len_get *)
NearestPacketLen_Down(n) ==
  IF n < 4 THEN 0 ELSE IF n < 9 THEN 4 ELSE IF n < 13 THEN 9 ELSE n

NearestPacketLen(n) ==
  IF n = 0 THEN 0
  ELSE IF n < 4 THEN 4
  ELSE IF n < 9 THEN 9
  ELSE IF n < 13 THEN 13
  ELSE n

Reading(n) == [b \in 1..n |-> "reading"]

(* The data of the packet and its length before rounding: the text, or what *)
(* the gauge (one byte) or the sensor (eight) gives, or nothing.           *)
Content ==
  CASE payload_type = "custom" ->
         {[data |-> SubSeq(buffer, 1, size), used |-> PayloadMax]}
    [] payload_type = "battery" ->
         {[data |-> Reading(1), used |-> 2], [data |-> <<>>, used |-> 0]}
    [] payload_type \in Sensors ->
         {[data |-> Reading(8), used |-> 9], [data |-> <<>>, used |-> 0]}
    [] OTHER -> {[data |-> <<>>, used |-> 0]}

BuildPacket ==
  /\ \E c \in Content :
       packet' = [channel |-> Channel(payload_type), data |-> c.data,
                  len |-> NearestPacketLen(c.used)]
  /\ wanted' = (IF mutex = Free /\ ~spoiled THEN {accepted} ELSE {})
  /\ UNCHANGED <<shellVars, settings, retransmission, accepted, spoiled,
                 typed>>

-----------------------------------------------------------------------------
Next ==
  \/ \E s \in Shells :
       \/ PayloadLock(s) \/ SetType(s) \/ CopyByte(s) \/ SetSize(s)
       \/ PayloadUnlock(s) \/ Retransmission(s)
  \/ BuildPacket

Spec == Init /\ [][Next]_vars

-----------------------------------------------------------------------------
Bytes == Names \cup {Blank, "reading"}

TypeOK ==
  /\ mutex \in Shells \cup {Free}
  /\ pc \in [Shells -> {"idle", "type", "bytes", "unlock"}]
  /\ command \in [Shells -> Commands]
  /\ i \in [Shells -> Nat]
  /\ \A s \in Shells : i[s] <= command[s].text.len
  /\ payload_type \in PayloadTypes
  /\ buffer \in [1..PayloadMax -> Bytes] /\ size \in 0..(PayloadMax - 1)
  /\ retransmission \in 0..10
  /\ packet.channel \in 0..4 /\ packet.data \in Seq(Bytes)
  /\ packet.len \in Nat
  /\ accepted \in Commands /\ typed \in Intervals \cup {4}
  /\ spoiled \in BOOLEAN /\ wanted \subseteq Commands

IsText(data, text) ==
  /\ Len(data) = text.len
  /\ \A b \in 1..text.len : data[b] = text.name

(* Between two commands the settings are those of the last command that    *)
(* was accepted, all of its bytes and no other's, in whatever order the    *)
(* shells' commands met (shell.c:44-46, 66-94, sat_board.c:59-83), unless  *)
(* that command did not do what it said; and the interval is the one typed *)
(* if that was one of 0 to 10.                                             *)
SettingsApplied ==
  /\ mutex = Free /\ ~spoiled =>
       /\ payload_type = accepted.type
       /\ accepted.type = "custom" =>
            IsText(SubSeq(buffer, 1, size), accepted.text)
  /\ typed \in 0..10 => retransmission = typed

PacketFits ==
  /\ packet.len \in {0, 4, 9, PayloadMax}
  /\ packet.len > Len(packet.data) \/ (packet.len = 0 /\ packet.data = <<>>)

(* A packet has one of the lengths the SDK knows and room for its channel  *)
(* byte and its data, even if it was built half way through a command. One *)
(* built outside of any command is the one the setting asks for, or empty  *)
(* because the sensor could not be read (sat_board.c:175-241).             *)
PacketMatchesSetting ==
  /\ PacketFits
  /\ \A w \in wanted :
       /\ packet.channel = Channel(w.type)
       /\ w.type = "custom" => IsText(packet.data, w.text)
       /\ w.type \in Sensors \cup {"battery"} /\ packet.data # <<>> =>
            packet.data = Reading(Len(packet.data))
       /\ w.type = "invalid" => packet.len = 0

=============================================================================
