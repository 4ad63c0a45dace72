------------------------------ MODULE MqttFraming ------------------------------
(***************************************************************************)
(* Where a packet starts and ends: MQTT/MQTTPacket.c over recv.            *)
(*                                                                         *)
(* The broker's packets reach the client as a stream of bytes that arrives *)
(* in pieces of any size.  MQTTPacket_read takes a header byte, up to four *)
(* digits of the remaining length and the body out of it, each with a recv *)
(* of its own that returns what is there; the packet is then taken apart   *)
(* from the buffer, its length first, through a pointer that all tasks     *)
(* share.  Both mqtt_thread and mqtt_send do this, on one socket.          *)
(***************************************************************************)
EXTENDS Integers, Sequences

CONSTANTS
  Reader,      \* the tasks that read packets
  Base,        \* of the digits of a remaining length: 128
  MaxDigits,   \* MAX_NO_OF_REMAINING_LENGTH_BYTES
  BufLen,      \* of each task: the sizes of the buffers it reads packets into
  Type,        \* header bytes of packets
  Length,      \* remaining lengths the broker uses
  Payload,     \* bytes it sends
  MaxUnread,   \* bound: packets on their way
  MaxAfter     \* bound: the same once framing is lost

\* A byte, which as a digit says whether another follows.
Byte == 0..2 * Base - 1

\* multiplier: what a digit counts that k others have preceded.
Multiplier[k \in Nat] == IF k = 0 THEN 1 ELSE Base * Multiplier[k - 1]
MaxRemLen == Multiplier[MaxDigits] - 1

ASSUME FramingAssumption ==
  /\ Base \in Nat \ {0, 1} /\ MaxDigits \in Nat \ {0} /\ MaxUnread \in Nat /\ MaxAfter \in Nat
  /\ BufLen \in [Reader -> SUBSET {n \in Nat : n > MaxDigits}]
  /\ Type \subseteq Byte /\ Payload \subseteq Byte
  /\ Length \subseteq 0..MaxRemLen

VARIABLES
  stream,      \* bytes sent and not read, the first of a packet with what it starts
  closed,      \* the connection is lost: no more will arrive
  cut,         \* tasks whose socket was closed in the middle of a read
  pc, buflen,  \* of each task: where it is, and the buffer it reads into
  len, rem_len,
  bufptr,      \* the task into whose buffer it points, and the byte of the length,
               \* <<>> while it is not in use
  value,       \* what MQTTPacket_decodeBuf has made of it
  current,     \* history: the packet whose first byte was read last
  out,         \* history: the last packet read
  excused,     \* history: framing was lost on this connection
  crossed      \* history: tasks during whose decodeBuf another one ran

connVars == <<stream, closed>>
readVars == <<buflen, len, rem_len, value>>
parseVars == <<bufptr, crossed>>
histVars == <<current, out, excused>>
vars == <<connVars, cut, pc, readVars, parseVars, histVars>>

NoPacket == << >>
Inside == <<0>>       \* what a byte after the first starts
Packet == Type \X Length
StreamByte == [byte : Byte, packet : Packet \cup {Inside}]
Reading == {"header", "length", "body"}

TypeOK ==
  /\ stream \in Seq(StreamByte)
  /\ closed \in BOOLEAN /\ excused \in BOOLEAN
  /\ cut \subseteq Reader /\ crossed \subseteq Reader
  /\ pc \in [Reader -> Reading \cup {"idle", "parse", "digit", "handle"}]
  /\ buflen \in [Reader -> {0} \cup UNION {BufLen[t] : t \in Reader}]
  /\ len \in [Reader -> 0..MaxDigits]
  /\ rem_len \in [Reader -> 0..MaxRemLen]
  /\ value \in [Reader -> Nat]
  /\ bufptr \in (Reader \X Nat) \cup {<< >>}
  /\ current \in Packet \cup {NoPacket}
  /\ out \in (Type \X (0..MaxRemLen)) \cup {NoPacket}

Init ==
  /\ stream = << >> /\ closed = FALSE /\ cut = {}
  /\ pc = [t \in Reader |-> "idle"]
  /\ buflen = [t \in Reader |-> 0]
  /\ len = [t \in Reader |-> 0] /\ rem_len = [t \in Reader |-> 0]
  /\ value = [t \in Reader |-> 0]
  /\ bufptr = << >>
  /\ current = NoPacket /\ out = NoPacket /\ excused = FALSE /\ crossed = {}

-----------------------------------------------------------------------------
(* Remaining lengths *)

\* MQTTPacket_encode: the digits, least significant first, all but the last marked.
Encode[length \in Nat] ==
  IF length >= Base THEN <<Base + (length % Base)>> \o Encode[length \div Base]
                    ELSE <<length>>

\* A packet as it is sent.
Bytes(p, body) ==
  <<[byte |-> p[1], packet |-> p]>>
    \o [i \in 1..Len(Encode[p[2]]) |-> [byte |-> Encode[p[2]][i], packet |-> Inside]]
    \o [i \in 1..p[2] |-> [byte |-> body[i], packet |-> Inside]]

\* The packets whose first byte is in s.
PacketsIn[s \in Seq(StreamByte)] ==
  IF s = << >> THEN << >>
  ELSE (IF Head(s).packet = Inside THEN << >> ELSE <<Head(s).packet>>) \o PacketsIn[Tail(s)]

-----------------------------------------------------------------------------
(* Broker and network *)

BrokerSends ==
  /\ ~closed
  /\ Len(PacketsIn[stream]) < IF excused THEN MaxAfter ELSE MaxUnread
  /\ \E p \in Packet : \E body \in [1..p[2] -> Payload] : stream' = stream \o Bytes(p, body)
  /\ UNCHANGED <<closed, cut, pc, readVars, parseVars, histVars>>

\* What has not been read by then may be lost.
ConnectionLost ==
  /\ ~closed
  /\ closed' = TRUE
  /\ \E n \in 0..Len(stream) : stream' = SubSeq(stream, 1, n)
  /\ UNCHANGED <<cut, pc, readVars, parseVars, histVars>>

-----------------------------------------------------------------------------
(* transport_getdata *)

\* What recv can return: all that has arrived, which is one byte at least, up to
\* what was asked for.
Recv(t, count) ==
  (IF stream # << >> THEN {n \in 1..count : n <= Len(stream)}
   ELSE IF closed THEN {0} ELSE {})
  \cup (IF t \in cut THEN {0} ELSE {})

Takes(t, n) ==
  /\ stream' = SubSeq(stream, n + 1, Len(stream))
  /\ cut' = cut \ {t}
  /\ UNCHANGED closed

History(p, o, lost) ==
  /\ excused' = lost
  /\ current' = IF lost THEN NoPacket ELSE p
  /\ out' = IF lost THEN NoPacket ELSE o

GoTo(t, l) == pc' = [pc EXCEPT ![t] = l]

\* The locals mean nothing outside a call.
Return(t) ==
  /\ GoTo(t, "idle")
  /\ buflen' = [buflen EXCEPT ![t] = 0]
  /\ len' = [len EXCEPT ![t] = 0] /\ rem_len' = [rem_len EXCEPT ![t] = 0]
  /\ value' = [value EXCEPT ![t] = 0]

\* Other tasks between the first and the last byte of a packet.
Midway(t) == {u \in Reader \ {t} : pc[u] \in Reading}

-----------------------------------------------------------------------------
(* MQTTPacket_read *)

\* MQTT_Connect does not wait for select, the others do.
Begin(t) ==
  /\ pc[t] = "idle"
  /\ \E n \in BufLen[t] : buflen' = [buflen EXCEPT ![t] = n]
  /\ GoTo(t, "header")
  /\ History(current, out, excused \/ Midway(t) # {})
  /\ UNCHANGED <<connVars, cut, len, rem_len, value, parseVars>>

ReadHeader(t) ==
  /\ pc[t] = "header"
  /\ \E n \in Recv(t, 1) :
       /\ Takes(t, n)
       /\ IF n = 1
            THEN /\ History(stream[1].packet, out, excused)
                 /\ GoTo(t, "length")
                 /\ UNCHANGED <<buflen, len, rem_len, value>>
            ELSE Return(t) /\ UNCHANGED histVars
  /\ UNCHANGED parseVars

\* Seeded bug: every digit counts the same.
DecodeDigitFlat(t) ==
  /\ pc[t] = "length" /\ len[t] < MaxDigits
  /\ \E n \in Recv(t, 1) :
       /\ Takes(t, n)
       /\ IF n = 1
            THEN /\ rem_len' = [rem_len EXCEPT ![t] = @ + (stream[1].byte % Base)]
                 /\ len' = [len EXCEPT ![t] = IF stream[1].byte >= Base THEN @ + 1 ELSE 0]
                 /\ GoTo(t, IF stream[1].byte >= Base THEN "length" ELSE "body")
                 /\ UNCHANGED histVars
            ELSE /\ len' = [len EXCEPT ![t] = 0]
                 /\ GoTo(t, "body")
                 /\ History(current, out, TRUE)
                 /\ UNCHANGED rem_len
  /\ UNCHANGED <<buflen, value, parseVars>>

\* MQTTPacket_decode on the connection.  MQTTPacket_read does not look at what it
\* returns: where recv fails it goes on with the digits there are.
DecodeDigit(t) ==
  /\ pc[t] = "length" /\ len[t] < MaxDigits
  /\ \E n \in Recv(t, 1) :
       /\ Takes(t, n)
       /\ IF n = 1
            THEN /\ rem_len' = [rem_len EXCEPT ![t] = @ + (stream[1].byte % Base) * Multiplier[len[t]]]
                 /\ len' = [len EXCEPT ![t] = IF stream[1].byte >= Base THEN @ + 1 ELSE 0]
                 /\ GoTo(t, IF stream[1].byte >= Base THEN "length" ELSE "body")
                 /\ UNCHANGED histVars
            ELSE /\ len' = [len EXCEPT ![t] = 0]
                 /\ GoTo(t, "body")
                 /\ History(current, out, TRUE)
                 /\ UNCHANGED rem_len
  /\ UNCHANGED <<buflen, value, parseVars>>

\* Seeded bug: the limit is tested after the digit is taken.
TooManyDigitsLate(t) ==
  /\ pc[t] = "length" /\ len[t] = MaxDigits
  /\ rem_len' = [rem_len EXCEPT ![t] = @ + Multiplier[len[t]]]
  /\ len' = [len EXCEPT ![t] = 0]
  /\ GoTo(t, "body")
  /\ History(current, out, TRUE)
  /\ UNCHANGED <<connVars, cut, buflen, value, parseVars>>

TooManyDigits(t) ==
  /\ pc[t] = "length" /\ len[t] = MaxDigits
  /\ len' = [len EXCEPT ![t] = 0]
  /\ GoTo(t, "body")
  /\ History(current, out, TRUE)
  /\ UNCHANGED <<connVars, cut, buflen, rem_len, value, parseVars>>

\* Seeded bug: the bytes in front of the body are forgotten.
FitsBody(t) == rem_len[t] <= buflen[t]

Fits(t) == 1 + Len(Encode[rem_len[t]]) + rem_len[t] <= buflen[t]

TooLong(t) ==
  /\ pc[t] = "body" /\ ~Fits(t)
  /\ Return(t)
  /\ History(current, out, TRUE)
  /\ UNCHANGED <<connVars, cut, parseVars>>

\* Seeded bug: an empty body is waited for as well.
ReadBodyAlways(t) ==
  /\ pc[t] = "body" /\ Fits(t)
  /\ \E n \in Recv(t, rem_len[t]) :
       /\ Takes(t, n)
       /\ IF n = rem_len[t]
            THEN /\ GoTo(t, "parse")
                 /\ History(NoPacket, <<current[1], rem_len[t]>>, excused)
                 /\ UNCHANGED readVars
            ELSE Return(t) /\ History(current, out, TRUE)
  /\ UNCHANGED parseVars

ReadBody(t) ==
  /\ pc[t] = "body" /\ Fits(t)
  /\ \E n \in IF rem_len[t] = 0 THEN {0} ELSE Recv(t, rem_len[t]) :
       /\ Takes(t, n)
       /\ IF n = rem_len[t]
            THEN /\ GoTo(t, "parse")
                 /\ History(NoPacket, <<current[1], rem_len[t]>>, excused)
                 /\ UNCHANGED readVars
            ELSE Return(t) /\ History(current, out, TRUE)
  /\ UNCHANGED parseVars

-----------------------------------------------------------------------------
(* MQTTPacket_decodeBuf, which every MQTTDeserialize_ function calls first *)

Parsing == {u \in Reader : pc[u] = "digit"}

\* Seeded bug: the first digit is taken for the header byte and skipped.
StartDecodeBufLate(t) ==
  /\ pc[t] = "parse"
  /\ bufptr' = <<t, 2>>
  /\ crossed' = IF Parsing = {} THEN crossed \ {t} ELSE crossed \cup Parsing \cup {t}
  /\ GoTo(t, "digit")
  /\ UNCHANGED <<connVars, cut, readVars, histVars>>

StartDecodeBuf(t) ==
  /\ pc[t] = "parse"
  /\ bufptr' = <<t, 1>>
  /\ crossed' = IF Parsing = {} THEN crossed \ {t} ELSE crossed \cup Parsing \cup {t}
  /\ GoTo(t, "digit")
  /\ UNCHANGED <<connVars, cut, readVars, histVars>>

\* bufchar: the byte after the length may be anything.
BufChar ==
  LET digits == Encode[rem_len[bufptr[1]]]
  IN  IF bufptr[2] \in DOMAIN digits THEN {digits[bufptr[2]]} ELSE Byte

DecodeBufDigit(t) ==
  /\ pc[t] = "digit"
  /\ IF len[t] = MaxDigits
       THEN /\ len' = [len EXCEPT ![t] = 0]
            /\ GoTo(t, "handle")
            /\ UNCHANGED <<bufptr, value>>
       ELSE \E c \in BufChar :
              /\ bufptr' = IF c < Base /\ Parsing = {t} THEN << >> ELSE <<bufptr[1], bufptr[2] + 1>>
              /\ value' = [value EXCEPT ![t] = @ + (c % Base) * Multiplier[len[t]]]
              /\ len' = [len EXCEPT ![t] = IF c >= Base THEN @ + 1 ELSE 0]
              /\ GoTo(t, IF c >= Base THEN "digit" ELSE "handle")
  /\ UNCHANGED <<connVars, cut, buflen, rem_len, crossed, histVars>>

\* What the packet says is left to MqttInbound and MqttSession.
Handle(t) ==
  /\ pc[t] = "handle"
  /\ Return(t)
  /\ crossed' = crossed \ {t}
  /\ UNCHANGED <<connVars, cut, bufptr, histVars>>

-----------------------------------------------------------------------------
\* transport_close and transport_open: a read of the other task goes on with the
\* new socket unless it was inside recv.
Reopen(t) ==
  /\ pc[t] = "idle"
  /\ stream' = << >> /\ closed' = FALSE
  /\ cut' = Midway(t)
  /\ History(NoPacket, NoPacket, Midway(t) # {})
  /\ UNCHANGED <<pc, readVars, parseVars>>

Read(t) ==
  \/ ReadHeader(t) \/ DecodeDigit(t) \/ TooManyDigits(t) \/ TooLong(t) \/ ReadBody(t)
  \/ StartDecodeBuf(t) \/ DecodeBufDigit(t) \/ Handle(t)

Next ==
  \/ BrokerSends \/ ConnectionLost
  \/ \E t \in Reader : Begin(t) \/ Read(t) \/ Reopen(t)

Spec == Init /\ [][Next]_vars

\* What was sent arrives unless the connection is lost; a task that can go on does.
FairSpec == Spec /\ \A t \in Reader : WF_vars(Read(t))

-----------------------------------------------------------------------------
(* Properties *)

Whole == INSTANCE PacketStream WITH
  Packet <- Packet,
  queue <- IF excused THEN << >>
           ELSE (IF current = NoPacket THEN << >> ELSE <<current>>) \o PacketsIn[stream],
  out <- out,
  lost <- excused

\* Packets of any length come out of the stream whole and in order, however TCP
\* cuts it up, until a body arrives in pieces, a packet is too long for the buffer
\* or its length is cut off, or two tasks read at once.
PacketsComeWhole == Whole!Spec

\* MQTTPacket_read never writes past the buffer, not even with a length that was
\* made up from the middle of a packet.
BufferHolds ==
  \A t \in Reader :
    /\ pc[t] = "body" => 1 + Len(Encode[rem_len[t]]) <= buflen[t]
    /\ pc[t] \in {"parse", "digit", "handle"} =>
         1 + Len(Encode[rem_len[t]]) + rem_len[t] <= buflen[t]

\* The length taken from the buffer is the one read from the connection, also where
\* the two encodings differ, unless another task used bufptr in between.
LengthSurvives ==
  \A t \in Reader : pc[t] = "handle" /\ t \notin crossed => value[t] = rem_len[t]

\* A task that has begun a packet does not stay inside recv: it is only there for
\* bytes that are under way.
ReadsEnd ==
  \A t \in Reader :
    (pc[t] \in {"length", "body"} /\ ~excused) ~> (pc[t] \notin {"length", "body"} \/ excused)
=============================================================================
