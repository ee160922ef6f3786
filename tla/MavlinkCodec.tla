---------------------------- MODULE MavlinkCodec ----------------------------
(***************************************************************************)
(* The bytes of the link: how a message becomes a frame, and the           *)
(* byte-oriented parser behind Decoder::parse, which one channel keeps     *)
(* across all its datagrams, whoever sent them.                            *)
(*                                                                         *)
(* A datagram normally holds one frame; it may hold part of one or several.*)
(* Bytes are numbers below 256 and the checksum is the one of the wire.    *)
(* Header bytes that nobody reads (compat_flags, compid) are not stored.   *)
(***************************************************************************)
EXTENDS Integers, SequencesExt

CONSTANTS
    Entries,     \* MAVLINK_MESSAGE_CRCS: id, crc_extra and lengths of each message
    Messages,    \* messages that are sent: form, id, sysid and payload
    Flips,       \* changes of a damaged byte
    FirstSeq,    \* current_tx_seq of the sender in the initial states
    Sizes,       \* lengths of the datagrams, up to what there is to send
    MaxFrames,   \* frames put on the wire
    MaxFaults    \* of which so many may be damaged or cut short

Byte == 0 .. 255
MaxMessageId == 16777215   \* three bytes
MessageId == 0 .. MaxMessageId

ASSUME CodecAssumption ==
    /\ Entries \in Seq([msgid : MessageId, crc_extra : Byte,
                        min_len : 0 .. 255, max_len : 1 .. 255])
    /\ Entries # <<>>
    /\ \A i, j \in DOMAIN Entries : i < j => Entries[i].msgid < Entries[j].msgid
    /\ \A i \in DOMAIN Entries : Entries[i].min_len =< Entries[i].max_len
    /\ Messages \subseteq [form : {"v1", "v2", "signed"}, id : MessageId,
                           sysid : Byte, payload : Seq(Byte)]
    /\ \A m \in Messages :
          /\ m.form = "v1" => m.id \in Byte
          /\ \E i \in DOMAIN Entries : /\ Entries[i].msgid = m.id
                                      /\ Entries[i].max_len = Len(m.payload)
    /\ Flips \subseteq 1 .. 255 /\ FirstSeq \subseteq Byte
    /\ Sizes \subseteq Nat \ {0}
    /\ MaxFrames \in Nat /\ MaxFaults \in Nat

VARIABLES
    seq,       \* current_tx_seq
    wire,      \* bytes sent and not yet parsed
    partial,   \* Decoder::partial_
    status,    \* Decoder::status_
    stats,     \* Decoder::stats_
    decoded,   \* what parse returned so far
    \* History:
    sent,      \* messages put on the wire whole and unchanged
    frames,    \* frames put on the wire
    damaged,   \* how many of them had a wrong byte
    doubled,   \* how many of those were signed
    misframed, \* how many were cut short or had an unknown flag
    missing,   \* bytes that the last frame cut short still lacks
    owed       \* messages that must come out whatever went wrong before

decoder == <<partial, status, stats, decoded>>
faults == <<damaged, doubled, misframed>>
vars == <<seq, wire, decoder, sent, frames, faults, missing, owed>>

-----------------------------------------------------------------------------
(***************************************************************************)
(* The checksum.  The exclusive or is tabulated for half a byte.           *)
(***************************************************************************)
halfBytes ==
    [a \in 0 .. 15 |-> [b \in 0 .. 15 |->
        LET bit(w) == IF (a \div w) % 2 = (b \div w) % 2 THEN 0 ELSE w
        IN  bit(1) + bit(2) + bit(4) + bit(8)]]

\* The exclusive or of two bytes.
xor(a, b) ==
    16 * halfBytes[a \div 16][b \div 16] + halfBytes[a % 16][b % 16]

\* (tmp << 8) ^ (tmp << 3) ^ (tmp >> 4)
shifted ==
    [tmp \in 0 .. 255 |-> 256 * xor(tmp, tmp \div 32)
                          + xor((tmp * 8) % 256, tmp \div 16)]

\* Mutant: only the last two bytes matter.
crc_accumulate_Weak(crc, c) == crc \div 256 + c * 256

crc_accumulate(crc, c) ==
    LET low == xor(c, crc % 256)
        new == shifted[xor(low, (low * 16) % 256)]
    IN  256 * (new \div 256) + xor(new % 256, crc \div 256)

crc_calculate(bytes) ==
    LET crc[k \in 0 .. Len(bytes)] ==
            IF k = 0 THEN 65535 ELSE crc_accumulate(crc[k - 1], bytes[k])
    IN  crc[Len(bytes)]

-----------------------------------------------------------------------------
(***************************************************************************)
(* The sender.                                                             *)
(***************************************************************************)
\* What the generated code of a message has of it.
entry(id) == Entries[CHOOSE i \in DOMAIN Entries : Entries[i].msgid = id]

MAVLINK_STX == 253
MAVLINK_STX_MAVLINK1 == 254
IFLAG_SIGNED == 1
SIGNATURE_BLOCK_LEN == 13

\* Trailing zeros are not sent, but for the first byte.
trimmed(payload) ==
    SubSeq(payload, 1, CHOOSE n \in 1 .. Len(payload) :
                          /\ n > 1 => payload[n] # 0
                          /\ \A i \in n + 1 .. Len(payload) : payload[i] = 0)

\* A message of MAVLink 1 has no extension fields, and an id of one byte.
body(m) == IF m.form = "v1" THEN SubSeq(m.payload, 1, entry(m.id).min_len)
                            ELSE trimmed(m.payload)

\* The header without its start byte.
header(m, n) ==
    IF m.form = "v1"
    THEN <<Len(body(m)), n, m.sysid, 1, m.id>>
    ELSE <<Len(body(m)), IF m.form = "signed" THEN IFLAG_SIGNED ELSE 0, 0,
           n, m.sysid, 1, m.id % 256, (m.id \div 256) % 256, m.id \div 65536>>

\* The bytes of a packed message.
serialize(m, n) ==
    LET checksum == crc_accumulate(crc_calculate(header(m, n) \o body(m)),
                                   entry(m.id).crc_extra)
    IN  <<IF m.form = "v1" THEN MAVLINK_STX_MAVLINK1 ELSE MAVLINK_STX>>
        \o header(m, n) \o body(m)
        \o <<checksum % 256, checksum \div 256>>
        \o (IF m.form = "signed" THEN [i \in 1 .. SIGNATURE_BLOCK_LEN |-> i]
                                 ELSE <<>>)

-----------------------------------------------------------------------------
(***************************************************************************)
(* The parser.  Each operator takes the buffer rx and the status st, as    *)
(* the fields of one record, and the byte c.                               *)
(***************************************************************************)
EmptyBuffer == [len |-> 0, incompat_flags |-> 0, sysid |-> 0, msgid |-> 0,
                payload |-> <<>>, checksum |-> 0]

InitialStatus == [parse_state |-> "IDLE", packet_idx |-> 0, mavlink1 |-> FALSE,
                  signature_wait |-> 0, parse_error |-> 0]

goto(r, state) == [r EXCEPT !.st.parse_state = state]

checksummed(r, c) == [r EXCEPT !.rx.checksum = crc_accumulate(@, c)]

idle(r, c) ==
    IF c \in {MAVLINK_STX, MAVLINK_STX_MAVLINK1}
    THEN [goto(r, "GOT_STX") EXCEPT !.rx.len = 0, !.rx.checksum = 65535,
                 !.st.mavlink1 = (c = MAVLINK_STX_MAVLINK1)]
    ELSE r

\* Mutant: the flags of the frame before are kept.
got_stx_KeepsFlags(r, c) ==
    checksummed([goto(r, IF r.st.mavlink1 THEN "GOT_COMPAT_FLAGS"
                                          ELSE "GOT_LENGTH")
                 EXCEPT !.rx.len = c, !.st.packet_idx = 0], c)

got_stx(r, c) ==
    checksummed([goto(r, IF r.st.mavlink1 THEN "GOT_COMPAT_FLAGS"
                                          ELSE "GOT_LENGTH")
                 EXCEPT !.rx.len = c, !.st.packet_idx = 0,
                        !.rx.incompat_flags = IF r.st.mavlink1 THEN 0 ELSE @],
                c)

\* A frame with an unknown incompatible flag is given up.
got_length(r, c) ==
    IF c > IFLAG_SIGNED
    THEN [goto(r, "IDLE") EXCEPT !.rx.incompat_flags = c, !.st.parse_error = @ + 1]
    ELSE checksummed([goto(r, "GOT_INCOMPAT_FLAGS")
                      EXCEPT !.rx.incompat_flags = c], c)

payloadState(r) == IF r.rx.len > 0 THEN "GOT_MSGID3" ELSE "GOT_PAYLOAD"

\* The bytes from compat_flags to the last one of the message id.
got_header(r, c) ==
    LET stored ==
            CASE r.st.parse_state = "GOT_INCOMPAT_FLAGS" ->
                    goto(r, "GOT_COMPAT_FLAGS")
              [] r.st.parse_state = "GOT_COMPAT_FLAGS" ->
                    goto(r, "GOT_SEQ")
              [] r.st.parse_state = "GOT_SEQ" ->
                    [goto(r, "GOT_SYSID") EXCEPT !.rx.sysid = c]
              [] r.st.parse_state = "GOT_SYSID" -> goto(r, "GOT_COMPID")
              [] r.st.parse_state = "GOT_COMPID" ->
                    [goto(r, IF r.st.mavlink1 THEN payloadState(r)
                                              ELSE "GOT_MSGID1")
                     EXCEPT !.rx.msgid = c]
              [] r.st.parse_state = "GOT_MSGID1" ->
                    [goto(r, "GOT_MSGID2") EXCEPT !.rx.msgid = @ + 256 * c]
              [] r.st.parse_state = "GOT_MSGID2" ->
                    [goto(r, payloadState(r))
                     EXCEPT !.rx.msgid = @ + 65536 * c]
    IN  checksummed(stored, c)

\* buffer[i] = c, counting from zero, on a buffer of which only the part that
\* was written is kept.
written(buffer, i, c) ==
    IF i < Len(buffer) THEN [buffer EXCEPT ![i + 1] = c] ELSE Append(buffer, c)

got_payload_byte(r, c) ==
    checksummed([goto(r, IF r.st.packet_idx + 1 = r.rx.len THEN "GOT_PAYLOAD"
                                                           ELSE "GOT_MSGID3")
                 EXCEPT !.rx.payload = written(@, r.st.packet_idx, c),
                        !.st.packet_idx = @ + 1], c)

zeroFilled(buffer, from, length) ==
    [i \in 1 .. IF Len(buffer) > length THEN Len(buffer) ELSE length |->
        IF i > from /\ i =< length THEN 0 ELSE buffer[i]]

\* The bisection of the sorted table, whose bounds count from zero.
bisected(msgid) ==
    LET Bounds == [low : 0 .. Len(Entries) - 1, high : 0 .. Len(Entries) - 1]
        at[b \in Bounds] ==
            LET mid == (b.low + 1 + b.high) \div 2
                found == Entries[mid + 1].msgid
            IN  IF b.low >= b.high THEN b.low
                ELSE IF msgid = found THEN mid
                ELSE at[IF msgid < found THEN [low |-> b.low, high |-> mid - 1]
                                         ELSE [low |-> mid, high |-> b.high]]
    IN  at[[low |-> 0, high |-> Len(Entries) - 1]]

\* The entry of a message, if it has one.
mavlink_get_msg_entry(msgid) ==
    {e \in {Entries[bisected(msgid) + 1]} : e.msgid = msgid}

\* The first check byte.  The rest of a payload whose zeros were trimmed is
\* filled up.
got_payload(r, c) ==
    IF mavlink_get_msg_entry(r.rx.msgid) = {}
    THEN goto(r, "GOT_BAD_CRC1")
    ELSE LET e == CHOOSE e \in mavlink_get_msg_entry(r.rx.msgid) : TRUE
             summed == checksummed(r, e.crc_extra)
         IN  [goto(summed, IF c = summed.rx.checksum % 256 THEN "GOT_CRC1"
                                                           ELSE "GOT_BAD_CRC1")
              EXCEPT !.rx.payload = zeroFilled(@, r.st.packet_idx,
                                               e.max_len)]

\* The second check byte; a signature may follow.  A wrong checksum is reported
\* before the signature too.
got_crc1(r, c) ==
    LET good == /\ r.st.parse_state = "GOT_CRC1"
                /\ c = r.rx.checksum \div 256
    IN  IF r.rx.incompat_flags = IFLAG_SIGNED
        THEN [goto(r, IF good THEN "SIGNATURE_WAIT"
                              ELSE "SIGNATURE_WAIT_BAD_CRC")
              EXCEPT !.st.signature_wait = SIGNATURE_BLOCK_LEN,
                     !.received = IF good THEN @ ELSE "BAD_CRC"]
        ELSE [goto(r, "IDLE") EXCEPT !.received = IF good THEN "OK"
                                                          ELSE "BAD_CRC"]

\* Mutant: a signature that passes hides the wrong checksum.
signature_wait_Overwrites(r, c) ==
    LET left == r.st.signature_wait - 1
    IN  IF left > 0 THEN [r EXCEPT !.st.signature_wait = left]
        ELSE [goto(r, "IDLE") EXCEPT !.st.signature_wait = 0, !.received = "OK"]

\* No key is configured, so that every signature passes.
signature_wait(r, c) ==
    LET left == r.st.signature_wait - 1
        good == r.st.parse_state = "SIGNATURE_WAIT"
    IN  IF left > 0 THEN [r EXCEPT !.st.signature_wait = left]
        ELSE [goto(r, "IDLE") EXCEPT !.st.signature_wait = 0,
                     !.received = IF good THEN "OK" ELSE "BAD_CRC"]

frame_char(r, c) ==
    CASE r.st.parse_state = "IDLE" -> idle(r, c)
      [] r.st.parse_state = "GOT_STX" -> got_stx(r, c)
      [] r.st.parse_state = "GOT_LENGTH" -> got_length(r, c)
      [] r.st.parse_state = "GOT_MSGID3" -> got_payload_byte(r, c)
      [] r.st.parse_state = "GOT_PAYLOAD" -> got_payload(r, c)
      [] r.st.parse_state \in {"GOT_CRC1", "GOT_BAD_CRC1"} -> got_crc1(r, c)
      [] r.st.parse_state \in {"SIGNATURE_WAIT", "SIGNATURE_WAIT_BAD_CRC"} ->
            signature_wait(r, c)
      [] OTHER -> got_header(r, c)

\* mavlink_msg_..._decode: as many bytes as the message has on this side.
decode(rx) ==
    [id |-> rx.msgid, sysid |-> rx.sysid,
     payload |-> [i \in 1 .. entry(rx.msgid).max_len |->
                    IF i =< rx.len THEN rx.payload[i] ELSE 0]]

\* What one byte changes in the decoder.
fed(d, c) ==
    LET r == frame_char([rx |-> d.rx, st |-> d.st, received |-> "INCOMPLETE"], c)
    IN  [rx |-> r.rx,
         st |-> [r.st EXCEPT !.parse_error = 0],
         out |-> IF r.received = "OK" THEN Append(d.out, decode(r.rx)) ELSE d.out,
         crc_errors |-> IF r.received = "BAD_CRC" THEN d.crc_errors + 1
                                                  ELSE d.crc_errors]

fedAll(d, bytes) ==
    LET after[k \in 0 .. Len(bytes)] ==
            IF k = 0 THEN d ELSE fed(after[k - 1], bytes[k])
    IN  after[Len(bytes)]

\* Decoder::parse is called with the next datagram.
Parse(size) ==
    /\ wire # <<>>
    /\ \E n \in {IF size < Len(wire) THEN size ELSE Len(wire)} :
       \E d \in {fedAll([rx |-> partial, st |-> status, out |-> <<>>,
                        crc_errors |-> 0], SubSeq(wire, 1, n))} :
          /\ wire' = SubSeq(wire, n + 1, Len(wire))
          /\ partial' = d.rx
          /\ status' = d.st
          /\ decoded' = decoded \o d.out
          /\ stats' = [messages |-> stats.messages + Len(d.out),
                       crc_errors |-> stats.crc_errors + d.crc_errors,
                       parse_errors |-> stats.parse_errors + d.st.parse_error]
    /\ UNCHANGED <<seq, sent, frames, faults, missing, owed>>

-----------------------------------------------------------------------------
(***************************************************************************)
(* What arrives.                                                           *)
(***************************************************************************)
\* A decoder that lost its place does so for as long as start bytes occur inside
\* of frames: then nothing is owed any more.
Lost == -1

quiet(bytes) ==
    \A i \in DOMAIN bytes : bytes[i] \notin {MAVLINK_STX, MAVLINK_STX_MAVLINK1}

\* How many bytes are missing once these are swallowed or skipped.
remaining(bytes) ==
    IF missing = Lost THEN Lost
    ELSE IF Len(bytes) =< missing THEN missing - Len(bytes)
    ELSE IF quiet(SubSeq(bytes, missing + 1, Len(bytes))) THEN 0 ELSE Lost

\* One more frame, which leaves the decoder that many bytes to swallow.
put(bytes, swallowed) ==
    /\ frames' = frames + 1
    /\ seq' = (seq + 1) % 256
    /\ wire' = wire \o bytes
    /\ missing' = IF missing # 0 THEN remaining(bytes) ELSE swallowed
    /\ UNCHANGED decoder

\* The message as its receiver reads it.
received(m) ==
    [id |-> m.id, sysid |-> m.sysid,
     payload |-> [i \in DOMAIN m.payload |->
                    IF m.form = "v1" /\ i > entry(m.id).min_len THEN 0
                    ELSE m.payload[i]]]

Transmit(m) ==
    /\ frames < MaxFrames
    /\ \E bytes \in {serialize(m, seq)} : put(bytes, 0)
    /\ sent' = Append(sent, received(m))
    /\ owed' = IF missing = 0 THEN Append(owed, received(m)) ELSE owed
    /\ UNCHANGED faults

\* How many bytes of a frame of this form decide where it ends, and how many the
\* parser skips at its end.
framing(m) == IF m.form = "v1" THEN 2 ELSE 3
unread(m) == IF m.form = "signed" THEN SIGNATURE_BLOCK_LEN ELSE 0

\* A byte is wrong, of those that only the checksum protects.
Damage(m, bytes) ==
    /\ \E i \in framing(m) + 1 .. Len(bytes) - unread(m), flip \in Flips :
          put([bytes EXCEPT ![i] = xor(@, flip)], 0)
    /\ damaged' = damaged + 1
    /\ doubled' = IF m.form = "signed" THEN doubled + 1 ELSE doubled
    /\ UNCHANGED <<sent, misframed>>

\* The frame has an incompatible flag that this dialect does not know.
Unknown(m, bytes) ==
    /\ m.form # "v1"
    /\ put([bytes EXCEPT ![3] = @ + 2], IF quiet(Tail(bytes)) THEN 0 ELSE Lost)
    /\ misframed' = misframed + 1
    /\ UNCHANGED <<sent, damaged, doubled>>

\* The datagram ends in the middle of the frame, perhaps of its signature only.
Cut(m, bytes) ==
    /\ \E n \in 1 .. Len(bytes) - 1 :
          /\ put(SubSeq(bytes, 1, n), IF n < 3 THEN Lost ELSE Len(bytes) - n)
          /\ sent' = IF m.form = "signed" /\ n >= Len(bytes) - SIGNATURE_BLOCK_LEN
                     THEN Append(sent, received(m))
                     ELSE sent
    /\ misframed' = misframed + 1
    /\ UNCHANGED <<damaged, doubled>>

Fault(m) ==
    /\ frames < MaxFrames /\ damaged + misframed < MaxFaults
    /\ \E bytes \in {serialize(m, seq)} :
          Damage(m, bytes) \/ Unknown(m, bytes) \/ Cut(m, bytes)
    /\ UNCHANGED owed

Init ==
    /\ seq \in FirstSeq
    /\ wire = <<>> /\ partial = EmptyBuffer /\ status = InitialStatus
    /\ stats = [messages |-> 0, crc_errors |-> 0, parse_errors |-> 0]
    /\ decoded = <<>>
    /\ sent = <<>> /\ frames = 0 /\ damaged = 0 /\ doubled = 0 /\ misframed = 0
    /\ missing = 0 /\ owed = <<>>

Next ==
    \/ \E m \in Messages : Transmit(m) \/ Fault(m)
    \/ \E size \in Sizes : Parse(size)

Spec == Init /\ [][Next]_vars

-----------------------------------------------------------------------------
\* No message that the receiver knows by the id in these bytes of a frame of m
\* has a crc_extra with which their checksum ends in their check bytes.
failsEveryEntry(m, bytes) ==
    LET end == Len(bytes) - unread(m)
        sum == crc_calculate(SubSeq(bytes, 2, end - 2))
        id == IF m.form = "v1" THEN bytes[6]
              ELSE bytes[8] + 256 * bytes[9] + 65536 * bytes[10]
    IN  \A k \in DOMAIN Entries :
            Entries[k].msgid = id
            => crc_accumulate(sum, Entries[k].crc_extra)
               # bytes[end - 1] + 256 * bytes[end]

\* A wrong byte in the message id is seen.  Sixteen bits cannot show this for
\* every table: whether they do is a question about this one.
DamagedIdsShow ==
    \A m \in Messages, n \in Byte, flip \in Flips :
    \A i \in IF m.form = "v1" THEN {6} ELSE 8 .. 10 :
        failsEveryEntry(m, [serialize(m, n) EXCEPT ![i] = xor(@, flip)])

\* The messages of s occur in t, in the same order.
isSubsequence(s, t) ==
    \E at \in [DOMAIN s -> DOMAIN t] :
        /\ \A i \in DOMAIN s : t[at[i]] = s[i]
        /\ \A i, j \in DOMAIN s : i < j => at[i] < at[j]

\* Whatever was damaged, cut short or swallowed, every message that comes out
\* was sent, and they come out in order: no frame is put together from two.
OnlyWhatWasSentComesOut == isSubsequence(decoded, sent)

\* As long as the frames have their length, each is a message or an error in the
\* statistics: the damaged ones errors, and the signed among them two, one at the
\* check bytes and one behind the signature.
EveryFrameIsCounted ==
    misframed = 0 /\ wire = <<>> =>
        /\ stats.messages = Len(sent)
        /\ stats.crc_errors = damaged + doubled

\* What a frame that was cut short swallows is no more than it lacked, and a
\* frame that is given up costs no other: the messages behind come out, unless
\* a byte inside a frame looks like the start of another one.  Without a fault
\* every message comes out unchanged and with its last byte, wherever datagrams
\* are cut or joined, and whatever start bytes and trailing zeros it contains.
DamageIsContained == wire = <<>> => isSubsequence(owed, decoded)
=============================================================================
