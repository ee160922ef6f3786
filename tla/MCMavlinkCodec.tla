--------------------------- MODULE MCMavlinkCodec ---------------------------
(***************************************************************************)
(* SET_MODE and MANUAL_CONTROL as the two programs exchange them.          *)
(***************************************************************************)
EXTENDS MavlinkCodec

Entry(msgid, crc_extra, min_len, max_len) ==
    [msgid |-> msgid, crc_extra |-> crc_extra, min_len |-> min_len,
     max_len |-> max_len]

\* The messages that the programs exchange, and what the library says of them.
MCEntries == <<
    Entry(0, 50, 9, 9), Entry(11, 89, 6, 6), Entry(32, 185, 28, 28),
    Entry(69, 243, 11, 30), Entry(76, 152, 33, 33), Entry(77, 143, 3, 10)>>

\* The bytes given, and zeros up to the length of the message.
Message(form, id, sysid, bytes) ==
    [form |-> form, id |-> id, sysid |-> sysid,
     payload |-> [i \in 1 .. entry(id).max_len |->
                    IF i =< Len(bytes) THEN bytes[i] ELSE 0]]

\* A SET_MODE that arms, one of zeros only; a stick whose bytes look like the start
\* of frames, one with extension fields and a signature, and one of MAVLink 1.
Arming == Message("v2", 11, 255, <<0, 0, 0, 0, 1, 216>>)
Zeros == Message("v2", 11, 253, <<>>)
Stick == Message("v2", 69, 255, <<253, 254, 3, 0, 24, 252, 0, 0, 0, 0, 1>>)
Extended == Message("signed", 69, 1, [i \in 1 .. 16 |-> IF i = 13 THEN 7 ELSE i % 4])
Old == Message("v1", 69, 1, [i \in 1 .. 16 |-> IF i = 11 THEN 7 ELSE i % 3])

MCMessages == {Arming, Zeros, Stick, Extended, Old}

\* What the theorems on damaged frames rest on, for these messages.
ASSUME IdsAssumption == DamagedIdsShow
=============================================================================
