----------------------------- MODULE RtpFraming -----------------------------
(***************************************************************************)
(* The byte stream of a recording RTSP connection: the packetizers and     *)
(* depacketizers of crates/lvqr-rtsp/src/rtp.rs, the interleaved frames    *)
(* they travel in, and the read loop of server.rs that cuts the stream     *)
(* back into frames and requests, wherever the reads happen to end.        *)
(*                                                                         *)
(* The packetizers are the server's own; a publisher may also aggregate.   *)
(* A byte is a pair of what it is for and its value.  Fields of several    *)
(* bytes are one, the RTP header keeps its marker only, and a request is   *)
(* two bytes, so that it can be cut in half.                               *)
(***************************************************************************)
EXTENDS Integers, FiniteSets, Sequences, SequencesExt

CONSTANTS
  Mtu,       \* payload bytes of a packet, at least HEVC's minimum of 4
  NalSizes,  \* sizes of the NAL units the publisher sends, header included
  MaxUnits,  \* bound: what the publisher sends, requests included
  MaxUnread  \* bound: bytes on the wire before the publisher waits

ASSUME RtpAssumption ==
  /\ Mtu \in Nat /\ Mtu >= 4
  /\ NalSizes \subseteq Nat \ {0, 1}
  /\ {MaxUnits, MaxUnread} \subseteq Nat

VARIABLES
  hdr,      \* bytes of a NAL header, which tells the codecs apart: 1 H.264, 2 HEVC
  outgoing, \* the publisher's video packets that are not on the wire yet
  wire,     \* bytes written and not read
  readBuf,  \* read_buf of the connection
  fu,       \* the depacketizer: its buffer, and whether a unit is in progress
  sent,     \* history: what was published, per track
  got,      \* history: what the depacketizers returned, per track
  units,    \* how much was published
  cleared   \* history: read_buf was cleared after a parse error

rtp == <<hdr, outgoing, wire, readBuf, fu, sent, got, units, cleared>>

Byte(kind, value) == <<kind, value>>
VideoCh == 0
AudioCh == 2
FuType == IF hdr = 1 THEN 28 ELSE 49
ApType == IF hdr = 1 THEN 24 ELSE 48
SliceType == 1
KeyType == IF hdr = 1 THEN 5 ELSE 19

\* A NAL header carrying type t, and a whole unit whose bytes name it.
NalHeader(t) == IF hdr = 1 THEN <<Byte("nal", t)>> ELSE <<Byte("nal", t), Byte("tid", 1)>>
Nal(t, id, size) == NalHeader(t) \o [i \in 1..(size - hdr) |-> Byte("data", 10 * id + i)]
IsKey(nal) == nal[1][2] = KeyType
-----------------------------------------------------------------------------
(* The packetizers.  A packet is its RTP header and its payload. *)

RtpPacket(marker, payload) == <<Byte("rtp", IF marker THEN 1 ELSE 0)>> \o payload

FuHeader(t, start, end) ==
  Byte("fu", t + (IF start THEN 128 ELSE 0) + (IF end THEN 64 ELSE 0))

Chunks(body, size) ==
  [i \in 1..((Len(body) + size - 1) \div size) |->
     SubSeq(body, (i - 1) * size + 1, IF i * size < Len(body) THEN i * size ELSE Len(body))]

\* mutant: the fragments carry the NAL header as well
packetizeHeaderTwice(nal, endOfAu) ==
  IF Len(nal) <= Mtu
    THEN <<RtpPacket(endOfAu, nal)>>
    ELSE LET parts == Chunks(nal, Mtu - hdr - 1) IN
         [i \in DOMAIN parts |->
            RtpPacket(endOfAu /\ i = Len(parts),
                      Append(NalHeader(FuType), FuHeader(nal[1][2], i = 1, i = Len(parts))) \o parts[i])]

\* packetize of both video codecs: one packet, or fragments of the body.
packetize(nal, endOfAu) ==
  IF Len(nal) <= Mtu
    THEN <<RtpPacket(endOfAu, nal)>>
    ELSE LET parts == Chunks(SubSeq(nal, hdr + 1, Len(nal)), Mtu - hdr - 1) IN
         [i \in DOMAIN parts |->
            RtpPacket(endOfAu /\ i = Len(parts),
                      Append(NalHeader(FuType), FuHeader(nal[1][2], i = 1, i = Len(parts))) \o parts[i])]

\* An aggregation packet of a publisher, and an AAC packet: the number of
\* access units in bits of their headers, the sizes, the units.
aggregate(nals) ==
  RtpPacket(TRUE, NalHeader(ApType) \o FlattenSeq([i \in DOMAIN nals |-> <<Byte("size", Len(nals[i]))>> \o nals[i]]))
packetizeAac(frames) ==
  RtpPacket(TRUE, <<Byte("auh", 16 * Len(frames))>>
                  \o [i \in DOMAIN frames |-> Byte("size", Len(frames[i]) * 8)]
                  \o FlattenSeq(frames))

send_interleaved(channel, pkt) ==
  <<Byte("$", 0), Byte("ch", channel), Byte("len", Len(pkt))>> \o pkt
-----------------------------------------------------------------------------
(* The depacketizers: what they return, and what they remember. *)

Idle == [buf |-> <<>>, active |-> FALSE]

\* Size-prefixed units up to the first that does not fit.
Units(bytes) ==
  LET take[o \in 1..(Len(bytes) + 1)] ==
        IF o > Len(bytes) \/ o + bytes[o][2] > Len(bytes) THEN <<>>
        ELSE <<SubSeq(bytes, o + 1, o + bytes[o][2])>> \o take[o + 1 + bytes[o][2]]
  IN take[1]

\* mutant: the last fragment of a unit is left out
ReassembleDropsLast(payload) ==
  LET f == payload[hdr + 1][2]
      buf == (IF f >= 128 THEN NalHeader(f % 64) ELSE fu.buf) \o SubSeq(payload, hdr + 2, Len(payload))
  IN IF (f \div 64) % 2 = 1 THEN [nalus |-> <<fu.buf>>, fu |-> Idle]
     ELSE [nalus |-> <<>>, fu |-> [buf |-> buf, active |-> TRUE]]

\* mutant: the buffer is not cleared between units
ReassembleKeeps(payload) ==
  LET f == payload[hdr + 1][2]
      buf == fu.buf \o (IF f >= 128 THEN NalHeader(f % 64) ELSE <<>>)
             \o SubSeq(payload, hdr + 2, Len(payload))
  IN [nalus |-> IF (f \div 64) % 2 = 1 THEN <<buf>> ELSE <<>>, fu |-> [buf |-> buf, active |-> TRUE]]

\* A fragment: the first rebuilds the NAL header, one without a first is
\* dropped, the last completes the unit.
Reassemble(payload) ==
  LET f == payload[hdr + 1][2]
      start == f >= 128
      buf == (IF start THEN NalHeader(f % 64) ELSE fu.buf) \o SubSeq(payload, hdr + 2, Len(payload))
  IN IF ~ start /\ ~ fu.active THEN [nalus |-> <<>>, fu |-> fu]
     ELSE IF (f \div 64) % 2 = 1 THEN [nalus |-> <<buf>>, fu |-> Idle]
     ELSE [nalus |-> <<>>, fu |-> [buf |-> buf, active |-> TRUE]]

\* depacketize of both video codecs.
depacketize(payload) ==
  LET t == payload[1][2] IN
  IF t = FuType THEN Reassemble(payload)
  ELSE [nalus |-> IF t = ApType THEN Units(SubSeq(payload, hdr + 1, Len(payload))) ELSE <<payload>>,
        fu |-> fu]

depacketizeAac(payload) ==
  LET count == payload[1][2] \div 16
      size(i) == payload[1 + i][2] \div 8
      from[i \in 1..(count + 1)] == IF i = 1 THEN 2 + count ELSE from[i - 1] + size(i - 1)
  IN IF count + 1 > Len(payload) THEN <<>>
     ELSE LET n == Cardinality({i \in 1..count : from[i + 1] - 1 <= Len(payload)}) IN
          [i \in 1..n |-> SubSeq(payload, from[i], from[i + 1] - 1)]
-----------------------------------------------------------------------------
RtpInit ==
  /\ hdr \in {1, 2}
  /\ outgoing = <<>> /\ wire = <<>> /\ readBuf = <<>> /\ fu = Idle
  /\ sent = [video |-> <<>>, audio |-> <<>>] /\ got = sent
  /\ units = 0 /\ cleared = FALSE

May(n) == units + n <= MaxUnits /\ Len(wire) < MaxUnread

\* An access unit of one or two NAL units, each packetized on its own.
PublishVideo(nals) ==
  /\ May(Len(nals)) /\ outgoing = <<>>
  /\ outgoing' = FlattenSeq([i \in DOMAIN nals |-> packetize(nals[i], i = Len(nals))])
  /\ sent' = [sent EXCEPT !.video = @ \o [i \in DOMAIN nals |-> [nal |-> nals[i], key |-> IsKey(nals[i])]]]
  /\ units' = units + Len(nals)
  /\ UNCHANGED <<hdr, wire, readBuf, fu, got, cleared>>

\* The next packet of the access unit goes out.
WriteVideo ==
  /\ outgoing # <<>> /\ Len(wire) < MaxUnread
  /\ wire' = wire \o send_interleaved(VideoCh, Head(outgoing))
  /\ outgoing' = Tail(outgoing)
  /\ UNCHANGED <<hdr, readBuf, fu, sent, got, units, cleared>>

\* Audio, reports and requests may come between the packets of a unit.
PublishAggregate(nals) ==
  /\ May(Len(nals)) /\ outgoing = <<>>
  /\ wire' = wire \o send_interleaved(VideoCh, aggregate(nals))
  /\ LET key == \E n \in ToSet(nals) : IsKey(n) IN
     sent' = [sent EXCEPT !.video = @ \o [i \in DOMAIN nals |-> [nal |-> nals[i], key |-> key]]]
  /\ units' = units + Len(nals)
  /\ UNCHANGED <<hdr, outgoing, readBuf, fu, got, cleared>>

PublishAudio(frames) ==
  /\ May(Len(frames))
  /\ wire' = wire \o send_interleaved(AudioCh, packetizeAac(frames))
  /\ sent' = [sent EXCEPT !.audio = @ \o frames]
  /\ units' = units + Len(frames)
  /\ UNCHANGED <<hdr, outgoing, readBuf, fu, got, cleared>>

\* An RTCP packet, or a request.
PublishOther ==
  /\ May(1)
  /\ \/ wire' = wire \o send_interleaved(VideoCh + 1, <<Byte("data", 0)>>)
     \/ wire' = wire \o <<Byte("req", 1), Byte("req", 2)>>
  /\ units' = units + 1
  /\ UNCHANGED <<hdr, outgoing, readBuf, fu, sent, got, cleared>>
-----------------------------------------------------------------------------
(* The read arm of the connection loop: all complete messages of the       *)
(* buffer are processed before the next read.                              *)

FrameComplete == Len(readBuf) >= 3 /\ Len(readBuf) >= 3 + readBuf[3][2]

\* parse_request takes the whole buffer for text.  A payload is not: every
\* RTP packet starts with the byte 0x80.
IsText == \A b \in ToSet(readBuf) : b[1] \in {"req", "$", "ch", "len"}
RequestComplete == Len(readBuf) >= 2 /\ readBuf[2][1] = "req"
Complete ==
  /\ readBuf # <<>>
  /\ IF readBuf[1][1] = "$" THEN FrameComplete ELSE ~ IsText \/ RequestComplete

RtpRead(n) ==
  /\ ~ Complete /\ n \in 1..Len(wire)
  /\ readBuf' = readBuf \o SubSeq(wire, 1, n)
  /\ wire' = SubSeq(wire, n + 1, Len(wire))
  /\ UNCHANGED <<hdr, outgoing, fu, sent, got, units, cleared>>

Consume(n) == readBuf' = SubSeq(readBuf, n + 1, Len(readBuf))

\* process_rtp_frame: odd channels are skipped, the others depacketized.
RtpFrame ==
  /\ Complete /\ readBuf[1][1] = "$"
  /\ LET channel == readBuf[2][2]
         total == 3 + readBuf[3][2]
         payload == SubSeq(readBuf, 5, total)
         video == depacketize(payload) IN
     /\ Consume(total)
     /\ IF channel = VideoCh
          THEN LET key == \E n \in ToSet(video.nalus) : IsKey(n) IN
               /\ got' = [got EXCEPT !.video =
                            @ \o [i \in DOMAIN video.nalus |-> [nal |-> video.nalus[i], key |-> key]]]
               /\ fu' = video.fu
        ELSE /\ got' = IF channel = AudioCh THEN [got EXCEPT !.audio = @ \o depacketizeAac(payload)]
                                            ELSE got
             /\ UNCHANGED fu
  /\ UNCHANGED <<hdr, outgoing, wire, sent, units, cleared>>

\* A request is answered and consumed; one that cannot be parsed clears
\* the buffer, with whatever followed it.
RtpRequest ==
  /\ Complete /\ readBuf[1][1] # "$"
  /\ IF IsText THEN Consume(2) /\ UNCHANGED cleared
               ELSE readBuf' = <<>> /\ cleared' = TRUE
  /\ UNCHANGED <<hdr, outgoing, wire, fu, sent, got, units>>

RtpNext ==
  \/ \E t \in {SliceType, KeyType}, size \in NalSizes :
       LET n1 == Nal(t, units + 1, size) IN
       \/ PublishVideo(<<n1>>)
       \/ \E size2 \in NalSizes :
            LET n2 == Nal(SliceType, units + 2, size2) IN
            PublishVideo(<<n1, n2>>) \/ PublishAggregate(<<n1, n2>>)
  \/ \E n \in 1..2 :
       PublishAudio([i \in 1..n |-> [j \in 1..i |-> Byte("data", 10 * (units + i) + j)]])
  \/ PublishOther \/ WriteVideo
  \/ \E n \in 1..Len(wire) : RtpRead(n)
  \/ RtpFrame \/ RtpRequest
-----------------------------------------------------------------------------
RtpTypeOK ==
  /\ hdr \in {1, 2} /\ units \in 0..MaxUnits /\ cleared \in BOOLEAN
  /\ fu.active \/ fu.buf = <<>>

\* Wherever the reads cut the stream and however the tracks mix on it, the
\* NAL units and the audio frames come out whole, in order and marked as
\* keyframes exactly as they went in, and nothing is held back once the
\* stream is read.  The exception is a request followed by media in the same
\* buffer: parse_request wants all of it to be text, and its error clears
\* the buffer in the middle of a frame.
MediaIntact ==
  cleared \/ /\ IsPrefix(got.video, sent.video) /\ IsPrefix(got.audio, sent.audio)
             /\ outgoing = <<>> /\ wire = <<>> /\ ~ Complete => readBuf = <<>> /\ got = sent
=============================================================================
