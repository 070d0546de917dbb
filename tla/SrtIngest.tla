----------------------------- MODULE SrtIngest ------------------------------
(***************************************************************************)
(* The SRT ingest server, and the demuxer that takes its stream apart.     *)
(***************************************************************************)
EXTENDS LiveSessions, Integers, Sequences, SequencesExt
-----------------------------------------------------------------------------
(***************************************************************************)
(* The SRT ingest server, crates/lvqr-srt/src/ingest.rs: a connection is   *)
(* registered in the inventory when it is accepted, publishes one          *)
(* broadcast, and on every way out first announces the stop and then       *)
(* removes the row.                                                        *)
(*                                                                         *)
(* H.264 and HEVC differ in which parameter sets they wait for, not in     *)
(* control, and are one kind of access unit here.  Splice sections, which  *)
(* go to a track of their own, are left out.                               *)
(***************************************************************************)

CONSTANT SrtConns

VARIABLE srt   \* connection -> its task

NoSrt == [at |-> "idle", name |-> None, sets |-> FALSE, init |-> {}]
SrtInit == srt = [c \in SrtConns |-> NoSrt]

SrtTypeOK ==
  srt \in [SrtConns -> [at : {"idle", "recv", "stopped", "gone"}, name : Broadcasts \cup {None},
                        sets : BOOLEAN, init : SUBSET Tracks]]

SrtOpen == {c \in SrtConns : srt[c].at \in {"recv", "stopped"}}

\* mutant: the default name replaces the one in the stream id
SrtAcceptDefault(c, b) ==
  /\ "srt" \in listening /\ srt[c].at = "idle"
  /\ register(b, c)
  /\ srt' = [srt EXCEPT ![c].at = "recv", ![c].name = "srt/default"]
  /\ UNCHANGED <<killed, listening, registry, live>>

\* A connection request the auth provider admits, accepted by the peer.
SrtAccept(c, b) ==
  /\ "srt" \in listening /\ srt[c].at = "idle"
  /\ register(b, c)
  /\ srt' = [srt EXCEPT ![c].at = "recv", ![c].name = b]
  /\ UNCHANGED <<killed, listening, registry, live>>

\* mutant: an init segment is taken for granted
SrtVideoNoWait(c, sets, slices) ==
  /\ srt[c].at = "recv" /\ c \notin killed
  /\ srt' = [srt EXCEPT ![c].sets = @ \/ sets, ![c].init = @ \cup {Video}]
  /\ IF sets THEN publish_init(srt[c].name, Video) ELSE UNCHANGED ready
  /\ IF slices THEN publish_fragment(srt[c].name, Video) ELSE UNCHANGED <<fed, live>>
  /\ UNCHANGED inventory

\* A video PES packet: the parameter sets and slices it carries.  Slices
\* that come before the parameter sets are dropped.
SrtVideo(c, sets, slices) ==
  /\ srt[c].at = "recv" /\ c \notin killed
  /\ LET known == srt[c].sets \/ sets
         first == known /\ Video \notin srt[c].init IN
     /\ srt' = [srt EXCEPT ![c].sets = known, ![c].init = IF known THEN @ \cup {Video} ELSE @]
     /\ IF first THEN publish_init(srt[c].name, Video) ELSE UNCHANGED ready
     /\ IF known /\ slices THEN publish_fragment(srt[c].name, Video) ELSE UNCHANGED <<fed, live>>
  /\ UNCHANGED inventory

\* An AAC PES packet: the first ADTS header gives the init segment.  A
\* packet without a header changes nothing.
SrtAudio(c) ==
  /\ srt[c].at = "recv" /\ c \notin killed
  /\ srt' = [srt EXCEPT ![c].init = @ \cup {Audio}]
  /\ IF Audio \notin srt[c].init THEN publish_init(srt[c].name, Audio) ELSE UNCHANGED ready
  /\ publish_fragment(srt[c].name, Audio)
  /\ UNCHANGED inventory

\* mutant: nothing is said to the bus
SrtSilentExit(c) ==
  /\ srt[c].at = "recv"
  /\ srt' = [srt EXCEPT ![c].at = "stopped"]
  /\ UNCHANGED shared

SrtExit(c) ==
  /\ srt[c].at = "recv"
  /\ BroadcastStopped({srt[c].name})
  /\ srt' = [srt EXCEPT ![c].at = "stopped"]
  /\ UNCHANGED <<inventory, registry>>

SrtClosed(c) == SrtExit(c)                       \* the socket ended or failed
SrtCancelled(c) == c \in killed /\ SrtExit(c)    \* the first arm of the biased select

\* The spawned task after handle_connection has returned.
SrtDeregister(c) ==
  /\ srt[c].at = "stopped"
  /\ deregister({srt[c].name})
  /\ srt' = [srt EXCEPT ![c] = [NoSrt EXCEPT !.at = "gone"]]
  /\ DropToken(c)
  /\ UNCHANGED <<listening, registry, live>>

SrtNext(c) ==
  \/ \E b \in Broadcasts : SrtAccept(c, b)
  \/ \E sets, slices \in BOOLEAN : SrtVideo(c, sets, slices)
  \/ SrtAudio(c)
  \/ SrtClosed(c)
  \/ SrtCancelled(c)
  \/ SrtDeregister(c)

SrtFairness(c) == WF_<<srt, shared>>(SrtCancelled(c) \/ SrtDeregister(c))
-----------------------------------------------------------------------------
(***************************************************************************)
(* The MPEG-TS demuxer, crates/lvqr-codec/src/ts.rs, as the SRT connection *)
(* loop drives it: packets are cut out of arbitrary pieces of the stream,  *)
(* the program tables say which PIDs to listen to, and PES packets and     *)
(* splice sections are put together again.  There is no continuity check,  *)
(* so a lost packet is noticed by what it leaves behind, if at all.        *)
(*                                                                         *)
(* A TS packet is three pieces: the sync byte, its header (PID and payload *)
(* unit start) and its payload.  One PID carries video, one splice         *)
(* sections.  Inside a payload the fields that the code reads are units of *)
(* their own: the start of a PES packet with its declared length (0: not   *)
(* declared), the table id and the length of a section, its CRC.           *)
(***************************************************************************)

CONSTANTS
  MaxPes,       \* bound: PES packets of the publisher
  MaxSections,  \* bound: splice sections of the publisher
  MaxAir,       \* bound: pieces sent and not fed
  MaxTables     \* bound: program tables that change the streams

ASSUME TsAssumption == {MaxPes, MaxSections, MaxAir, MaxTables} \subseteq Nat

VARIABLES
  demux,  \* the TsDemuxer
  out,    \* what SRT processed: PES payloads and published sections
  mux,    \* the publisher: how much it has begun, and packets of units in progress
  air,    \* pieces on their way
  heard,  \* history: the packets that reached push_pes and push_section
  aired   \* history: the tables sent, and how many packets of their PIDs were sent whole

ts == <<demux, out, mux, air, heard, aired>>

Pids == {"video", "splice"}
NoSection == [buf |-> <<>>, len |-> -1]
NewDemux == [remainder |-> <<>>, pmt |-> FALSE, streams |-> {},
             pes |-> [started |-> FALSE, buf |-> <<>>], sec |-> NoSection]

TsInit ==
  /\ demux = NewDemux
  /\ out = [pes |-> <<>>, cues |-> <<>>]
  /\ \E pid \in Pids :
       mux = [sends |-> pid, pes |-> 0, sections |-> 0, tables |-> 0, video |-> <<>>, splice |-> <<>>]
  /\ air = <<>>
  /\ heard = [video |-> <<>>, splice |-> <<>>]
  /\ aired = [pat |-> FALSE, pmt |-> {}, count |-> 0]
-----------------------------------------------------------------------------
(* The publisher.  The two PIDs do not touch one another in the demuxer,   *)
(* so it is enough that one of them sends.                                 *)

Packet(pid, pusi, payload) == [pid |-> pid, pusi |-> pusi, payload |-> payload]
Pieces(p) == <<[k |-> "sync"], [k |-> "header", pid |-> p.pid, pusi |-> p.pusi],
               [k |-> "payload", data |-> p.payload]>>

\* A PES packet of n units of video: its header and a unit, then the rest.
PesPackets(id, n, declared) ==
  [i \in 1..n |-> Packet("video", i = 1,
     IF i = 1 THEN <<<<"pes", IF declared THEN n ELSE 0>>, <<"es", 10 * id + 1>>>>
              ELSE <<<<"es", 10 * id + i>>>>)]
PesPayload(id, n) == [i \in 1..n |-> <<"es", 10 * id + i>>]

\* Sections of three or more units, the length counting what follows it.
Section(id, n) ==
  <<<<"id", id>>, <<"len", n - 2>>>> \o [i \in 1..(n - 3) |-> <<"data", id>>] \o <<<<"crc", id>>>>

\* Sections back to back in packets of three units, stuffed at the end: a
\* packet in which one starts says where the first such start is.
Packed(secs) ==
  LET bytes == FlattenSeq(secs)
      padded == bytes \o [i \in 1..((3 - (Len(bytes) % 3)) % 3) |-> <<"stuffing", 0>>]
      part(i) == SubSeq(padded, 3 * i - 2, 3 * i)
      starts(i) == {j \in 1..3 : part(i)[j][1] = "id"} IN
  [i \in 1..(Len(padded) \div 3) |->
     IF starts(i) = {} THEN Packet("splice", FALSE, part(i))
     ELSE Packet("splice", TRUE, <<<<"pointer", (CHOOSE j \in starts(i) : \A k \in starts(i) : j <= k) - 1>>>>
                                 \o part(i))]

Begin ==
  /\ mux[mux.sends] = <<>>
  /\ \/ /\ mux.sends = "video" /\ mux.pes < MaxPes
        /\ \E n \in 1..2, declared \in BOOLEAN :
             mux' = [mux EXCEPT !.pes = @ + 1, !.video = PesPackets(mux.pes + 1, n, declared)]
     \/ /\ mux.sends = "splice" /\ mux.sections < MaxSections
        /\ \E n \in 3..4 :
             mux' = [mux EXCEPT !.sections = @ + 1, !.splice = Packed(<<Section(mux.sections + 1, n)>>)]
     \/ /\ mux.sends = "splice" /\ mux.sections + 1 < MaxSections
        /\ \E n \in 3..4 :
             mux' = [mux EXCEPT !.sections = @ + 2,
                       !.splice = Packed(<<Section(mux.sections + 1, n), Section(mux.sections + 2, 3)>>)]
  /\ UNCHANGED <<demux, out, air, heard, aired>>

\* The next packet of a unit in progress is sent, or lost but for some of
\* its bytes.
SendPacket(pid) ==
  /\ mux[pid] # <<>> /\ Len(air) < MaxAir
  /\ mux' = [mux EXCEPT ![pid] = Tail(@)]
  /\ \/ /\ air' = air \o Pieces(Head(mux[pid]))
        /\ aired' = [aired EXCEPT !.count = IF pid \in aired.pmt THEN @ + 1 ELSE @]
     \/ /\ \E pieces \in {<<>>, <<[k |-> "stray"]>>} : air' = air \o pieces
        /\ UNCHANGED aired
  /\ UNCHANGED <<demux, out, heard>>

\* A program association or a program map, with or without the splice PID.
SendTable ==
  /\ mux.tables < MaxTables /\ Len(air) < MaxAir
  /\ mux' = [mux EXCEPT !.tables = @ + 1]
  /\ \E p \in {Packet("pat", TRUE, {}), Packet("pmt", TRUE, Pids), Packet("pmt", TRUE, {"video"})} :
       /\ air' = air \o Pieces(p)
       /\ aired' = IF p.pid = "pat" THEN [aired EXCEPT !.pat = TRUE]
                   ELSE IF aired.pat THEN [aired EXCEPT !.pmt = p.payload] ELSE aired
  /\ UNCHANGED <<demux, out, heard>>
-----------------------------------------------------------------------------
(* process_packet and what it calls, on the state of the demuxer and what  *)
(* came out of it.                                                         *)

\* mutant: the declared length is not looked at
finish_pes_untrimmed(buf) == Tail(buf)

\* The payload, trimmed to the declared length.
finish_pes(buf) ==
  LET n == buf[1][2] IN
  IF n > 0 /\ n + 1 < Len(buf) THEN SubSeq(buf, 2, n + 1) ELSE Tail(buf)

\* mutant: what was collected is dropped when the next unit starts
push_pes_drop(st, p) ==
  IF p.pusi THEN [st EXCEPT !.d.pes = [started |-> TRUE, buf |-> p.payload]]
  ELSE IF st.d.pes.started THEN [st EXCEPT !.d.pes.buf = @ \o p.payload] ELSE st

\* A start finishes the unit before it; without one nothing is collected.
push_pes(st, p) ==
  IF p.pusi THEN [st EXCEPT !.d.pes = [started |-> TRUE, buf |-> p.payload],
                            !.pes = IF st.d.pes.started THEN Append(@, finish_pes(st.d.pes.buf)) ELSE @]
  ELSE IF st.d.pes.started THEN [st EXCEPT !.d.pes.buf = @ \o p.payload] ELSE st

\* section_length, once enough of the section is there; stuffing read as a
\* length is larger than any section.
SectionLength(buf) == IF Len(buf) < 2 THEN -1 ELSE IF buf[2][1] = "len" THEN 2 + buf[2][2] ELSE 4098

\* Completed sections are cut off the buffer; stuffing too short to be read
\* as a section is discarded.
Flush(s) ==
  LET cut[n \in 0..Len(s.buf)] ==
        \* sections found after n units of the buffer
        LET rest == SubSeq(s.buf, n + 1, Len(s.buf))
            len == SectionLength(rest) IN
        IF len = -1 \/ len > Len(rest)
          THEN [found |-> <<>>, sec |-> IF n > 0 /\ len = -1 /\ \A b \in ToSet(rest) : b[1] = "stuffing"
                                          THEN NoSection ELSE [buf |-> rest, len |-> len]]
          ELSE LET more == cut[n + len] IN
               [more EXCEPT !.found = <<SubSeq(rest, 1, len)>> \o @]
  IN cut[0]

\* parse_splice_info_section: the CRC tells a section from a mixture.
Valid(s) ==
  LET id == s[1][2] IN
  /\ s[1][1] = "id" /\ Last(s) = <<"crc", id>>
  /\ \A i \in 3..(Len(s) - 1) : s[i] = <<"data", id>>

\* mutant: a start is added to what is there
push_section_keep(st, p) ==
  LET d == st.d
      buf == IF p.pusi THEN d.sec.buf \o SubSeq(p.payload, 2 + p.payload[1][2], Len(p.payload))
                       ELSE d.sec.buf \o p.payload IN
  IF ~ p.pusi /\ d.sec = NoSection THEN st
  ELSE LET f == Flush([buf |-> buf, len |-> -1]) IN
       [st EXCEPT !.d.sec = f.sec, !.cues = @ \o SelectSeq(f.found, Valid)]

\* mutant: a section is published without a look at its CRC
push_section_unchecked(st, p) ==
  LET d == st.d
      buf == IF p.pusi THEN SubSeq(p.payload, 2 + p.payload[1][2], Len(p.payload))
                       ELSE d.sec.buf \o p.payload IN
  IF ~ p.pusi /\ d.sec = NoSection THEN st
  ELSE LET f == Flush([buf |-> buf, len |-> -1]) IN
       [st EXCEPT !.d.sec = f.sec, !.cues = @ \o f.found]

\* A start drops the section in progress and skips to the pointer; a
\* continuation without a section in progress is ignored.
push_section(st, p) ==
  LET d == st.d
      buf == IF p.pusi THEN SubSeq(p.payload, 2 + p.payload[1][2], Len(p.payload))
                       ELSE d.sec.buf \o p.payload IN
  IF ~ p.pusi /\ d.sec = NoSection THEN st
  ELSE LET f == Flush([buf |-> buf, len |-> -1]) IN
       [st EXCEPT !.d.sec = f.sec, !.cues = @ \o SelectSeq(f.found, Valid)]

\* The tables: the program map's PID, and the streams it lists.
parse_pat(st, p) == [st EXCEPT !.d.pmt = TRUE]
parse_pmt(st, p) == [st EXCEPT !.d.streams = p.payload]

process_packet(st, p) ==
  CASE p.pid = "pat" -> parse_pat(st, p)
    [] p.pid = "pmt" /\ st.d.pmt -> parse_pmt(st, p)
    [] p.pid = "video" /\ "video" \in st.d.streams -> [push_pes(st, p) EXCEPT !.video = Append(@, p)]
    [] p.pid = "splice" /\ "splice" \in st.d.streams -> [push_section(st, p) EXCEPT !.splice = Append(@, p)]
    [] OTHER -> st

\* The packets in a piece of the stream, from sync byte to sync byte, and
\* the bytes that are left.
Scan(bytes) ==
  LET at[i \in 1..(Len(bytes) + 1)] ==
        IF i > Len(bytes) THEN [packets |-> <<>>, rest |-> <<>>]
        ELSE IF bytes[i].k # "sync" THEN at[i + 1]
        ELSE IF i + 2 > Len(bytes) THEN [packets |-> <<>>, rest |-> SubSeq(bytes, i, Len(bytes))]
        ELSE [at[i + 3] EXCEPT !.packets =
                <<Packet(bytes[i + 1].pid, bytes[i + 1].pusi, bytes[i + 2].data)>> \o @]
  IN at[1]

\* mutant: trailing bytes are not kept
feedNoRemainder(data) ==
  LET scan == Scan(demux.remainder \o data)
      st == FoldLeft(process_packet,
              [d |-> demux, pes |-> <<>>, cues |-> <<>>, video |-> <<>>, splice |-> <<>>], scan.packets) IN
  /\ demux' = [st.d EXCEPT !.remainder = <<>>]
  /\ out' = [pes |-> out.pes \o st.pes, cues |-> out.cues \o st.cues]
  /\ heard' = [video |-> heard.video \o st.video, splice |-> heard.splice \o st.splice]

\* feed, and the connection loop that takes what it returns.
feed(data) ==
  LET scan == Scan(demux.remainder \o data)
      st == FoldLeft(process_packet,
              [d |-> demux, pes |-> <<>>, cues |-> <<>>, video |-> <<>>, splice |-> <<>>], scan.packets) IN
  /\ demux' = [st.d EXCEPT !.remainder = scan.rest]
  /\ out' = [pes |-> out.pes \o st.pes, cues |-> out.cues \o st.cues]
  /\ heard' = [video |-> heard.video \o st.video, splice |-> heard.splice \o st.splice]

Feed ==
  \E n \in 1..Len(air) :
    /\ feed(SubSeq(air, 1, n))
    /\ air' = SubSeq(air, n + 1, Len(air))
    /\ UNCHANGED <<mux, aired>>

TsNext == Begin \/ SendTable \/ (\E pid \in Pids : SendPacket(pid)) \/ Feed
-----------------------------------------------------------------------------
TsTypeOK ==
  /\ demux.pmt \in BOOLEAN /\ demux.streams \in SUBSET Pids
  /\ demux.pes.started \/ demux.pes.buf = <<>>
  /\ Len(demux.remainder) <= 2
  /\ mux.pes \in 0..MaxPes /\ mux.sections \in 0..MaxSections

\* However the stream is cut, every packet that was sent whole, on a PID of
\* the program map before it, is taken once.
EveryPacketTaken ==
  LET taken == Len(heard.video) + Len(heard.splice) IN
  taken <= aired.count /\ (air = <<>> => taken = aired.count)

\* The units of a PES packet whose packets were all heard in a row from i.
Whole(i) ==
  LET p == heard.video[i].payload
      id == p[2][2] \div 10 IN
  {n \in 1..2 : /\ i + n - 1 <= Len(heard.video)
                /\ \A k \in 1..n : heard.video[i + k - 1].payload = PesPackets(id, n, p[1][2] > 0)[k].payload}

\* A PES packet that was heard whole is delivered exactly when the next one
\* starts, whatever was lost around it and however the stream was cut: if
\* its length is declared, even when the start of its successor is lost and
\* the successor's rest is added to it.
PesSurvives ==
  \A i, j \in DOMAIN heard.video :
    LET p == heard.video[i].payload IN
    \A n \in IF heard.video[i].pusi THEN Whole(i) ELSE {} :
      i + n <= j /\ heard.video[j].pusi
      /\ (IF p[1][2] > 0 THEN n = p[1][2] /\ \A k \in (i + n)..(j - 1) : ~ heard.video[k].pusi ELSE i + n = j)
        => \E o \in ToSet(out.pes) : o = PesPayload(p[2][2] \div 10, n)

\* What is published on the splice track is what the publisher sent, in
\* order and once, also when losses run two sections into one another; and
\* the first section of a packet is published when it and its continuation
\* were heard, unless it ends in a packet in which another one starts: such
\* a packet drops the section in progress.
CuesSound ==
  /\ \A i \in DOMAIN out.cues :
       /\ \E id \in 1..mux.sections : out.cues[i] \in {Section(id, 3), Section(id, 4)}
       /\ i > 1 => out.cues[i - 1][1][2] < out.cues[i][1][2]
  /\ \A i \in DOMAIN heard.splice :
       LET p == heard.splice[i]
           s == SubSeq(p.payload, 2 + p.payload[1][2], Len(p.payload))
           t == IF i < Len(heard.splice) /\ ~ heard.splice[i + 1].pusi
                  THEN s \o heard.splice[i + 1].payload ELSE s
           n == SectionLength(t) IN
       p.pusi /\ n \in 1..Len(t) /\ Valid(SubSeq(t, 1, n)) => SubSeq(t, 1, n) \in ToSet(out.cues)
=============================================================================
