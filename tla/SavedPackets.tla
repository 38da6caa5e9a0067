---------------------------- MODULE SavedPackets ----------------------------
(***************************************************************************)
(* Converters of packet captures and sensor logs: echo exchanges, a TCP    *)
(* stream put together from its segments, RTCP and RTPS datagrams, blocks  *)
(* of a pcapng file, IMC frames and their window, MOOS logs.               *)
(***************************************************************************)
EXTENDS SavedLines

CONSTANTS SequenceSpace,  \* bound: 2^32 in the code, TCP's sequence numbers
          StreamLimit,    \* bound: imc.LIMIT, 16 MiB in the code, the bytes of a stream
          EchoPackets     \* bound: the echo packets of a capture

(* None is not the index of a packet. *)
ASSUME EchoAssumption == Absent \notin Nat

(* A stream that is put together is shorter than a turn of the numbers. *)
ASSUME StreamLimitAssumption ==
    SequenceSpace \in Nat /\ StreamLimit \in Nat /\ StreamLimit < SequenceSpace

(* convert_imc_sensors.convert_icmp_echo: a packet: [kind, key, payload], kind *)
(* "request", "reply" or "other", key the two ends with identifier and number. *)
(* held: [waiting, poisoned, resolved]: the request each key waits with, the   *)
(* keys that are ambiguous and those that are answered.                        *)
NoExchange == [waiting |-> <<>>, poisoned |-> {}, resolved |-> {}]

Exchange(status, request, reply) == [status |-> status, request |-> request, reply |-> reply]
Report(status, request, reply)   == CarryAll(<<Exchange(status, request, reply)>>)
Waiting(without) == [k \in DOMAIN held.waiting \ {without} |-> held.waiting[k]]

Opening(r) ==
    [k \in DOMAIN held.waiting \cup {r.key} |-> IF k = r.key THEN Here ELSE held.waiting[k]]

EchoRequest(r) ==
    \/ /\ r.key \in held.poisoned
       /\ Report("ambiguous", Here, Absent) /\ UNCHANGED held
    \/ /\ r.key \notin held.poisoned \cup held.resolved /\ r.key \in DOMAIN held.waiting
       /\ CarryAll(<<Exchange("ambiguous", held.waiting[r.key], Absent), Exchange("ambiguous", Here, Absent)>>)
       /\ Hold([held EXCEPT !.poisoned = @ \cup {r.key}, !.waiting = Waiting(r.key)])
    \/ /\ r.key \notin held.poisoned \cup held.resolved \cup DOMAIN held.waiting
       /\ Hold([held EXCEPT !.waiting = Opening(r)]) /\ Keeping

MutantSettled(r, same) ==  \* an answered exchange is forgotten
    [held EXCEPT !.waiting = Waiting(r.key), !.poisoned = IF same THEN @ ELSE @ \cup {r.key}]

Settled(r, same) ==
    [held EXCEPT !.waiting  = Waiting(r.key),
                 !.poisoned = IF same THEN @ ELSE @ \cup {r.key},
                 !.resolved = IF same THEN @ \cup {r.key} ELSE @]

EchoReply(r) ==
    \/ r.key \in held.poisoned /\ Report("ambiguous", Absent, Here) /\ UNCHANGED held
    \/ /\ r.key \notin held.poisoned \cup DOMAIN held.waiting
       /\ Report("reply without request", Absent, Here) /\ UNCHANGED held
    \/ LET request == held.waiting[r.key]
           same == fed[request].payload = r.payload
       IN /\ r.key \in DOMAIN held.waiting \ held.poisoned
          /\ Report(IF same THEN "paired" ELSE "returned data mismatch", request, Here)
          /\ Hold(Settled(r, same))

IcmpEcho(r) ==
    /\ UNCHANGED keys
    /\ \/ r.kind = "other" /\ PassOver("unselected") /\ UNCHANGED held
       \/ r.kind = "request" /\ EchoRequest(r)
       \/ r.kind = "reply" /\ EchoReply(r)

(* The code then sorts the rows by time of capture; times are left out.        *)
IcmpEchoEnd ==
    LET unanswered == SetToSeq({Exchange("no reply in capture", held.waiting[k], Absent) : k \in DOMAIN held.waiting})
    IN Ending /\ UNCHANGED passed /\ lines' = lines \o unanswered /\ lines' # <<>>

EchoInit == converter = "icmp echo" /\ declared = Absent /\ Starting(NoExchange)

EchoNext ==
    \/ \E r \in EchoPackets : Taking(r) /\ IcmpEcho(r)
    \/ IcmpEchoEnd
    \/ Refuse

EchoSpec == EchoInit /\ [][EchoNext]_linesVars

-----------------------------------------------------------------------------
(* convert_imc_tcp_recorded.convert_path: a packet: [flow, seq, flag, data],   *)
(* flag "syn", "fin" or "none"; the first byte of a frame in the data is the   *)
(* length of the frame.  held: [expected, stream, spans, seen], a span being   *)
(* the bytes of the stream up to stop that a packet brought, and seen where    *)
(* the bytes of a sequence number and a length are.                            *)
NoStream == [expected |-> Absent, stream |-> <<>>, spans |-> <<>>, seen |-> <<>>, finished |-> FALSE]

SegmentKey(r) == <<r.seq, Len(r.data)>>
Retransmitted(r) == r.data # <<>> /\ r.flag # "fin" /\ SegmentKey(r) \in DOMAIN held.seen

MutantInSequence(r) == TRUE  \* a lost segment is closed over

InSequence(r) == r.seq = held.expected

Extended(r) ==
    LET begin == Len(held.stream)
        grown == held.stream \o r.data
    IN [expected |-> (held.expected + Len(r.data) + (IF r.flag = "fin" THEN 1 ELSE 0)) % SequenceSpace,
        stream   |-> grown,
        spans    |-> IF r.data = <<>> THEN held.spans ELSE Append(held.spans, [packet |-> Here, start |-> begin, stop |-> Len(grown)]),
        seen     |-> IF r.data = <<>> THEN held.seen ELSE Putting(held.seen, SegmentKey(r), begin),
        finished |-> r.flag = "fin"]

TcpPacket(r) ==
    /\ UNCHANGED keys
    /\ \/ r.flow = "other" /\ PassOver("ignored") /\ UNCHANGED held
       \/ /\ r.flow = "selected" /\ held.expected = Absent /\ r.flag = "syn" /\ r.data = <<>>
          /\ Hold([held EXCEPT !.expected = (r.seq + 1) % SequenceSpace]) /\ Keeping
       \/ /\ r.flow = "selected" /\ held.expected # Absent /\ ~held.finished /\ r.flag # "syn"
          /\ \/ /\ Retransmitted(r)
                /\ SubSeq(held.stream, held.seen[SegmentKey(r)] + 1, held.seen[SegmentKey(r)] + Len(r.data)) = r.data
                /\ PassOver("identical retransmission") /\ UNCHANGED held
             \/ /\ ~Retransmitted(r) /\ InSequence(r) /\ Len(held.stream) + Len(r.data) <= StreamLimit
                /\ Hold(Extended(r)) /\ Keeping

(* The frames of the stream: each starts where another one stops, the first at *)
(* the first byte; a frame comes with the packets its bytes were in.           *)
FrameStop(n) == n + held.stream[n + 1]

Frames(starts) ==
    /\ 0 \in starts
    /\ \A n \in starts : n < FrameStop(n) /\ FrameStop(n) \in starts \cup {Len(held.stream)}
    /\ \A n \in starts \ {0} : \E m \in starts : FrameStop(m) = n

FrameFrom(n) ==
    [start |-> n, stop |-> FrameStop(n),
     packets |-> {s.packet : s \in {t \in ToSet(held.spans) : n < t.stop /\ t.start < FrameStop(n)}}]

TcpEnd ==
    /\ Ending /\ UNCHANGED passed /\ held.finished /\ held.stream # <<>>
    /\ \E starts \in SUBSET (0..(Len(held.stream) - 1)) :
          /\ Frames(starts)
          /\ lines' = [i \in DOMAIN Ascending(starts) |-> FrameFrom(Ascending(starts)[i])]

-----------------------------------------------------------------------------
(* convert_rtcp_sender_reports: a datagram is a sequence of packets: [kind,    *)
(* count], count the blocks of a report, or the chunks that have a name.       *)
(* declared: whether reception reports are converted.                          *)
RtcpRows(packet) ==
    LET blocks == IF declared THEN [i \in 1..packet.count |-> "reception block"] ELSE <<>>
    IN CASE packet.kind = "sender"   -> <<"sender report">> \o blocks
         [] packet.kind = "receiver" -> IF declared THEN <<"receiver report">> \o blocks ELSE <<>>
         [] packet.kind = "names"    -> [i \in 1..packet.count |-> "canonical name"]
         [] OTHER                    -> <<>>

RtcpDatagram(r) ==
    /\ Plain
    /\ IF r.packets = Absent THEN PassOver("unselected")
       ELSE CarryEach(FlattenSeq([i \in DOMAIN r.packets |-> RtcpRows(r.packets[i])]))

RtcpEnd == Ending /\ Keeping /\ \E n \in DOMAIN fed : fed[n].packets # Absent

(* convert_rtps_data: a datagram is a sequence of submessages: [kind, writer,  *)
(* time].  A time counts for what follows it in its own datagram.              *)
TimeContext(submessages, n) ==
    LET times == {m \in 1..(n - 1) : submessages[m].kind = "time"}
    IN IF times = {} THEN "not reported" ELSE submessages[CHOOSE m \in times : \A k \in times : k <= m].time

RtpsDatagram(r) ==
    LET taken == SelectSeq([n \in DOMAIN r.submessages |-> n],
                           LAMBDA n : r.submessages[n].kind = "data" /\ r.submessages[n].writer = declared)
    IN /\ Plain /\ \A n \in DOMAIN r.submessages : r.submessages[n].kind # "unknown"
       /\ CarryEach([i \in DOMAIN taken |-> [at |-> taken[i], time |-> TimeContext(r.submessages, taken[i])]])

(* convert_pcapng_udp.qualify_stream: a block: [kind, time, whole].  declared: *)
(* [start, stop], a window of capture times, or Absent.                        *)
PcapngBlock(r) ==
    LET expected == CASE Here = 1 -> "section" [] Here = 2 -> "interface" [] OTHER -> "packet"
        inside == declared = Absent \/ (declared.start <= r.time /\ r.time < declared.stop)
    IN /\ r.kind = expected /\ Plain
       /\ \/ Here <= 2 /\ Keeping
          \/ /\ Here > 2 /\ r.whole
             /\ declared # Absent /\ Here > 3 => r.time >= Last(fed).time
             /\ IF inside THEN Carry([row |-> Here, packet |-> Here - 3, time |-> r.time]) ELSE PassOver("excluded")

-----------------------------------------------------------------------------
(* convert_imc_sensors.convert: a frame: [time, kind, valid, value], valid the *)
(* axes of a velocity that are.                                                *)
ImcSays(r) ==
    CASE r.kind = "velocity" -> IF r.valid = {} THEN "only withheld components" ELSE "reported"
      [] r.kind = "depth"    -> IF r.value < 0 THEN "missing" ELSE "reported"
      [] OTHER               -> "reported"

ImcFrame(r) ==
    /\ InTimeOrder(r) /\ Plain
    /\ \/ r.kind = "other" /\ PassOver("unsupported")
       \/ r.kind # "other" /\ Carry([row |-> Here, says |-> ImcSays(r)])

(* convert_path: a window of the frames of a file, and, when declared.source   *)
(* is given, of one sender; only its clock has to go forward then.             *)
OfSource(r) == declared.source = Absent \/ r.source = declared.source

ImcWindowFrame(r) ==
    LET inside == declared.start <= Len(fed) /\ Len(fed) < declared.stop
    IN /\ UNCHANGED keys
       /\ IF OfSource(r) THEN (held # Absent => r.time >= held) /\ Hold(r.time) ELSE UNCHANGED held
       /\ \/ ~OfSource(r) /\ PassOver("other source")
          \/ OfSource(r) /\ ~inside /\ PassOver("outside window")
          \/ OfSource(r) /\ inside /\ ~r.supported /\ PassOver("unsupported")
          \/ OfSource(r) /\ inside /\ r.supported /\ Carry([row |-> Here, index |-> Len(fed)])

ImcWindowEnd == EndCarried /\ declared.stop <= Len(fed)

(* convert_pcap: a datagram: [here, frames], the frames of its payload as      *)
(* whether they are converted; each row has the time of the capture.           *)
ImcDatagram(r) ==
    /\ Plain
    /\ \/ ~r.here /\ PassOver("unselected")
       \/ /\ r.here
          /\ CarryEach(SelectSeq([i \in DOMAIN r.frames |-> [frame |-> i, converted |-> r.frames[i]]],
                                 LAMBDA f : f.converted))

(* convert_node_report: a record: [selected, marked, values].  declared: [start*)
(* whether the start of the log is declared, units, the keys with a unit];     *)
(* without a declared start the records carry a mark of their type.            *)
NodeReport(r) ==
    /\ Plain
    /\ \/ ~r.selected /\ PassOver("unselected")
       \/ /\ r.selected /\ r.marked = ~declared.start
          /\ Carry([row |-> Here, canonical |-> r.values \cap declared.units, given |-> r.values])

(* convert_slog: a line: [kind, name, known, time, values].  The columns are   *)
(* listed first; a label line names the first known of them and keeps a place  *)
(* for the others, one more of them at a time.  declared: [dynamic, variable]. *)
(* held: [columns, known, time].                                               *)
ReadsValue(r) == \E c \in 1..held.known : held.columns[c] = declared.variable /\ r.values[c] # "NaN"

SlogLine(r) ==
    /\ UNCHANGED keys
    /\ \/ /\ r.kind = "column" /\ held.known = Absent
          /\ \A c \in DOMAIN held.columns : held.columns[c] # r.name
          /\ Hold([held EXCEPT !.columns = Append(@, r.name)]) /\ Keeping
       \/ /\ r.kind = "label" /\ held.columns # <<>> /\ r.known \in 0..Len(held.columns)
          /\ ~declared.dynamic => r.known = Len(held.columns)
          /\ held.known # Absent => r.known \in {held.known, held.known + 1}
          /\ Hold([held EXCEPT !.known = r.known]) /\ Keeping
       \/ /\ r.kind = "values" /\ held.known # Absent /\ Len(r.values) = Len(held.columns)
          /\ \A c \in DOMAIN r.values : c > held.known => r.values[c] = "NaN"
          /\ ~declared.dynamic => \E c \in DOMAIN held.columns : held.columns[c] = declared.variable
          /\ held.time # Absent => r.time >= held.time
          /\ Hold([held EXCEPT !.time = r.time])
          /\ Carry([row |-> Here, says |-> IF ReadsValue(r) THEN "normalized" ELSE "withheld"])

SlogEnd ==
    /\ EndCarried
    /\ declared.dynamic => /\ held.known = Len(held.columns)
                           /\ \E c \in DOMAIN held.columns : held.columns[c] = declared.variable

-----------------------------------------------------------------------------
(* Rows that tell of echo packets: each is in exactly one row.  A pair is a    *)
(* request with a later reply of its key that returns its data, and no other   *)
(* request has that key; a request is called unanswered only when no reply of  *)
(* its key comes after it.                                                     *)
TellOfEchoes(rows, packets) ==
    LET requests == {n \in DOMAIN packets : packets[n].kind = "request"}
        replies  == {n \in DOMAIN packets : packets[n].kind = "reply"}
    IN /\ \A n \in requests : Cardinality({i \in DOMAIN rows : rows[i].request = n}) = 1
       /\ \A n \in replies : Cardinality({i \in DOMAIN rows : rows[i].reply = n}) = 1
       /\ \A i \in DOMAIN rows : rows[i].status = "paired" =>
             /\ rows[i].request < rows[i].reply
             /\ packets[rows[i].request].key = packets[rows[i].reply].key
             /\ packets[rows[i].request].payload = packets[rows[i].reply].payload
             /\ \A n \in requests : packets[n].key = packets[rows[i].reply].key => n = rows[i].request
       /\ \A i \in DOMAIN rows : rows[i].status = "no reply in capture" =>
             \A n \in replies : packets[n].key = packets[rows[i].request].key => n < rows[i].request

(* In a converted capture every echo is in one row, with its partner if one    *)
(* can be told.                                                                *)
EchoesArePaired == converter = "icmp echo" /\ verdict = "converted" => TellOfEchoes(lines, fed)

(* The stream is the bytes of the sender in the order of their numbers, none   *)
(* missing and none twice, and the frames cover it without a gap.              *)
StreamIsGapless ==
    converter = "imc tcp" /\ verdict = "converted" =>
        LET opening == CHOOSE n \in DOMAIN fed : fed[n].flow = "selected" /\ fed[n].flag = "syn"
            at(n) == (fed[n].seq - fed[opening].seq - 1) % SequenceSpace
        IN /\ \A n \in DOMAIN fed : fed[n].flow = "selected" =>
                 \A k \in DOMAIN fed[n].data :
                    at(n) + k \in DOMAIN held.stream /\ held.stream[at(n) + k] = fed[n].data[k]
           /\ \A b \in DOMAIN held.stream : \E n \in DOMAIN fed : fed[n].flow = "selected" /\ at(n) < b /\ b <= at(n) + Len(fed[n].data)
           /\ lines[1].start = 0 /\ Last(lines).stop = Len(held.stream)
           /\ \A i \in DOMAIN lines :
                 /\ i > 1 => lines[i].start = lines[i - 1].stop
                 /\ \A b \in (lines[i].start + 1)..lines[i].stop :
                       \E n \in lines[i].packets : at(n) < b /\ b <= at(n) + Len(fed[n].data)
=============================================================================
