-------------------------- MODULE MCSavedTransport --------------------------
(* Saved RTP packets, saved RTP H.264 and saved CAN frames for TLC: three *)
(* independent readers, each run takes one of them.                       *)
EXTENDS RtpRecords, RtpH264, CanTransport

VARIABLE reader

RtpPacket(k, t, q, ts, d) == [key |-> k, type |-> t, seq |-> q, ts |-> ts, digest |-> d]

RtpSample ==
    {RtpPacket(1, 96, q, 0, "a") : q \in 0..7}
        \cup {RtpPacket(1, 96, 0, 0, "b"), RtpPacket(1, 96, 1, 3, "a"), RtpPacket(1, 96, 2, 6, "a"),
              RtpPacket(2, 96, 0, 0, "a"), RtpPacket(1, 97, 3, 0, "a"), RtpPacket(3, 96, 0, 0, "a")}

AvcPacket(s, t, q, ts, m, f, n) ==
    [source |-> s, type |-> t, seq |-> q, ts |-> ts, marker |-> m, form |-> f, nals |-> n]

AvcSample ==
    {AvcPacket(1, 96, q, ts, FALSE, s[1], s[2]) : q \in 0..2, ts \in {0, 2},
         s \in {<<"single", <<"SLICE">>>>, <<"stap", <<"SPS", "PPS">>>>, <<"end", <<"SLICE">>>>}}
        \cup {AvcPacket(1, 96, q, 0, FALSE, s[1], s[2]) : q \in 0..2,
                 s \in {<<"stap", <<"SPS", "SLICE">>>>, <<"start", <<"SLICE">>>>,
                        <<"middle", <<"SLICE">>>>, <<"end", <<"PPS">>>>}}
        \cup {AvcPacket(1, 96, q, 2, FALSE, "single", <<"SPS2">>) : q \in 0..2}
        \cup {AvcPacket(1, 96, q, ts, TRUE, "single", <<"SLICE">>) : q \in 0..2, ts \in {0, 5}}
        \cup {AvcPacket(s, 97, q, 0, FALSE, "bad", <<>>) : s \in {1, 2}, q \in 0..2}
        \cup {AvcPacket(1, 96, 0, 0, FALSE, "bad", <<>>)}

Frame(k, kind, n, m, t) == [key |-> k, kind |-> kind, n |-> n, m |-> m, time |-> t]

FrameSample == [p \in Protocols |->
    CASE p = "dronecan" -> {Frame(k, kind, 0, 0, t) : k \in {1, 2}, t \in {0, 3},
                                kind \in {"solo", "start", "more", "end"}}
                               \cup {Frame(3, "other", 0, 0, 0)}
      [] p = "bam" -> {Frame(k, "announce", 2, 0, 0) : k \in {1, 2}}
                          \cup {Frame(k, "data", n, 0, 0) : k \in {1, 2}, n \in 1..2}
                          \cup {Frame(1, "single", 0, 0, 0), Frame(1, "other", 0, 0, 0),
                                Frame(1, "announce", 3, 0, 0), Frame(1, "data", 3, 0, 0)}
      [] p = "rts" -> {Frame(1, "rts", 2, 1, 0), Frame(1, "rts", 1, 2, 0), Frame(1, "other", 0, 0, 0),
                       Frame(1, "abort", 0, 0, 0), Frame(1, "ack", 2, 0, 0), Frame(1, "ack", 1, 0, 0)}
                          \cup {Frame(1, "cts", n, m, 0) : n \in 1..2, m \in 1..2}
                          \cup {Frame(1, "data", n, 0, 0) : n \in 1..2}
      [] OTHER -> {Frame(k, "data", n, 0, 0) : k \in {1, 2}, n \in 0..3} \cup {Frame(3, "other", 0, 0, 0)}]

Init == /\ RtpInit /\ AvcInit /\ CanInit
        /\ reader \in {"rtp", "h264", "can"}
        /\ reader # "rtp" => rtpType = None
        /\ reader # "h264" => avcInitial
        /\ reader # "can" => canProtocol = "bam"

Next == /\ \/ reader = "rtp" /\ RtpNext /\ UNCHANGED <<avcVars, canVars>>
           \/ reader = "h264" /\ AvcNext /\ UNCHANGED <<rtpVars, canVars>>
           \/ reader = "can" /\ CanNext /\ UNCHANGED <<rtpVars, avcVars>>
        /\ UNCHANGED reader

Spec == Init /\ [][Next]_<<reader, rtpVars, avcVars, canVars>>
=============================================================================
