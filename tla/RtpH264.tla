------------------------------ MODULE RtpH264 ------------------------------
(***************************************************************************)
(* Offline access-unit assembly from saved RTP packets                     *)
(* (scripts/convert_rtp_h264_stream.py).  One source, consecutive sequence *)
(* numbers, NAL units carried whole, aggregated or as an FU-A chain; an    *)
(* access unit ends where the timestamp changes.  Anything ambiguous       *)
(* refuses the whole capture.                                              *)
(*                                                                         *)
(* A packet is [source, type, seq, ts, marker, form, nals]: form is        *)
(* "single", "stap", "start", "middle", "end" (the FU-A bits) or "bad"     *)
(* (every payload the parser rejects: forbidden, reserved or truncated).   *)
(* A NAL is one of NalKinds; "SPS2" is a parameter set whose bytes differ  *)
(* from the saved description's.  Byte bounds are left out.                *)
(***************************************************************************)
EXTENDS Integers, Sequences, SequencesExt

CONSTANTS H264SeqMod, H264TsMod, MaxForwardTicks,
          H264Packets,       \* packets a capture may hold
          H264Type,          \* the declared payload type
          MaxH264Packets     \* bound: packets of a capture

(* Header fields of fixed width; a payload that parses carries a NAL unit.       *)
ASSUME H264Windows ==
    /\ {H264SeqMod, H264TsMod} \subseteq Nat \ {0} /\ MaxForwardTicks \in Nat
    /\ \A p \in H264Packets : /\ p.seq \in 0..(H264SeqMod - 1) /\ p.ts \in 0..(H264TsMod - 1)
                              /\ p.marker \in BOOLEAN /\ p.nals \in Seq(STRING)
                              /\ p.form # "bad" => p.nals # <<>>

NoUnit == [ts |-> -1, packets |-> <<>>, nals |-> <<>>, marked |-> FALSE]
NoChain == <<>>

VARIABLES avcInitial,  \* the caller pairs a saved description (SPS and PPS known)
          avcCapture,  \* packets read so far
          avcUnit,     \* current: the access unit under assembly, or NoUnit
          avcChain,    \* fragments: positions of the open FU-A chain
          avcUnits,    \* units: closed access units
          avcVerdict   \* "reading", "refused" or "rebuilt"

avcVars == <<avcInitial, avcCapture, avcUnit, avcChain, avcUnits, avcVerdict>>

AvcInit ==
    /\ avcInitial \in BOOLEAN /\ avcCapture = <<>> /\ avcUnit = NoUnit
    /\ avcChain = NoChain /\ avcUnits = <<>> /\ avcVerdict = "reading"

Position == Len(avcCapture) + 1

(* The source is bound by the first selected packet, whatever its payload type, *)
(* and its numbers must be consecutive over every payload type.                 *)
MutantContinues(p) ==  \* only looks at the packets of the declared type
    LET kept == SelectSeq(avcCapture, LAMBDA q : q.type = H264Type)
    IN p.type = H264Type /\ kept # <<>> => /\ p.source = Last(kept).source
                                            /\ p.seq > Last(kept).seq

Continues(p) ==
    avcCapture # <<>> => /\ p.source = Last(avcCapture).source
                         /\ p.seq = (Last(avcCapture).seq + 1) % H264SeqMod

(* close *)
Closable(unit) ==
    /\ avcChain = NoChain
    /\ unit.nals # <<>>
    /\ avcInitial => \A i \in DOMAIN unit.nals : unit.nals[i].kind # "SPS2"

Closes(p) == avcUnit # NoUnit /\ p.ts # avcUnit.ts

(* The unit a packet joins: the open one, or a new one at a new timestamp. *)
Joined(p) == IF Closes(p) THEN NoUnit ELSE avcUnit

Fits(p) == p.type = H264Type /\ Continues(p) /\ (Closes(p) => Closable(avcUnit)) /\ ~Joined(p).marked

(* extend: same NAL header, same timestamp, and the next number. *)
Extends(p) ==
    /\ avcChain # NoChain
    /\ avcCapture[avcChain[1]].nals = p.nals
    /\ avcCapture[Last(avcChain)].ts = p.ts
    /\ p.seq = (avcCapture[Last(avcChain)].seq + 1) % H264SeqMod

Admissible(p) ==
    \/ p.type # H264Type /\ Continues(p)
    \/ Fits(p) /\ \/ p.form \in {"single", "stap", "start"} /\ avcChain = NoChain
                  \/ p.form \in {"middle", "end"} /\ Extends(p)

Take(p, nals, chain) ==
    /\ avcVerdict = "reading" /\ Position <= MaxH264Packets
    /\ avcCapture' = Append(avcCapture, p)
    /\ avcUnits' = IF Closes(p) THEN Append(avcUnits, avcUnit) ELSE avcUnits
    /\ avcUnit' = [ts |-> p.ts, packets |-> Append(Joined(p).packets, Position),
                   nals |-> Joined(p).nals \o nals, marked |-> p.marker]
    /\ avcChain' = chain
    /\ UNCHANGED <<avcInitial, avcVerdict>>

Whole(kind, positions) == [kind |-> kind, from |-> positions]

Unsupported(p) ==
    /\ avcVerdict = "reading" /\ Position <= MaxH264Packets
    /\ p.type # H264Type /\ Continues(p)
    /\ avcCapture' = Append(avcCapture, p)
    /\ UNCHANGED <<avcInitial, avcUnit, avcChain, avcUnits, avcVerdict>>

Complete(p) ==  \* a single NAL unit or a STAP-A of several
    /\ p.form \in {"single", "stap"} /\ Fits(p) /\ avcChain = NoChain
    /\ Take(p, [i \in DOMAIN p.nals |-> Whole(p.nals[i], <<Position>>)], NoChain)

StartChain(p) ==
    /\ p.form = "start" /\ Fits(p) /\ avcChain = NoChain
    /\ Take(p, <<>>, <<Position>>)

ExtendChain(p) ==
    /\ p.form = "middle" /\ Fits(p) /\ Extends(p)
    /\ Take(p, <<>>, Append(avcChain, Position))

EndChain(p) ==
    /\ p.form = "end" /\ Fits(p) /\ Extends(p)
    /\ Take(p, <<Whole(p.nals[1], Append(avcChain, Position))>>, NoChain)

RefuseH264(p) ==
    /\ avcVerdict = "reading" /\ Position <= MaxH264Packets
    /\ ~Admissible(p)
    /\ avcVerdict' = "refused"
    /\ UNCHANGED <<avcInitial, avcCapture, avcUnit, avcChain, avcUnits>>

(* The stream: a NAL unit is at <<access unit, place in it>>. *)
Places(units)   == UNION {{m} \X DOMAIN units[m].nals : m \in DOMAIN units}
Kind(units, a)  == units[a[1]].nals[a[2]].kind
Precedes(a, b)  == a[1] < b[1] \/ (a[1] = b[1] /\ a[2] < b[2])
Slices(units)   == {a \in Places(units) : Kind(units, a) = "SLICE"}
Kinds(units, S) == {Kind(units, a) : a \in S}

Sets(kinds) == avcInitial \/ ("PPS" \in kinds /\ kinds \cap {"SPS", "SPS2"} # {})

(* _prerequisites: the parameter sets in front of the first coded slice. *)
Decodable(units) ==
    LET before == {a \in Places(units) : \A b \in Slices(units) : Precedes(a, b)}
    IN Slices(units) # {} /\ Sets(Kinds(units, before))

EndOfH264 ==
    LET units == IF avcUnit = NoUnit THEN avcUnits ELSE Append(avcUnits, avcUnit)
        whole == avcChain = NoChain /\ (avcUnit # NoUnit => Closable(avcUnit))
    IN /\ avcVerdict = "reading"
       /\ avcVerdict' = IF whole /\ Decodable(units) THEN "rebuilt" ELSE "refused"
       /\ avcUnits' = IF avcVerdict' = "rebuilt" THEN units ELSE avcUnits
       /\ avcUnit' = IF avcVerdict' = "rebuilt" THEN NoUnit ELSE avcUnit
       /\ UNCHANGED <<avcInitial, avcCapture, avcChain>>

AvcNext ==
    \/ \E p \in H264Packets : \/ Unsupported(p) \/ Complete(p) \/ StartChain(p)
                              \/ ExtendChain(p) \/ EndChain(p) \/ RefuseH264(p)
    \/ EndOfH264

AvcSpec == AvcInit /\ [][AvcNext]_avcVars

(* _timing: elapsed ticks per unit, -1 from the first step that is not a bounded *)
(* forward one.                                                                   *)
Forward(units, i) == (units[i].ts - units[i - 1].ts) % H264TsMod

Elapsed(units) ==
    LET sum[i \in DOMAIN units] ==
            IF i = 1 THEN 0
            ELSE IF sum[i - 1] < 0 \/ Forward(units, i) > MaxForwardTicks THEN -1
            ELSE sum[i - 1] + Forward(units, i)
    IN sum

-----------------------------------------------------------------------------

(* A NAL unit of an access unit u, as the packets of the capture c carry it:  *)
(* a fragmented one is a start..end chain of packets that follow each other   *)
(* up to whole wraps of the sequence space, with no other packet of the       *)
(* declared type between them.                                                *)
WhollyFrom(c, u, nal) ==
    /\ nal.from # <<>> /\ ToSet(nal.from) \subseteq ToSet(u.packets)
    /\ \A i \in ToSet(nal.from) : nal.kind \in ToSet(c[i].nals)
    /\ Len(nal.from) > 1 =>
          /\ c[nal.from[1]].form = "start" /\ c[Last(nal.from)].form = "end"
          /\ \A i \in nal.from[1]..Last(nal.from) :
                c[i].type = H264Type => i \in ToSet(nal.from)
          /\ \A n \in 1..(Len(nal.from) - 1) : \E w \in 0..Len(c) :
                nal.from[n + 1] = nal.from[n] + 1 + w * H264SeqMod

(* Packets in capture order under one timestamp, the marker only on the last. *)
OneInstant(c, u) ==
    \A n \in DOMAIN u.packets :
        /\ \A m \in 1..(n - 1) : u.packets[m] < u.packets[n]
        /\ c[u.packets[n]].ts = u.ts
        /\ c[u.packets[n]].marker => n = Len(u.packets)

(* Nothing is spliced (RFC 6184 assembly in depacketize): the rebuilt units   *)
(* hold every packet of the declared type once and in capture order, and the  *)
(* capture has no gap in the numbers and one source.                          *)
NothingIsSpliced ==
    avcVerdict = "rebuilt" =>
        /\ \A i \in DOMAIN avcCapture :
              avcCapture[i].type = H264Type
                  <=> \E m \in DOMAIN avcUnits : i \in ToSet(avcUnits[m].packets)
        /\ \A m, n \in DOMAIN avcUnits : m < n =>
              \A i \in ToSet(avcUnits[m].packets), j \in ToSet(avcUnits[n].packets) : i < j
        /\ \A m \in DOMAIN avcUnits :
              /\ OneInstant(avcCapture, avcUnits[m])
              /\ \A nal \in ToSet(avcUnits[m].nals) : WhollyFrom(avcCapture, avcUnits[m], nal)
        /\ \A i \in 1..(Len(avcCapture) - 1) :
              /\ avcCapture[i + 1].seq = (avcCapture[i].seq + 1) % H264SeqMod
              /\ avcCapture[i + 1].source = avcCapture[i].source

(* A rebuilt stream starts decodable ("both SPS and PPS must precede the first *)
(* coded slice"), counting the sets prefixed from the saved description, and    *)
(* never carries a second SPS against that description.                        *)
RebuiltIsDecodable ==
    avcVerdict = "rebuilt" =>
        /\ \E s \in Slices(avcUnits) :
              LET before == {a \in Places(avcUnits) : Precedes(a, s)}
              IN before \cap Slices(avcUnits) = {} /\ Sets(Kinds(avcUnits, before))
        /\ avcInitial => "SPS2" \notin Kinds(avcUnits, Places(avcUnits))

(* The elapsed axis never resumes after a step nobody can size, and an equal   *)
(* raw stamp one wrap later is not read as the same instant (_timing).         *)
AxisNeverResumes ==
    LET axis == Elapsed(avcUnits) IN
    \A i, j \in DOMAIN avcUnits : i < j =>
        /\ axis[j] >= 0 => axis[i] >= 0 /\ axis[i] < axis[j]
        /\ axis[j] >= 0 => (axis[j] - axis[i]) % H264TsMod
                              = (avcUnits[j].ts - avcUnits[i].ts) % H264TsMod

(* What depacketize promises of the stream it rebuilds, together.              *)
RebuiltIsFaithful == NothingIsSpliced /\ RebuiltIsDecodable /\ AxisNeverResumes
=============================================================================
