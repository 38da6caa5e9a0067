----------------------------- MODULE SavedBags -----------------------------
(***************************************************************************)
(* Converters of ROS bags: the messages of an interval and of some topics, *)
(* service events put together into transactions, the checks of a file's   *)
(* own index before it is read, occupancy maps as runs of equal cells.     *)
(* What the reader of the bag does (rosbags) is external and modelled from *)
(* how convert() uses it.                                                  *)
(***************************************************************************)
EXTENDS SavedLines

(* convert_rosbag_observations.convert.  declared: [storage, start, stop,      *)
(* topics, total]: the storage of the bag, the interval or Absent, the topics, *)
(* and how many messages the metadata says those have; a message: [topic, time,*)
(* chunk, kind, call]: the last time in its chunk, and kind "quantities",      *)
(* "service" or "unsupported".  held: the service events kept for the end.     *)
Windowed == declared.start # Absent

StorageStart ==  \* one less for MCAP, whose reader leaves out chunks that end at its start
    IF declared.storage # "mcap" \/ declared.start = Absent THEN declared.start
    ELSE IF declared.start = 0 THEN Absent ELSE declared.start - 1

YieldedByReader(r) ==
    /\ r.topic \in declared.topics
    /\ declared.stop # Absent => r.time < declared.stop
    /\ StorageStart # Absent => r.time >= StorageStart
                                /\ (declared.storage = "mcap" => r.chunk > StorageStart)

MutantBeforeWindow(r) == Windowed /\ r.time <= declared.start  \* the start filtered with what precedes it

BeforeWindow(r) == Windowed /\ declared.storage = "mcap" /\ r.time < declared.start

BagMessage(r) ==
    /\ UNCHANGED keys
    /\ \/ ~YieldedByReader(r) /\ PassOver("not read") /\ UNCHANGED held
       \/ YieldedByReader(r) /\ BeforeWindow(r) /\ PassOver("before window") /\ UNCHANGED held
       \/ /\ YieldedByReader(r) /\ ~BeforeWindow(r)
          /\ \/ r.kind = "unsupported" /\ PassOver("unsupported") /\ UNCHANGED held
             \/ r.kind = "quantities" /\ Carry([row |-> Here, says |-> "quantities"]) /\ UNCHANGED held
             \/ r.kind = "service" /\ Hold(Append(held, Here)) /\ Keeping

(* service_transaction_rows: the events of one call, by the order they were    *)
(* saved; a call: [id, event, request, response], event 0 to 3, or another one;*)
(* a request or response is Absent or the names or values in it.               *)
OfSide(rows, side) == {fed[n].call[side] : n \in rows} \ {Absent}

Contradictory(call) ==
    IF call.event < 2 THEN call.response # Absent ELSE call.event < 4 /\ call.request # Absent

TransactionStatus(rows) ==
    LET asked    == OfSide({n \in rows : fed[n].call.event < 2}, "request")
        answered == OfSide({n \in rows : fed[n].call.event >= 2}, "response")
        regular  == \A n \in rows : fed[n].call.event <= 3 /\ ~Contradictory(fed[n].call)
        one      == Cardinality(asked) = 1 /\ Cardinality(answered) = 1
    IN CASE \E n \in rows : fed[n].call.event > 3 -> "unknown event kind"
         [] (\A n \in rows : fed[n].call.event <= 3) /\ ~regular -> "contradictory event"
         [] regular /\ asked \cup answered = {} -> "metadata only"
         [] regular /\ (Cardinality(asked) > 1 \/ Cardinality(answered) > 1) -> "duplicate conflict"
         [] regular /\ Cardinality(asked) = 1 /\ answered = {} -> "request only"
         [] regular /\ asked = {} /\ Cardinality(answered) = 1 -> "response only"
         [] OTHER -> IF Len(CHOOSE a \in asked : TRUE) # Len(CHOOSE a \in answered : TRUE) THEN "count mismatch"
                     ELSE IF asked = {<<>>} THEN "matched, empty" ELSE "matched"

Transactions ==
    LET id(n)    == <<fed[n].topic, fed[n].call.id>>
        events   == {held[i] : i \in DOMAIN held}
        rows(n)  == {m \in events : id(m) = id(n)}
        firsts   == Ascending({n \in events : \A m \in rows(n) : n <= m})
    IN [i \in DOMAIN firsts |-> [row |-> firsts[i], says |-> TransactionStatus(rows(firsts[i]))]]

BagEnd ==
    LET read == Len(lines) + Len(held) + Cardinality({i \in DOMAIN passed : passed[i].why = "unsupported"})
        indexed == Cardinality({n \in DOMAIN fed : /\ fed[n].topic \in declared.topics
                                                   /\ declared.start <= fed[n].time /\ fed[n].time < declared.stop})
    IN /\ Ending /\ UNCHANGED passed
       /\ IF Windowed THEN read <= declared.total ELSE read = declared.total
       /\ Windowed /\ declared.storage = "mcap" => read = indexed
       /\ Len(lines) + Len(held) > 0
       /\ lines' = lines \o Transactions

-----------------------------------------------------------------------------
(* mcap_file_preflight: a chunk of the summary: [start, stop, at, size, stamps,*)
(* same], its stamps as its index has them, same whether its own header says   *)
(* the same.  declared: [start, stop].  held: selected messages of the index.  *)
IndexedChunk(r) ==
    /\ r.start <= r.stop /\ r.same /\ KeepKey(r.at)
    /\ \/ (r.stop < declared.start \/ r.start >= declared.stop) /\ PassOver("outside") /\ UNCHANGED held
       \/ /\ r.stop >= declared.start /\ r.start < declared.stop
          /\ \A i \in DOMAIN r.stamps : r.start <= r.stamps[i] /\ r.stamps[i] <= r.stop
          /\ Carry([row |-> Here, size |-> r.size])
          /\ Hold(held + Len(SelectSeq(r.stamps, LAMBDA t : declared.start <= t /\ t < declared.stop)))

IndexEnd == Ending /\ Keeping /\ fed # <<>>

(* ros1_preflight: a chunk, in the order of their places: [at, size, counts,   *)
(* index, start, stop], counts and index how many messages of each connection. *)
Ros1Chunk(r) ==
    /\ Plain
    /\ r.start <= r.stop /\ (\A c \in DOMAIN r.counts : r.counts[c] > 0)
    /\ DOMAIN r.counts \subseteq declared
    /\ fed # <<>> => r.at >= Last(fed).at + Last(fed).size
    /\ r.index = r.counts
    /\ Carry([row |-> Here, size |-> r.size])

(* convert_metadata: a topic or a file: [kind, name, count].  declared: the    *)
(* count of the whole bag.  held: the sums over the topics and over the files. *)
BagEntry(r) ==
    /\ KeepKey(<<r.kind, r.name>>)
    /\ Carry([row |-> Here, kind |-> r.kind])
    /\ Hold([held EXCEPT ![r.kind] = @ + r.count])

BagEntryEnd == Ending /\ Keeping /\ held.topic = declared /\ held.file = declared

(* convert_rosbag_zstd_window: a member: [name, declared, size], its name as   *)
(* it is compared, without case.                                               *)
ZstdMember(r) ==
    /\ KeepKey(r.name) /\ UNCHANGED held
    /\ r.declared # Absent => r.declared = r.size
    /\ Carry([row |-> Here, size |-> r.size])

(* convert_ros_service_sqlite.inspect_db: a row: [id, topic, time].  declared: *)
(* the count of each topic in the metadata; the selected topic is 1.           *)
SqliteMessage(r) ==
    /\ InTimeOrder(r) /\ (fed # <<>> => r.id > Last(fed).id) /\ r.topic \in DOMAIN declared
    /\ Plain
    /\ IF r.topic = 1 THEN Carry([row |-> Here, derived |-> Len(lines)]) ELSE PassOver("other topic")

SqliteEnd ==
    /\ EndCarried
    /\ \A t \in DOMAIN declared : declared[t] = Cardinality({n \in DOMAIN fed : fed[n].topic = t})

-----------------------------------------------------------------------------
(* convert_map_metadata with its image, and iter_occupancy_runs.  declared:    *)
(* [width, samples, start, stop], the samples from the top row down; the cells *)
(* are numbered from the bottom row up.  held: the run that is going on, none  *)
(* before the first cell.                                                      *)
CellValue(index) ==
    LET height == Len(declared.samples) \div declared.width
        row == index \div declared.width
    IN declared.samples[(height - 1 - row) * declared.width + (index % declared.width) + 1]

RunGoesOn(index) == held # <<>> /\ held[1].value = CellValue(index)

MapCell(r) ==
    LET index == declared.start + Len(fed)
    IN /\ index < declared.stop /\ UNCHANGED <<keys, passed>>
       /\ IF RunGoesOn(index)
          THEN /\ Hold(<<[start |-> held[1].start, length |-> held[1].length + 1, value |-> held[1].value]>>)
               /\ UNCHANGED lines
          ELSE /\ lines' = lines \o held
               /\ Hold(<<[start |-> index, length |-> 1, value |-> CellValue(index)]>>)

MapEnd ==
    /\ Ending /\ Len(fed) = declared.stop - declared.start /\ UNCHANGED passed
    /\ lines' = lines \o held

-----------------------------------------------------------------------------
(* Every message of the interval and the topics is in the output or counted as *)
(* one whose type is not converted, and no message from outside it is in it.   *)
WindowIsComplete ==
    converter = "rosbag" /\ verdict = "converted" =>
        LET selected == {n \in DOMAIN fed : /\ fed[n].topic \in declared.topics
                                            /\ declared.start = Absent \/ (declared.start <= fed[n].time
                                                                           /\ fed[n].time < declared.stop)}
            calls == {n \in selected : fed[n].kind = "service"}
            of(kind) == {n \in selected : fed[n].kind = kind}
            id(n) == <<fed[n].topic, fed[n].call.id>>
        IN /\ {lines[i].row : i \in {k \in DOMAIN lines : lines[k].says = "quantities"}} = of("quantities")
           /\ {passed[i].row : i \in {k \in DOMAIN passed : passed[k].why = "unsupported"}} = of("unsupported")
           /\ {id(lines[i].row) : i \in {k \in DOMAIN lines : lines[k].says # "quantities"}} = {id(n) : n \in calls}

(* The runs give back every selected cell of the map exactly once, and no two  *)
(* runs that touch have the same value.                                        *)
RunsCoverTheMap ==
    converter = "occupancy map" /\ verdict = "converted" =>
        /\ \A index \in declared.start..(declared.stop - 1) :
              Cardinality({i \in DOMAIN lines : /\ lines[i].start <= index /\ index < lines[i].start + lines[i].length
                                                /\ lines[i].value = CellValue(index)}) = 1
        /\ \A i \in DOMAIN lines : i > 1 => lines[i].value # lines[i - 1].value
=============================================================================
