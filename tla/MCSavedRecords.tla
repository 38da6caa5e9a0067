---------------------------- MODULE MCSavedRecords ---------------------------
(***************************************************************************)
(* A small instance of the converters of saved records: one converter per  *)
(* behaviour, over files of at most RecordBound records.  The declarations *)
(* and records are the few that tell the conditions of each apart.         *)
(***************************************************************************)
EXTENDS SavedConversions

Stamped(received, source) == [received |-> received, source |-> source]

(* Service calls of a bag, and the bags themselves. *)
Call == [id |-> 0, event |-> 0, request |-> Absent, response |-> Absent]

Calls ==
    [id : {1}, event : {0, 2, 9}, request : {Absent, <<1>>}, response : {Absent}]
    \cup [id : {1}, event : {1, 3}, request : {Absent}, response : {Absent, <<>>, <<1>>, <<2>>}]
    \cup [id : {2}, event : {0}, request : {<<>>}, response : {Absent}]
    \cup [id : {2}, event : {3}, request : {Absent}, response : {<<>>}]

Bag(storage, start, stop, topics, total) ==
    [storage |-> storage, start |-> start, stop |-> stop, topics |-> topics, total |-> total]

-----------------------------------------------------------------------------
(* SavedHosts. *)
HostsDeclared ==
    ("k8s audit events" :> [clock : {"received", "source"}, list : BOOLEAN]) @@
    ("journal storage errors" :> [clock : {"received", "source"}]) @@
    ("journal power thermal" :> [clock : {"received"}, ups : BOOLEAN]) @@
    ("oauth rejection" :>
        [role : {"token", "resource"}, grant : {Absent, "code"}, entry : {1, 2}]) @@
    ("mqtt" :> {[topic |-> "t"]}) @@
    ("mqtt dock" :> {[topic |-> "t"]}) @@
    ("mqtt packets" :> [selected : {{1}, {1, 2}, {2, 3}}, window : BOOLEAN]) @@
    ("blueos resources" :> {Absent}) @@
    ("storage state" :> {Absent}) @@
    ("tensorrt layers" :> [changed : BOOLEAN, bindings : 0..2]) @@
    ("drm connectors" :> {Absent}) @@
    ("link cues" :> {{}, {"rssi", "lq"}}) @@
    ("vlm response" :> {Absent})

HostsRecords ==
    ("k8s audit events" :>
        [type : {"own", "other", Absent}, id : {"a", "b"}, stage : {"RequestReceived", "Odd"},
         times : {Stamped(1, 2), Stamped(3, Absent)}]) @@
    ("journal storage errors" :>
        [cursor : {Absent, "c", "d"}, errno : {Absent, "EIO", "E2"}, truncatedCore : BOOLEAN,
         times : {Stamped(1, 2), Stamped(3, Absent)}]) @@
    ("journal power thermal" :>
        [message : {Absent, "unreadable", "other", "on battery", "undervoltage"},
         transport : {"kernel", "stdout"}, comm : {"upsmon", "x"}, times : {Stamped(1, 2)}]) @@
    ("oauth rejection" :>
        [status : {200, 400}, body : {Absent, "invalid_grant"},
         params : {<<>>, <<"invalid_token">>, <<"invalid_grant">>, <<"odd">>, <<"a", "b">>}]) @@
    ("mqtt" :>
        [topic : {"t", "u"}, time : 0..2, qos : 0..1, mid : 0..1,
         parts : {<<>>, <<"x">>, <<"x", "y">>}]) @@
    ("mqtt dock" :>
        [topic : {"t", "u"}, time : 0..2, mode : {Absent, "idle"}, batteries : BOOLEAN]) @@
    ("mqtt packets" :> [qos : 0..1, dup : BOOLEAN, mid : 0..1]) @@
    ("blueos resources" :>
        [kind : {"memory"}, total : {Absent, 0, 2}, used : {Absent, 0, 1}] \cup
        {[kind |-> "cpu", total |-> Absent, used |-> Absent]}) @@
    ("storage state" :>
        [time : 0..2, mounts : {Absent}, passed : {Absent, TRUE, FALSE}, bits : {{}, {1}}] \cup
        [time : 0..1, mounts : {<<>>, <<{"ro"}, {}>>, <<{"ro", "rw"}>>}, passed : {Absent},
         bits : {{}}]) @@
    ("tensorrt layers" :> [inputs : 0..2, outputs : 0..1, constants : 0..1]) @@
    ("drm connectors" :>
        [node : {"n", "m"}, id : 1..2, properties : {Absent, "others", "link-status"},
         value : {0, 2}, raw : {0, 2}, labels : {<<"Good", "Bad">>, <<"Bad">>}]) @@
    ("link cues" :> {{}, {"rssi"}, {"rssi", "lq"}, {"x"}}) @@
    ("vlm response" :>
        [kind : {"message", "reasoning"}, role : {"assistant", "user"},
         parts : {<<>>, <<"text">>, <<"text", "refusal">>}])

-----------------------------------------------------------------------------
(* SavedRovers. *)
RoversDeclared ==
    ("ardupilot battery" :> {"px4", "ardupilot"}) @@
    ("json states" :> [actions : BOOLEAN, errors : BOOLEAN, repeats : BOOLEAN]) @@
    ("vda states" :> {Absent}) @@
    ("rmf fleet" :> {Absent}) @@
    ("tegrastats" :> {Absent}) @@
    ("ardupilot mode" :> [record : {"mode", "ver"}, family : {"Copter"}, version : {Absent, 1}]) @@
    ("ardupilot safety" :> BOOLEAN) @@
    ("ardupilot controller" :> {Absent}) @@
    ("imu batch" :> {Absent}) @@
    ("ardusub session" :> {Absent}) @@
    ("ardusub window" :> [start : {2, 3}, stop : {4}, build : {1, 2}, anchor : {Absent, 2, 4}])

RoversRecords ==
    ("ardupilot battery" :>
        [time : 0..1, volt : 0..1, current : {-1, 2}, remaining : {-1, 1}] \cup
        [time : {1}, volt : {2}, current : {Absent}, remaining : {255}]) @@
    ("json states" :> [time : 0..1, values : 1..2, actions : {0, 2}, errors : {0, 1}]) @@
    ("vda states" :>
        [time : 0..1, old : BOOLEAN, agvPosition : BOOLEAN, mobilePosition : BOOLEAN,
         localized : BOOLEAN, score : {Absent, 0}, actions : {<<>>, <<"RUNNING", "RETRIABLE">>}]) @@
    ("rmf fleet" :> [time : 0..1, robots : {Absent, <<>>, <<Absent, 1>>}]) @@
    ("tegrastats" :>
        [kind : {"other", "CPU"}, name : {Absent}, used : {0}, total : {0}, parts : {1, 2}] \cup
        [kind : {"RAM"}, name : {Absent}, used : {1, 2}, total : {0, 1}, parts : {1}] \cup
        [kind : {"VDD"}, name : {"a", "b"}, used : {0}, total : {0}, parts : {1}]) @@
    ("ardupilot mode" :>
        [time : 0..1, mode : {3}, alias : {3, 4}, numbers : {1}, logged : {1, 2},
         family : {"Copter"}, custom : BOOLEAN] \cup
        [time : {1}, mode : {3}, alias : {3}, numbers : {1, 2}, logged : {2},
         family : {"unknown", "Copter", "Rover"}, custom : {FALSE}]) @@
    ("ardupilot safety" :> [reason : {1, 4, 25, 99}]) @@
    ("ardupilot controller" :>
        [kind : {"ERR", "GPS"}, time : 0..2, seq : {Absent}, length : {"short"},
         caller : {FALSE}, words : {<<>>}] \cup
        [kind : {"WDG"}, time : {1}, seq : {Absent, 1}, length : {"short", "cut", "long"},
         caller : BOOLEAN, words : UNION {[1..n -> BOOLEAN] : n \in 1..4}]) @@
    ("imu batch" :>
        [kind : {"ISBH"}, time : {0}, batch : {1, 2}, seq : {0}, count : {1, 2}] \cup
        [kind : {"ISBD"}, time : {0}, batch : {1, 2}, seq : {0, 1}, count : {0}] \cup
        [kind : {"other"}, time : {0}, batch : {0}, seq : {0}, count : {0}]) @@
    ("ardusub session" :> [kind : {"CTUN", "MODE", "GPS"}, time : 0..2]) @@
    ("ardusub window" :>
        [kind : {"CTUN", "MODE"}, time : 0..1] \cup [kind : {"MSG"}, time : {0}])

-----------------------------------------------------------------------------
(* SavedFlight. *)
FlightDeclared ==
    ("vertical reports" :>
        [underwater : {TRUE}, anchor : {Absent, 1..1}] \cup
        [underwater : {FALSE}, anchor : {Absent}]) @@
    ("motor output" :> {[low |-> 1, high |-> 2]}) @@
    ("ardupilot records" :> [selected : {{"GPS"}}, start : {1, 2}, stop : {3}]) @@
    ("ardupilot report" :> {"MODE"}) @@
    ("dataflash text" :> {Absent}) @@
    ("rover bundle" :> {Absent, "surface", "ground", "air"}) @@
    ("quadplane context" :> {Absent})

FlightRecords ==
    ("vertical reports" :>
        [kind : {"CTUN", "GPS"}, time : 0..1, firmware : {Absent}] \cup
        [kind : {"MSG"}, time : {0}, firmware : {Absent, "pinned", "foreign"}]) @@
    ("motor output" :> [time : 0..1, demands : {<<1>>, <<0, 3>>}]) @@
    ("ardupilot records" :> [name : {"GPS", "ATT"}, schema : 1..2]) @@
    ("ardupilot report" :> [kind : {"MODE", "ARM"}, fields : {{1}, {1, 2}}]) @@
    ("dataflash text" :>
        [kind : {"FMT"}, name : {"A", "B"}, id : 1..2, columns : {1}, text : BOOLEAN,
         cells : {0}] \cup
        [kind : {"record"}, name : {"A", "B"}, id : {0}, columns : {0}, text : {FALSE},
         cells : 1..2]) @@
    ("rover bundle" :>
        [kind : {"PARM"}, frame : 1..2, family : {Absent}, version : {Absent}] \cup
        [kind : {"VER", "MSG"}, frame : {0}, family : {"ArduRover", "ArduCopter", Absent},
         version : {"4.5.5", "4.5.6"}] \cup
        [kind : {"GPS"}, frame : {0}, family : {Absent}, version : {Absent}]) @@
    ("quadplane context" :>
        [kind : {"PARM"}, time : 0..1, value : 0..1] \cup
        [kind : {"MODE", "GPS"}, time : 1..2, value : {Absent}])

-----------------------------------------------------------------------------
(* SavedMissions. *)
MissionsDeclared ==
    ("mavlink statustext" :> {Absent}) @@
    ("mavlink ulog" :> {Absent, 1}) @@
    ("farmng eventlog" :>
        {[start |-> 1, stop |-> 99, torn |-> TRUE, part |-> 2],
         [start |-> 2, stop |-> 3, torn |-> FALSE, part |-> 2]}) @@
    ("gcs tlog" :> BOOLEAN) @@
    ("mission plan" :>
        [geometry : {TRUE}, fence : {<<3>>}, rally : {1}] \cup
        [geometry : {FALSE}, fence : {Absent}, rally : {Absent}])

MissionsRecords ==
    ("mavlink statustext" :>
        [kind : {"other"}, time : {0}, key : {1}, id : {1}, seq : {0}, severity : {1},
         nul : {FALSE}] \cup
        [kind : {"text"}, time : {0}, key : {1}, id : {1}, seq : 0..2, severity : 1..2,
         nul : BOOLEAN] \cup
        [kind : {"text"}, time : {1}, key : {2}, id : {0, 1}, seq : {0}, severity : {1},
         nul : {FALSE}]) @@
    ("mavlink ulog" :>
        [kind : {"log"}, sender : 1..2, seq : {65534, 65535, 0}, data : 1..2, first : {0, 255}] \cup
        [kind : {"other"}, sender : {1}, seq : {0}, data : {1}, first : {0}]) @@
    ("farmng eventlog" :>
        [kind : {"event"}, here : BOOLEAN, time : 0..1, bytes : {1, 2, 3}] \cup
        [kind : {"tail"}, here : {FALSE}, time : {0}, bytes : {0}]) @@
    ("gcs tlog" :>
        [selected : BOOLEAN, msgid : BOOLEAN, time : 0..1,
         values : {<<"given">>, <<"given", "unavailable">>}]) @@
    ("mission plan" :>
        [kind : {"complex"}, complex : {"unknown", "landing", "structure", "survey"},
         points : {1}, parameter : {Absent}] \cup
        [kind : {"other"}, complex : {Absent}, points : {0}, parameter : {Absent}] \cup
        [kind : {"simple"}, complex : {Absent}, points : {0},
         parameter : [command : {"179", "189"}, role : {"latitude"},
                      value : {Absent, "number", "NaN"}, frame : {"global", "unqualified"},
                      current : {Absent, 0, 1}, landing : BOOLEAN] \cup
                     [command : {"unknown", "other"},
                      role : {"unused", "yaw", "speed", "abort altitude"},
                      value : {"special", "NaN", "number"}, frame : {"global"}, current : {0},
                      landing : {FALSE}] \cup
                     [command : {"179"}, role : {"roll"}, value : {"NaN"}, frame : {"global"},
                      current : {0}, landing : {FALSE}]])

-----------------------------------------------------------------------------
(* SavedLinks. *)
FramesBound ==
    [op : {"write"}, cells : {{1}, {1, 2}, {3}}, glyph : {1, 2}] \cup
    [op : {"clear", "draw", "release", "heartbeat"}, cells : {{}}, glyph : {0}]

LinksDeclared ==
    ("crsf link" :> [type : {"display", "link"}, optional : BOOLEAN]) @@
    ("sport stream" :> {[size |-> 2, from |-> 0, to |-> 1]}) @@
    ("msp stream" :> {Absent}) @@
    ("tramp replies" :> {Absent}) @@
    ("displayport canvas" :> {CanvasCells}) @@
    ("crsf parameters" :> BOOLEAN) @@
    ("elrs settings" :> BOOLEAN)

LinksRecords ==
    ("crsf link" :>
        [time : 0..1, type : {"display"}, operation : {"draw", "unknown"}, antenna : {0}] \cup
        [time : 0..1, type : {"link"}, operation : {Absent}, antenna : {0, 2}]) @@
    ("sport stream" :> {"flag", "escape", "data"}) @@
    ("msp stream" :>
        [kind : {"packet"}, bytes : {6, 7}] \cup [kind : {"junk", "cut"}, bytes : {1, 2}]) @@
    ("tramp replies" :>
        [kind : {"truncated"}, bytes : {1, 15}] \cup
        {[kind |-> k, bytes |-> TrampBytes[k]] : k \in DOMAIN TrampBytes}) @@
    ("displayport canvas" :> CanvasFrames) @@
    ("crsf parameters" :>
        [kind : {"read"}, origin : {"h"}, destination : {"d"}, number : {1, 2},
         remaining : {0, 1}] \cup
        [kind : {"entry"}, origin : {"d"}, destination : {"h", "g"}, number : {1, 2},
         remaining : 0..2] \cup
        [kind : {"other"}, origin : {"h"}, destination : {"d"}, number : {1}, remaining : {0}]) @@
    ("elrs settings" :>
        [name : {"packet-rate", "switch-mode", "tlm", "unlisted"}, secret : BOOLEAN,
         nested : {FALSE}, value : {"listed", "unlisted"}])

-----------------------------------------------------------------------------
(* SavedFleets. *)
FleetsDeclared ==
    ("vda load report" :> {Absent}) @@
    ("vda state context" :> {Absent}) @@
    ("vda factsheet limits" :> {Absent}) @@
    ("vda capabilities" :> BOOLEAN) @@
    ("rmf websocket" :> {{0}, {1}, {0, 1}}) @@
    ("odrive iq" :> {20}) @@
    ("opcua" :> {"scalar", "array", "matrix"}) @@
    ("sensorthings" :> {Absent}) @@
    ("sensorthings pages" :> {Absent}) @@
    ("aemp hours" :> {"snapshot", "page"})

FleetsRecords ==
    ("vda load report" :>
        [kind : {"detail", "other"}, version : {"selected"}, qualified : {TRUE},
         identity : {{"agrees"}}, loads : {Absent}] \cup
        [kind : {"summary"}, version : {"selected", "another"}, qualified : BOOLEAN,
         identity : SUBSET {"agrees", "blank", "differs"} \ {{}},
         loads : {Absent, <<>>, <<Absent, "">>, <<"a">>}]) @@
    ("vda state context" :>
        [kind : {"summary"}, version : {"selected"}, qualified : {TRUE},
         identity : {{"agrees"}}, loads : {Absent, <<"a">>}, context : {"agrees", "differs"}]) @@
    ("vda factsheet limits" :>
        [limits : {Absent} \cup
                  [lengths : {<<0, 5, Absent>>},
                   timing : [RequiredTimes -> {1}] \cup
                            [RequiredTimes \cup {"defaultStateInterval"} -> {Absent, 1}] \cup
                            [RequiredTimes \cup OptionalTimes -> {Absent, 2}]],
         envelopes : {Absent, 0, 2}]) @@
    ("vda capabilities" :>
        [kinematics : SUBSET {"mobileRobotKinematics", "mobileRobotKinematic"},
         positions : {Absent, <<>>, <<1>>}, actions : {<<>>, <<"text", "boolean">>, <<Absent>>},
         sets : {<<>>} \cup
                {<<s>> : s \in [speed : BOOLEAN, box : {{}, {"x", "y", "z"}, {"x", "theta"}}]},
         configuration : {Absent} \cup SUBSET {"batteryCharging", "batteryCharging "}]) @@
    ("rmf websocket" :> [op : {"text", "more", "control"}, final : BOOLEAN]) @@
    ("odrive iq" :> [id : {20, 21}, bytes : {8, 7}, setpoint : {0, 1}]) @@
    ("opcua" :>
        [time : 0..1, node : {"selected", "other"}, values : {<<>>, <<1>>, <<1, 2>>},
         dimensions : {Absent, <<1, 2>>, <<1, 1>>, <<0, 1>>}, code : {0, 2^30}, stamp : BOOLEAN,
         pico : 0..1]) @@
    ("sensorthings" :>
        [id : 1..2, start : {1}, stop : {Absent, 0, 2}, result : {Absent, "number"}]) @@
    ("sensorthings pages" :>
        [url : {"a", "b", "c"}, next : {Absent, "b", "c"},
         observations : {<<>>,
                         <<[id |-> 1, start |-> 1, stop |-> Absent, result |-> "number"]>>,
                         <<[id |-> 2, start |-> 1, stop |-> 2, result |-> Absent], [id |-> 1,
                            start |-> 1, stop |-> 2, result |-> "number"]>>}]) @@
    ("aemp hours" :>
        [kind : {"links", "other"}, headers : {0}, hours : {<<>>}] \cup
        [kind : {"equipment"}, headers : 1..2, hours : {<<>>, <<1>>, <<1, 2>>}])

-----------------------------------------------------------------------------
(* SavedServers. *)
ServersDeclared ==
    ("sensorthings dataarray" :>
        {Absent} \cup {[start |-> 1, stop |-> 3], [start |-> 0, stop |-> 2]}) @@
    ("onvif recording job" :> {Absent}) @@
    ("onvif imaging" :> {Absent}) @@
    ("signalk" :>
        {[log |-> FALSE, start |-> 0, stop |-> 0], [log |-> TRUE, start |-> 1, stop |-> 3]}) @@
    ("mavsdk grpc" :> BOOLEAN) @@
    ("robotnik state" :> {Absent})

ServersRecords ==
    ("sensorthings dataarray" :> [here : BOOLEAN, ids : {<<>>, <<1>>, <<1, 2>>}]) @@
    ("onvif recording job" :>
        [kind : {"job", "source"}, state : {"Active"}, error : {Absent}] \cup
        [kind : {"track"}, state : {"Active", "Error", "Paused"}, error : {Absent, "", "text"}]) @@
    ("onvif imaging" :>
        [exposure : BOOLEAN, mode : {Absent, "AUTO", "other"}, values : {{}, {"gain"}}]) @@
    ("signalk" :>
        [context : {"selected", "other"}, text : {FALSE}, time : 0..1,
         paths : {<<[path |-> "supported", value |-> 1], [path |-> "other", value |-> -1]>>}] \cup
        [context : {"selected"}, text : BOOLEAN, time : {0},
         paths : {<<>>, <<[path |-> "supported", value |-> -1]>>,
                  <<[path |-> "supported", value |-> Absent]>>}]) @@
    ("mavsdk grpc" :> [compressed : BOOLEAN, whole : BOOLEAN, size : {5, 9}]) @@
    ("robotnik state" :>
        [code : {"INIT", "700", "999"}, table : {"short", "long"},
         text : {"INIT", "READY", "UNKNOWN"}, frequency : 0..1] \cup
        [code : {"INIT"}, table : {Absent}, text : {"other"}, frequency : {1}])

-----------------------------------------------------------------------------
(* SavedBags. *)
BagsDeclared ==
    ("rosbag" :>
        {Bag("mcap", 1, 3, {"a"}, 2), Bag("mcap", 0, 2, {"a"}, 3),
         Bag("sqlite", 1, 3, {"a"}, 2), Bag("sqlite", Absent, Absent, {"a", "b"}, 3)}) @@
    ("mcap index" :> {[start |-> 2, stop |-> 4]}) @@
    ("ros1 index" :> {{1, 2}}) @@
    ("bag metadata" :> {3}) @@
    ("zstd members" :> {Absent}) @@
    ("service sqlite" :> {<<1, 1>>}) @@
    ("occupancy map" :>
        [width : {2},
         samples : {<<"free", "free", "free", "occupied">>,
                    <<"free", "unknown", "unknown", "free">>}, start : {0, 1}, stop : {3, 4}])

BagsRecords ==
    ("rosbag" :>
        {[topic |-> tp, time |-> t, chunk |-> c, kind |-> k, call |-> Call] : tp \in {"a", "b"},
         t \in 0..2, c \in {2}, k \in {"quantities", "unsupported"}} \cup
        [topic : {"a"}, time : {1}, chunk : {1}, kind : {"quantities"}, call : {Call}] \cup
        [topic : {"a"}, time : {1}, chunk : {1}, kind : {"service"}, call : Calls]) @@
    ("mcap index" :>
        [start : 1..4, stop : 1..4, at : {10, 20}, size : {5}, stamps : {<<2>>, <<1, 3>>},
         same : BOOLEAN]) @@
    ("ros1 index" :>
        [at : {10, 14, 15}, size : {5}, counts : {1 :> 1, 1 :> 0, 3 :> 1},
         index : {1 :> 1, 1 :> 2}, start : {1}, stop : {0, 1}]) @@
    ("bag metadata" :> [kind : {"topic", "file"}, name : {"a", "b"}, count : 1..3]) @@
    ("zstd members" :> [name : {"a", "b"}, declared : {Absent, 5}, size : {5, 6}]) @@
    ("service sqlite" :> [id : 1..2, topic : 1..3, time : 0..1]) @@
    ("occupancy map" :> {Absent})

-----------------------------------------------------------------------------
(* SavedPackets. *)
EchoesBound ==
    [kind : {"request", "reply"}, key : 1..2, payload : 1..2] \cup
    [kind : {"other"}, key : {1}, payload : {1}]

PacketsDeclared ==
    ("icmp echo" :> {Absent}) @@
    ("imc tcp" :> {Absent}) @@
    ("rtcp" :> BOOLEAN) @@
    ("rtps" :> {"w"}) @@
    ("pcapng" :> {Absent, [start |-> 1, stop |-> 2]}) @@
    ("imc sensors" :> {Absent}) @@
    ("imc window" :> [start : {1}, stop : {2, 3}, source : {Absent, 1}]) @@
    ("imc datagram" :> {Absent}) @@
    ("node report" :> [start : BOOLEAN, units : {{}, {"SPD"}}]) @@
    ("moos slog" :> [dynamic : BOOLEAN, variable : {"b"}])

PacketsRecords ==
    ("icmp echo" :> EchoPackets) @@
    ("imc tcp" :>
        [flow : {"selected"}, seq : {6}, flag : {"syn"}, data : {<<>>}] \cup
        [flow : {"selected"}, seq : {7, 0, 1}, flag : {"none"},
         data : {<<>>, <<1>>, <<2>>, <<0, 1>>, <<2, 0>>}] \cup
        [flow : {"selected"}, seq : {0, 1, 2}, flag : {"fin"}, data : {<<>>, <<1>>}] \cup
        [flow : {"other"}, seq : {7}, flag : {"none"}, data : {<<>>}]) @@
    ("rtcp" :>
        {[packets |-> p] :
          p \in {Absent, <<[kind |-> "sender", count |-> 1]>>,
                 <<[kind |-> "receiver", count |-> 2], [kind |-> "names",
                    count |-> 1], [kind |-> "other", count |-> 0]>>}}) @@
    ("rtps" :>
        {[submessages |-> s] :
          s \in {<<[kind |-> "data", writer |-> "w", time |-> Absent]>>,
                 <<[kind |-> "time", writer |-> Absent, time |-> "reported"], [kind |-> "data",
                    writer |-> "v", time |-> Absent], [kind |-> "data", writer |-> "w",
                    time |-> Absent], [kind |-> "time", writer |-> Absent,
                    time |-> "invalidated"], [kind |-> "data", writer |-> "w", time |-> Absent]>>,
                 <<[kind |-> "unknown", writer |-> Absent, time |-> Absent]>>}}) @@
    ("pcapng" :>
        [kind : {"section", "interface"}, time : {0}, whole : {TRUE}] \cup
        [kind : {"packet"}, time : 0..1, whole : BOOLEAN]) @@
    ("imc sensors" :>
        [time : 0..1, kind : {"velocity"}, valid : {{}, {"x"}}, value : {0}] \cup
        [time : {1}, kind : {"depth", "other", "vector"}, valid : {{}}, value : {0, -1}]) @@
    ("imc window" :> [source : 1..2, time : 0..1, supported : BOOLEAN]) @@
    ("imc datagram" :> [here : BOOLEAN, frames : {<<TRUE>>, <<FALSE, TRUE>>}]) @@
    ("node report" :> [selected : BOOLEAN, marked : BOOLEAN, values : {{"SPD", "X"}}]) @@
    ("moos slog" :>
        [kind : {"column"}, name : {"a", "b"}, known : {0}, time : {0}, values : {<<>>}] \cup
        [kind : {"label"}, name : {Absent}, known : {1, 2}, time : {0}, values : {<<>>}] \cup
        [kind : {"values"}, name : {Absent}, known : {0}, time : {0, 1},
         values : {<<"1", "NaN">>, <<"1", "2">>}])

-----------------------------------------------------------------------------
DeclaredBound ==
    HostsDeclared @@ RoversDeclared @@ FlightDeclared @@ MissionsDeclared @@ LinksDeclared
    @@ FleetsDeclared @@ ServersDeclared @@ BagsDeclared @@ PacketsDeclared

RecordsBound ==
    HostsRecords @@ RoversRecords @@ FlightRecords @@ MissionsRecords @@ LinksRecords
    @@ FleetsRecords @@ ServersRecords @@ BagsRecords @@ PacketsRecords

RecordBound ==
    [c \in DOMAIN RecordsBound |->
        CASE c \in {"vda state context", "vda factsheet limits", "vda capabilities", "onvif imaging"} -> 1
          [] c \in {"tegrastats", "ardusub session", "vertical reports", "ardupilot records",
              "dataflash text", "quadplane context", "mavlink ulog", "farmng eventlog",
              "tramp replies", "sensorthings pages", "aemp hours", "sensorthings dataarray",
              "onvif recording job", "signalk", "rosbag", "bag metadata", "service sqlite",
              "imc window"} -> 3
          [] c \in {"imu batch", "ardusub window", "mavlink statustext", "msp stream",
              "displayport canvas", "crsf parameters", "rmf websocket", "occupancy map",
              "icmp echo", "pcapng"} -> 4
          [] c \in {"imc tcp"} -> 5
          [] c \in {"moos slog"} -> 6
          [] c \in {"sport stream"} -> 8
          [] OTHER -> 2]
=============================================================================
