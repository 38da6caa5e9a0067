--------------------------- MODULE SavedConversions --------------------------
(***************************************************************************)
(* All the converters of the Saved modules as one specification: a         *)
(* behaviour is one script run on one saved file, from its declaration to  *)
(* the CSV it writes or its refusal.  Records and Declared say what each   *)
(* may be given; the properties of several converters are put together.    *)
(***************************************************************************)
EXTENDS SavedHosts, SavedRovers, SavedFlight, SavedMissions, SavedLinks, SavedFleets,
        SavedServers, SavedBags, SavedPackets

CONSTANTS Records,   \* converter -> the records a file of it may hold
          Declared   \* converter -> its arguments and declaration files

(* What is known of a file and of the arguments before its converter runs.     *)
(* A bag: both ends of the interval or none are given, and no message is later *)
(* than the last one of its chunk (mcap_file_preflight).                       *)
ASSUME BagAssumption ==
    /\ Absent \notin Int
    /\ \A d \in Declared["rosbag"] :
          \/ d.start = Absent /\ d.stop = Absent
          \/ d.start \in Nat /\ d.stop \in Nat
    /\ \A r \in Records["rosbag"] : r.time \in Nat /\ r.chunk \in Nat /\ r.time <= r.chunk

(* A data array: a window has a start and a stop, and a group lists its ids.   *)
ASSUME ArrayAssumption ==
    /\ \A d \in Declared["sensorthings dataarray"] :
          d = Absent \/ (d.start \in Nat /\ d.stop \in Nat)
    /\ \A r \in Records["sensorthings dataarray"] : IsList(r.ids)

(* A message, a report or an item lists its parts; counts are not negative.    *)
ASSUME HostAssumption ==
    /\ \A r \in Records["mqtt"] : IsList(r.parts)
    /\ \A r \in Records["vlm response"] : IsList(r.parts)
    /\ \A r \in Records["storage state"] : r.mounts = Absent \/ IsList(r.mounts)
    /\ \A r \in Records["tensorrt layers"] : {r.inputs, r.outputs, r.constants} \subseteq Nat
    /\ \A d \in Declared["tensorrt layers"] : d.bindings \in Nat

(* A stream: a piece has at least a byte, and so has a packet.                 *)
ASSUME StreamAssumption ==
    /\ \A r \in Records["msp stream"] \cup Records["tramp replies"] : r.bytes \in Nat \ {0}
    /\ \A d \in Declared["sport stream"] : d.size \in Nat \ {0}

(* Parts of a message: a ULog fragment has a sender and a number of two bytes,  *)
(* a WebSocket frame one of three operations, a page lists its observations.    *)
ASSUME PartAssumption ==
    /\ Absent \notin Seq(Nat)
    /\ \A r \in Records["mavlink ulog"] : r.sender # Absent /\ r.seq \in 0..(SequenceModulo - 1)
    /\ \A r \in Records["rmf websocket"] : r.op \in {"text", "more", "control"}
    /\ \A r \in Records["sensorthings pages"] : IsList(r.observations)
    /\ \A r \in Records["crsf parameters"] : r.remaining \in Nat
    /\ \A r \in Records["imc tcp"] : r.seq \in 0..(SequenceSpace - 1) /\ r.data \in Seq(Nat)
    /\ \A r \in Records["mavlink statustext"] : r.seq \in Nat /\ r.time \in Nat

(* A map: the selected cells go from one number to another.                    *)
ASSUME MapAssumption ==
    \A d \in Declared["occupancy map"] : d.start \in Nat /\ d.stop \in Nat

-----------------------------------------------------------------------------
(* One round of the loop of the script that runs. *)
HostsStep(r) ==
    \/ converter = "k8s audit events" /\ AuditEvent(r)
    \/ converter = "journal storage errors" /\ StorageError(r)
    \/ converter = "journal power thermal" /\ PowerThermal(r)
    \/ converter = "oauth rejection" /\ SavedRejection(r)
    \/ converter = "mqtt" /\ MqttMessage(r)
    \/ converter = "mqtt dock" /\ DockState(r)
    \/ converter = "mqtt packets" /\ Publish(r)
    \/ converter = "blueos resources" /\ ResourceItem(r)
    \/ converter = "storage state" /\ StorageState(r)
    \/ converter = "tensorrt layers" /\ EngineLayer(r)
    \/ converter = "drm connectors" /\ Connector(r)
    \/ converter = "link cues" /\ CueRow(r)
    \/ converter = "vlm response" /\ ResponseItem(r)

RoversStep(r) ==
    \/ converter = "ardupilot battery" /\ BatteryRow(r)
    \/ converter = "json states" /\ JsonRecord(r)
    \/ converter = "vda states" /\ VdaState(r)
    \/ converter = "rmf fleet" /\ RmfSnapshot(r)
    \/ converter = "tegrastats" /\ TegraWord(r)
    \/ converter = "ardupilot mode" /\ ModeRow(r)
    \/ converter = "ardupilot safety" /\ SafetyReport(r)
    \/ converter = "ardupilot controller" /\ ControllerRecord(r)
    \/ converter = "imu batch" /\ ImuRecord(r)
    \/ converter = "ardusub session" /\ SessionRecord(r)
    \/ converter = "ardusub window" /\ SessionWindowRecord(r)

FlightStep(r) ==
    \/ converter = "vertical reports" /\ VerticalReport(r)
    \/ converter = "motor output" /\ MotorRow(r)
    \/ converter = "ardupilot records" /\ DecodedRecord(r)
    \/ converter = "ardupilot report" /\ NormalizedRecord(r)
    \/ converter = "dataflash text" /\ TextLine(r)
    \/ converter = "rover bundle" /\ BundleRecord(r)
    \/ converter = "quadplane context" /\ QuadplaneRecord(r)

MissionsStep(r) ==
    \/ converter = "mavlink statustext" /\ StatusText(r)
    \/ converter = "mavlink ulog" /\ UlogFragment(r)
    \/ converter = "farmng eventlog" /\ EventLogRecord(r)
    \/ converter = "gcs tlog" /\ TlogRow(r)
    \/ converter = "mission plan" /\ MissionItem(r)

LinksStep(r) ==
    \/ converter = "crsf link" /\ LinkFrame(r)
    \/ converter = "sport stream" /\ SportStream(r)
    \/ converter = "msp stream" /\ MspStream(r)
    \/ converter = "tramp replies" /\ TrampReply(r)
    \/ converter = "displayport canvas" /\ CanvasOperation(r)
    \/ converter = "crsf parameters" /\ ParameterFrame(r)
    \/ converter = "elrs settings" /\ ElrsSetting(r)

FleetsStep(r) ==
    \/ converter = "vda load report" /\ LoadReport(r)
    \/ converter = "vda state context" /\ LoadReportInContext(r)
    \/ converter = "vda factsheet limits" /\ FactsheetLimits(r)
    \/ converter = "vda capabilities" /\ Capabilities(r)
    \/ converter = "rmf websocket" /\ SocketFrame(r)
    \/ converter = "odrive iq" /\ OdriveIq(r)
    \/ converter = "opcua" /\ OpcuaValue(r)
    \/ converter = "sensorthings" /\ Observation(r)
    \/ converter = "sensorthings pages" /\ SavedPage(r)
    \/ converter = "aemp hours" /\ HoursNode(r)

ServersStep(r) ==
    \/ converter = "sensorthings dataarray" /\ ArrayGroup(r)
    \/ converter = "onvif recording job" /\ JobPart(r)
    \/ converter = "onvif imaging" /\ ImagingSettings(r)
    \/ converter = "signalk" /\ SignalkRecord(r)
    \/ converter = "mavsdk grpc" /\ GrpcMessage(r)
    \/ converter = "robotnik state" /\ DashboardState(r)

BagsStep(r) ==
    \/ converter = "rosbag" /\ BagMessage(r)
    \/ converter = "mcap index" /\ IndexedChunk(r)
    \/ converter = "ros1 index" /\ Ros1Chunk(r)
    \/ converter = "bag metadata" /\ BagEntry(r)
    \/ converter = "zstd members" /\ ZstdMember(r)
    \/ converter = "service sqlite" /\ SqliteMessage(r)
    \/ converter = "occupancy map" /\ MapCell(r)

PacketsStep(r) ==
    \/ converter = "icmp echo" /\ IcmpEcho(r)
    \/ converter = "imc tcp" /\ TcpPacket(r)
    \/ converter = "rtcp" /\ RtcpDatagram(r)
    \/ converter = "rtps" /\ RtpsDatagram(r)
    \/ converter = "pcapng" /\ PcapngBlock(r)
    \/ converter = "imc sensors" /\ ImcFrame(r)
    \/ converter = "imc window" /\ ImcWindowFrame(r)
    \/ converter = "imc datagram" /\ ImcDatagram(r)
    \/ converter = "node report" /\ NodeReport(r)
    \/ converter = "moos slog" /\ SlogLine(r)

ConverterStart ==
    CASE converter = "journal storage errors" -> <<>>
      [] converter = "mqtt packets" -> {}
      [] converter = "tensorrt layers" -> 0
      [] converter = "link cues" -> [t \in declared |-> [carried |-> 0, unavailable |-> 0]]
      [] converter = "imu batch" -> NoBatch
      [] converter = "motor output" -> 0
      [] converter = "ardupilot records" -> <<>>
      [] converter = "ardupilot report" -> {}
      [] converter = "dataflash text" -> <<>>
      [] converter = "rover bundle" -> NoEvidence
      [] converter = "mavlink statustext" -> <<>>
      [] converter = "mavlink ulog" -> [sender |-> declared, last |-> Absent]
      [] converter = "farmng eventlog" -> [part |-> 1, bytes |-> 0]
      [] converter = "gcs tlog" -> 0
      [] converter = "sport stream" -> SportStart
      [] converter = "msp stream" -> [at |-> 1, idle |-> 1]
      [] converter = "tramp replies" -> 1
      [] converter = "displayport canvas" -> NoCanvas
      [] converter = "crsf parameters" -> NothingJoined
      [] converter = "sensorthings pages" -> {}
      [] converter = "sensorthings dataarray" -> 0
      [] converter = "mavsdk grpc" -> 0
      [] converter \in {"rosbag", "occupancy map"} -> <<>>
      [] converter = "mcap index" -> 0
      [] converter = "bag metadata" -> [topic |-> 0, file |-> 0]
      [] converter = "icmp echo" -> NoExchange
      [] converter = "imc tcp" -> NoStream
      [] converter = "moos slog" -> [columns |-> <<>>, known |-> Absent, time |-> Absent]
      [] OTHER -> Absent

ConverterStep(r) ==
    \/ HostsStep(r)
    \/ RoversStep(r)
    \/ FlightStep(r)
    \/ MissionsStep(r)
    \/ LinksStep(r)
    \/ FleetsStep(r)
    \/ ServersStep(r)
    \/ BagsStep(r)
    \/ PacketsStep(r)

ConverterEnd ==
    \/ converter = "mqtt packets" /\ PublishEnd
    \/ converter = "tensorrt layers" /\ EngineEnd
    \/ converter = "vlm response" /\ ResponseEnd
    \/ converter = "tegrastats" /\ TegraEnd
    \/ converter = "imu batch" /\ ImuEnd
    \/ converter = "ardusub window" /\ SessionWindowEnd
    \/ converter = "vertical reports" /\ VerticalEnd
    \/ converter = "ardupilot records" /\ DecodedEnd
    \/ converter = "ardupilot report" /\ NormalizedEnd
    \/ converter = "rover bundle" /\ BundleEnd
    \/ converter = "quadplane context" /\ QuadplaneEnd
    \/ converter = "mavlink statustext" /\ StatusTextEnd
    \/ converter = "mavlink ulog" /\ UlogEnd
    \/ converter = "farmng eventlog" /\ EventLogEnd
    \/ converter = "mission plan" /\ MissionPlanEnd
    \/ converter = "crsf link" /\ LinkEnd
    \/ converter = "sport stream" /\ SportEnd
    \/ converter = "msp stream" /\ MspEnd
    \/ converter = "rmf websocket" /\ SocketEnd
    \/ converter = "opcua" /\ OpcuaEnd
    \/ converter = "sensorthings pages" /\ SavedPagesEnd
    \/ converter = "aemp hours" /\ HoursEnd
    \/ converter = "sensorthings dataarray" /\ ArrayEnd
    \/ converter = "onvif recording job" /\ JobEnd
    \/ converter = "signalk" /\ SignalkEnd
    \/ converter = "rosbag" /\ BagEnd
    \/ converter = "mcap index" /\ IndexEnd
    \/ converter = "bag metadata" /\ BagEntryEnd
    \/ converter = "service sqlite" /\ SqliteEnd
    \/ converter = "occupancy map" /\ MapEnd
    \/ converter = "icmp echo" /\ IcmpEchoEnd
    \/ converter = "imc tcp" /\ TcpEnd
    \/ converter = "rtcp" /\ RtcpEnd
    \/ converter = "imc window" /\ ImcWindowEnd
    \/ converter = "moos slog" /\ SlogEnd
    \/ /\ converter \in {"k8s audit events", "journal storage errors", "journal power thermal",
                       "oauth rejection", "mqtt", "mqtt dock", "blueos resources",
                       "storage state", "drm connectors", "link cues", "ardupilot battery",
                       "json states", "vda states", "rmf fleet", "ardupilot mode",
                       "ardupilot safety", "ardupilot controller", "ardusub session",
                       "motor output", "dataflash text", "gcs tlog", "tramp replies",
                       "displayport canvas", "crsf parameters", "elrs settings",
                       "vda load report", "vda state context", "vda factsheet limits",
                       "vda capabilities", "odrive iq", "sensorthings", "onvif imaging",
                       "mavsdk grpc", "robotnik state", "ros1 index", "zstd members", "rtps",
                       "pcapng", "imc sensors", "imc datagram", "node report"}
       /\ EndCarried

ConverterInit ==
    /\ converter \in DOMAIN Declared /\ declared \in Declared[converter]
    /\ Starting(ConverterStart)

ConverterNext ==
    \/ \E r \in Records[converter] : Taking(r) /\ ConverterStep(r)
    \/ ConverterEnd
    \/ Refuse

ConverterSpec == ConverterInit /\ [][ConverterNext]_linesVars

-----------------------------------------------------------------------------
(* What a converter puts together from parts is whole: no part is missing, out *)
(* of order or another message's (WebSocket fragments, status texts, ULog      *)
(* fragments, CRSF parameters, IMC frames over TCP, IMU batches, saved pages). *)
ReassembliesAreSound ==
    /\ MessagesAreWhole /\ TextsAreWhole /\ UlogIsGapless /\ EntriesAreWhole
    /\ StreamIsGapless /\ BatchesAreWhole /\ ChainIsFollowed

(* A selected window has all its records and no other, also where the start is *)
(* filtered by the reader and where the window runs over several groups.       *)
WindowsAreExact == ArrayWindowIsExact /\ WindowIsComplete /\ CutIsExact

(* Nothing is lost without a count: bytes of a stream, cells of a map, records *)
(* of the host reports are carried or counted.                                 *)
AccountsAreComplete == BytesAreAccounted /\ RunsCoverTheMap /\ RecordsAreAccounted
=============================================================================
