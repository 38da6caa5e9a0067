-------------------------- MODULE SavedOutputTools --------------------------
(***************************************************************************)
(* What each main() under scripts/ writes, in the order it writes it: one  *)
(* definition per tool, named after its file.  A name such as "files",     *)
(* "outputs" or "sources" stands for the files a loop writes at that place *)
(* one after the other.                                                    *)
(***************************************************************************)
EXTENDS SavedOutput

(* write_parts of export_farmng_eventlog_filter_state, with --parts. *)
WriteParts == Unmarking({"manifest.json"},
    NewDirectory(<<"part-000001.jsonl", "part-000002.jsonl", "manifest.json">>))

AssembleSavedMavlinkUlog == NewDirectory(<<"reconstructed.ulg", "references.json">>)

CheckDeclaredSchemaUnits == NewDirectory(<<"observations.csv", "report.json">>)

CheckIdentifierUniqueness == Asking(NewDirectory(<<"observations.csv", "report.json">>))

CheckSavedAgeWindow ==
    NewDirectory(<<"selected-source.csv", "age-spec.json", "source-profile.toml", "observations.csv", "report.json">>)

CheckSavedObservationAge ==
    NewDirectory(<<"source.csv", "age-spec.json", "source-profile.toml", "observations.csv", "report.json">>)

CheckSavedVideoFrames ==
    NewDirectory(<<"source-export.json", "expectation.json", "observations.csv", "report.json">>)

CompareProducerSoftwareVersion == Asking(NewDirectory(<<"observations.csv", "report.json">>))

ConvertAgioEvents == NewDirectory(<<"observations.csv", "report.json">>)

ConvertAgopenFieldFolder == NewDirectory(<<"outputs", "originals", "report.json">>)

ConvertAgopenGuidance == Asking(NewDirectory(<<"files">>))

ConvertAgopenSections == Optionally({"report"}, LooseFiles(<<"output", "report">>))

ConvertAgopenSteering == NewDirectory(<<"observations.csv", "report.json">>)

ConvertArdupilotBatteryCsv == LooseFiles(<<"output">>)

ConvertArdupilotControllerReports ==
    Optionally({"source-report.json"}, NewDirectory(<<"source-report.json", "observations.csv", "report.json">>))

ConvertArdupilotImuBatch == NewDirectory(<<"observations.csv", "report.json">>)

ConvertArdupilotModeCsv == LooseFiles(<<"output">>)

ConvertArdupilotRcout == NewDirectory(<<"source-report.json", "observations.csv", "report.json">>)

ConvertArdupilotSafetyReports == NewDirectory(<<"observations.csv", "source.csv", "report.json">>)

ConvertArdusubBinWindow == NewDirectory(<<"files", "report.json">>)

ConvertArdusubSession ==
    Optionally({"surface-anchor.json"},
        NewDirectory(<<"source-report.json", "surface-anchor.json", "files", "report.json">>))

ConvertArdusubSessionWindow == NewDirectory(<<"files", "report.json">>)

ConvertArdusubVerticalReports ==
    Optionally({"surface-anchor.json"}, NewDirectory(<<"source-report.json", "surface-anchor.json", "observations.csv", "report.json">>))

ConvertAuditRecordWindow == NewDirectory(<<"observations.csv", "report.json">>)

ConvertBlackboxMotorOutput == LooseFiles(<<"output", "report">>)

ConvertBlueosResources == NewDirectory(<<"source-response.json", "observations.csv", "report.json">>)

ConvertBtDeclarations == NewDirectory(<<"observations.csv", "report.json">>)

ConvertCableTestExport == NewDirectory(<<"observations.csv", "source.json", "report.json">>)

ConvertCandumpRecorded == NewDirectory(<<"capture.csv", "report.json">>)

ConvertCapAlert == Asking(NewDirectory(<<"observations.csv", "report.json">>))

ConvertCapInfoText == NewDirectory(<<"outputs", "source.xml", "report.json">>)

ConvertCapSavedRelations ==
    Asking(NewDirectory(<<"source-000.xml", "source-000.csv", "relations.csv", "report.json">>))

ConvertCockpitClog == LooseFiles(<<"output">>)

ConvertControllerRecordComposition ==
    NewDirectory(<<"associations.csv", "manifest.json", "source-0.csv", "report.json">>)

ConvertCrsfLink ==
    Optionally({"canvas.csv"}, NewDirectory(<<"observations.csv", "canvas.csv", "report.json">>))

ConvertCrsfParameters == LooseFiles(<<"output", "report">>)

ConvertDataflashText == LooseFiles(<<"output">>)

ConvertDbcRecorded == LooseFiles(<<"output", "report">>)

ConvertDeclaredExpectationCheck ==
    Optionally({"source.csv", "range-spec.json", "source-profile.toml"},
        NewDirectory(<<"observations.csv", "report.json", "source.csv", "range-spec.json", "source-profile.toml">>))

ConvertDisplayportCanvas == NewDirectory(<<"source.csv", "operations.csv", "canvas.csv", "report.json">>)

ConvertDockerLifecycleTime == Asking(LooseFiles(<<"output", "report">>))

ConvertDrmConnectorReport == NewDirectory(<<"source.json", "observations.csv", "report.json">>)

ConvertDronecanCapture == NewDirectory(<<"observations.csv", "accounting.json">>)

ConvertElectricalEvents == NewDirectory(<<"observations.csv", "report.json">>)

ConvertElrsLinkContext == NewDirectory(<<"observations.csv", "report.json">>)

ConvertElrsSettings == NewDirectory(<<"observations.csv", "report.json">>)

ConvertFarmbotImageBinding ==
    NewDirectory(<<"source-resources.json", "source-export.json", "source-mapping.json", "observations.csv", "profile.toml", "report.json">>)

ConvertFarmbotPointList == NewDirectory(<<"source-response.json", "observations.csv", "report.json">>)

ConvertFarmbotSavedLogs == NewDirectory(<<"observations.csv", "report.json">>)

ConvertFarmbotSavedPins == Asking(LooseFiles(<<"output", "report">>))

ConvertFarmduinoReports == NewDirectory(<<"observations.csv", "report.json">>)

ConvertGatewayLinkState == NewDirectory(<<"source.json", "observations.csv", "report.json">>)

ConvertGatewayRouteNat == NewDirectory(<<"source.json", "observations.csv", "report.json">>)

ConvertGcsTlogCsv == Optionally({"report"}, LooseFiles(<<"output", "report">>))

ConvertGpxRecorded ==
    Optionally({"source.zip"}, NewDirectory(<<"source.zip", "source", "observations.csv", "report.json">>))

ConvertHostRecordWindow == Asking(NewDirectory(<<"observations.csv", "report.json">>))

ConvertIcmpEchoWindow == NewDirectory(<<"observations.csv", "report.json">>)

ConvertImageFlightBinding ==
    NewDirectory(<<"source-export.json", "source-mapping.json", "source-flight.csv", "source-declaration.json",
                 "observations.csv", "profile.toml", "flight.csv", "flight-profile.toml", "report.json">>)

ConvertImageMetadata == NewDirectory(<<"observations.csv", "report.json">>)

ConvertImageOriginalBinding ==
    NewDirectory(<<"source-export.json", "source-mapping.json", "observations.csv", "profile.toml", "report.json">>)

ConvertImcGzipWindow == Asking(NewDirectory(<<"observations.csv", "report.json">>))

ConvertImcSensors == Optionally({"source"}, NewDirectory(<<"source", "observations.csv", "report.json">>))

ConvertIsobusUtTcCapture == NewDirectory(<<"observations.csv", "report.json">>)

ConvertIsoxmlRate == NewDirectory(<<"observations.csv", "report.json">>)

ConvertJournalCoredump == NewDirectory(<<"observations.csv", "report.json">>)

ConvertJournalErrorWindow ==
    NewDirectory(<<"observations.csv", "records.jsonl", "selected-source.jsonl", "report.json">>)

ConvertJournalHostLifecycle == NewDirectory(<<"observations.csv", "report.json">>)

ConvertJournalPowerThermal == NewDirectory(<<"observations.csv", "source.json", "report.json">>)

ConvertJournalStorageErrors ==
    Asking(Rollback(Optionally({"report"}, LooseFiles(<<"record_sidecar", "report", "output">>))))

ConvertK8sAuditEvents == Asking(Rollback(Optionally({"report"}, LooseFiles(<<"report", "output">>))))

ConvertLaneletDeclarations == NewDirectory(<<"observations.csv", "report.json">>)

ConvertLinkCueFields == NewDirectory(<<"observations.csv", "report.json">>)

ConvertM3mCalibration == NewDirectory(<<"source.json", "observations.csv", "transitions.csv", "report.json">>)

ConvertM3mCapture == NewDirectory(<<"observations.csv", "report.json">>)

ConvertMavlinkStatustext == NewDirectory(<<"source.tlog", "statustext.csv", "report.json">>)

ConvertMavsdkGrpcSequence == Asking(NewDirectory(<<"observations.csv", "report.json">>))

ConvertModelStateDeclarations == Asking(NewDirectory(<<"observations.csv", "report.json">>))

ConvertMoosAlogWindow == Asking(NewDirectory(<<"observations.csv", "report.json">>))

ConvertMoosDeclarations ==
    Claiming("unless created", NewDirectory(<<"observations.csv", "accounting.json", "source.declaration">>))

ConvertMoosSystemYlog == Asking(NewDirectory(<<"observations.csv", "report.json">>))

ConvertMqttPublishPackets == Asking(LooseFiles(<<"output", "report">>))

ConvertMqttRecorded == Optionally({"report"}, LooseFiles(<<"output", "report">>))

ConvertNmeaAsciiWindow == NewDirectory(<<"converted.csv", "report.json">>)

ConvertNmeaWind == NewDirectory(<<"converted.csv", "report.json">>)

ConvertOauthErrorResponses == LooseFiles(<<"output", "report">>)

ConvertOdriveIq == Asking(LooseFiles(<<"output", "report">>))

ConvertOnvifRecordingJob == Asking(LooseFiles(<<"output", "report">>))

ConvertOpcuaRecorded == LooseFiles(<<"output", "report">>)

ConvertParrotTelemetryExport == NewDirectory(<<"source.csv", "observations.csv", "report.json">>)

ConvertPcapngUdp ==
    Asking(Optionally({"source.pcapng"}, NewDirectory(<<"source.pcapng", "observations.csv", "report.json">>)))

ConvertPingFrames == Asking(Overwriting(LooseFiles(<<"output">>)))

ConvertPoseText == Asking(LooseFiles(<<"output", "report">>))

ConvertPositionCsv == LooseFiles(<<"output">>)

ConvertPositionCsvBatches ==
    Unmarking({"manifest.json"}, NewDirectory(<<"part-000001.jsonl", "part-000002.jsonl", "manifest.json">>))

ConvertQuadplaneContext == NewDirectory(<<"observations.csv", "report.json", "source-report.json">>)

ConvertRealsensePointcloud == NewDirectory(<<"observations.csv", "report.json">>)

ConvertRecordedAnglesCsv == Asking(Optionally({"report"}, LooseFiles(<<"output", "report">>)))

ConvertRecordedRowIdentity == Asking(NewDirectory(<<"source.csv", "identities.csv", "report.json">>))

ConvertRequestResponseMatch == NewDirectory(<<"observations.csv", "report.json">>)

ConvertRinexRecords == NewDirectory(<<"observations.csv", "report.json">>)

ConvertRmfFleetState == Asking(LooseFiles(<<"output", "report">>))

ConvertRmfIssueReports ==
    Optionally({"participation.csv"}, NewDirectory(<<"state.csv", "issues.csv", "participation.csv", "report.json">>))

ConvertRmfPathAssociation ==
    NewDirectory(<<"web.jsonl", "ros.jsonl", "declaration.json", "outputs", "report.json">>)

ConvertRmfWebsocketRecorded == Asking(LooseFiles(<<"output", "report">>))

ConvertRobotnikDashboardState == NewDirectory(<<"observations.csv", "report.json">>)

ConvertRosServiceSqlite == Asking(NewDirectory(<<"outputs">>))

ConvertRosbagObservations ==
    Optionally({"ground.profile.toml"}, NewDirectory(<<"observations.csv", "report.json", "ground.profile.toml">>))

ConvertRosbagZstdWindow ==
    Asking(Optionally({"ground.profile.toml"}, NewDirectory(<<"observations.csv", "report.json", "ground.profile.toml">>)))

ConvertRoverSavedBundle == NewDirectory(<<"files", "report.json">>)

ConvertRtcpSenderReports == NewDirectory(<<"observations.csv", "report.json">>)

ConvertRtklibSolution == Asking(NewDirectory(<<"observations.csv", "report.json">>))

ConvertRtklibSolutionWindow == NewDirectory(<<"observations.csv", "report.json">>)

ConvertRtpH264Stream == Claiming("always", NewDirectory(<<"elementary.h264", "access_units.json">>))

ConvertRtpRecords == NewDirectory(<<"observations.csv", "accounting.json", "source.pcap">>)

ConvertRtpSenderClock ==
    NewDirectory(<<"rtp.pcap", "rtcp.pcap", "declaration.json", "observations.csv", "report.json">>)

ConvertRtpsData == Asking(NewDirectory(<<"source.pcap", "binding.json", "observations.csv", "report.json">>))

ConvertRtpsWindow == Asking(NewDirectory(<<"binding.json", "observations.csv", "report.json">>))

ConvertRtspDescription ==
    NewDirectory(<<"observations.csv", "accounting.json", "source.rtsp", "source.pcap">>)

ConvertRvizConfig ==
    Claiming("unless created", NewDirectory(<<"observations.csv", "accounting.json", "source.rviz">>))

ConvertSavedFilesystemCapacity == Asking(NewDirectory(<<"source.jsonl", "observations.csv", "report.json">>))

ConvertSavedInspectionFeatures == NewDirectory(<<"observations.csv", "report.json">>)

ConvertSavedMissionPlan ==
    Optionally({"original.plan"}, NewDirectory(<<"observations.csv", "report.json", "original.plan">>))

ConvertSavedPointCloud == NewDirectory(<<"observations.csv", "report.json">>)

ConvertSavedPsu == LooseFiles(<<"output">>)

ConvertSavedStateTransitions == NewDirectory(<<"observations.csv", "report.json">>)

ConvertSavedStorageState == Asking(NewDirectory(<<"source.jsonl", "observations.csv", "report.json">>))

ConvertSavedVideoConditions == NewDirectory(<<"observations.csv", "report.json", "source.metadata.txt">>)

ConvertSavedVideoFilterLog == NewDirectory(<<"observations.csv", "report.json", "source.log.txt">>)

ConvertSbfRecords == NewDirectory(<<"observations.csv", "report.json">>)

ConvertSdfAirframe == NewDirectory(<<"observations.csv", "report.json">>)

ConvertSensorthingsDataarray == Asking(LooseFiles(<<"output", "report">>))

ConvertSignalkRecorded == NewDirectory(<<"observations.csv", "report.json">>)

ConvertSkydioFlightTelemetry == NewDirectory(<<"observations.csv", "report.json">>)

ConvertSmartaudioRecorded == Asking(LooseFiles(<<"output", "report">>))

ConvertSoftwareIdentityBinding ==
    Optionally({"source.txt", "device_observations.csv"},
        NewDirectory(<<"source.txt", "device_observations.csv", "observations.csv", "report.json">>))

ConvertStraceStorage == NewDirectory(<<"observations.csv", "report.json">>)

ConvertTensorrtOutput == Asking(NewDirectory(<<"observations.csv", "report.json">>))

ConvertUdpPayloadWindow == NewDirectory(<<"observations.csv", "report.json">>)

ConvertVdaFactsheetLimits ==
    Optionally({"capabilities.csv"}, NewDirectory(<<"capabilities.csv", "source.jsonl", "geometry.csv", "limits.csv", "report.json">>))

ConvertVdaLoadReport == NewDirectory(<<"observations.csv", "report.json">>)

ConvertVideoCueFlightBinding == NewDirectory(<<"sources", "observations.csv", "profile.toml", "report.json">>)

ConvertVideoDetectorIntervals ==
    NewDirectory(<<"source-export.json", "declaration.json", "observations.csv", "report.json">>)

ConvertVideoFrames == NewDirectory(<<"observations.csv", "report.json">>)

ConvertVlmResponse == Asking(NewDirectory(<<"observations.csv", "report.json">>))

ConvertVtxTrampReplies == NewDirectory(<<"observations.csv", "report.json">>)

DecodeBlackboxRecording ==
    Optionally({"selected.bfl"},
        NewDirectory(<<"selected.bfl", "decoder.stderr.log", "decoded.csv", "decode.json">>))

ExportArdupilotRecords == NewDirectory(<<"exports", "report.json">>)

ExportFarmngEventlogFilterState == LooseFiles(<<"output">>)

ExportFarmngEventlogWindow ==
    Asking(Unmarking({"manifest.json"}, NewDirectory(<<"part-000001.jsonl", "manifest.json", "report.json">>)))

NormalizeArdupilotReport == NewDirectory(<<"source-report.json", "observations.csv", "report.json">>)

NormalizePymavlinkJsonl == LooseFiles(<<"output">>)

RecordFilePresence == NewDirectory(<<"observations.csv", "report.json">>)

RemapJsonlCounter == LooseFiles(<<"output">>)

SelectBlackboxCsvWindow == Asking(LooseFiles(<<"output", "report">>))

AllTools ==
    {WriteParts, AssembleSavedMavlinkUlog, CheckDeclaredSchemaUnits, CheckIdentifierUniqueness,
     CheckSavedAgeWindow, CheckSavedObservationAge, CheckSavedVideoFrames,
     CompareProducerSoftwareVersion, ConvertAgioEvents, ConvertAgopenFieldFolder,
     ConvertAgopenGuidance, ConvertAgopenSections, ConvertAgopenSteering,
     ConvertArdupilotBatteryCsv, ConvertArdupilotControllerReports, ConvertArdupilotImuBatch,
     ConvertArdupilotModeCsv, ConvertArdupilotRcout, ConvertArdupilotSafetyReports,
     ConvertArdusubBinWindow, ConvertArdusubSession, ConvertArdusubSessionWindow,
     ConvertArdusubVerticalReports, ConvertAuditRecordWindow, ConvertBlackboxMotorOutput,
     ConvertBlueosResources, ConvertBtDeclarations, ConvertCableTestExport, ConvertCandumpRecorded,
     ConvertCapAlert, ConvertCapInfoText, ConvertCapSavedRelations, ConvertCockpitClog,
     ConvertControllerRecordComposition, ConvertCrsfLink, ConvertCrsfParameters,
     ConvertDataflashText, ConvertDbcRecorded, ConvertDeclaredExpectationCheck,
     ConvertDisplayportCanvas, ConvertDockerLifecycleTime, ConvertDrmConnectorReport,
     ConvertDronecanCapture, ConvertElectricalEvents, ConvertElrsLinkContext, ConvertElrsSettings,
     ConvertFarmbotImageBinding, ConvertFarmbotPointList, ConvertFarmbotSavedLogs,
     ConvertFarmbotSavedPins, ConvertFarmduinoReports, ConvertGatewayLinkState,
     ConvertGatewayRouteNat, ConvertGcsTlogCsv, ConvertGpxRecorded, ConvertHostRecordWindow,
     ConvertIcmpEchoWindow, ConvertImageFlightBinding, ConvertImageMetadata,
     ConvertImageOriginalBinding, ConvertImcGzipWindow, ConvertImcSensors,
     ConvertIsobusUtTcCapture, ConvertIsoxmlRate, ConvertJournalCoredump,
     ConvertJournalErrorWindow, ConvertJournalHostLifecycle, ConvertJournalPowerThermal,
     ConvertJournalStorageErrors, ConvertK8sAuditEvents, ConvertLaneletDeclarations,
     ConvertLinkCueFields, ConvertM3mCalibration, ConvertM3mCapture, ConvertMavlinkStatustext,
     ConvertMavsdkGrpcSequence, ConvertModelStateDeclarations, ConvertMoosAlogWindow,
     ConvertMoosDeclarations, ConvertMoosSystemYlog, ConvertMqttPublishPackets,
     ConvertMqttRecorded, ConvertNmeaAsciiWindow, ConvertNmeaWind, ConvertOauthErrorResponses,
     ConvertOdriveIq, ConvertOnvifRecordingJob, ConvertOpcuaRecorded, ConvertParrotTelemetryExport,
     ConvertPcapngUdp, ConvertPingFrames, ConvertPoseText, ConvertPositionCsv,
     ConvertPositionCsvBatches, ConvertQuadplaneContext, ConvertRealsensePointcloud,
     ConvertRecordedAnglesCsv, ConvertRecordedRowIdentity, ConvertRequestResponseMatch,
     ConvertRinexRecords, ConvertRmfFleetState, ConvertRmfIssueReports, ConvertRmfPathAssociation,
     ConvertRmfWebsocketRecorded, ConvertRobotnikDashboardState, ConvertRosServiceSqlite,
     ConvertRosbagObservations, ConvertRosbagZstdWindow, ConvertRoverSavedBundle,
     ConvertRtcpSenderReports, ConvertRtklibSolution, ConvertRtklibSolutionWindow,
     ConvertRtpH264Stream, ConvertRtpRecords, ConvertRtpSenderClock, ConvertRtpsData,
     ConvertRtpsWindow, ConvertRtspDescription, ConvertRvizConfig, ConvertSavedFilesystemCapacity,
     ConvertSavedInspectionFeatures, ConvertSavedMissionPlan, ConvertSavedPointCloud,
     ConvertSavedPsu, ConvertSavedStateTransitions, ConvertSavedStorageState,
     ConvertSavedVideoConditions, ConvertSavedVideoFilterLog, ConvertSbfRecords,
     ConvertSdfAirframe, ConvertSensorthingsDataarray, ConvertSignalkRecorded,
     ConvertSkydioFlightTelemetry, ConvertSmartaudioRecorded, ConvertSoftwareIdentityBinding,
     ConvertStraceStorage, ConvertTensorrtOutput, ConvertUdpPayloadWindow,
     ConvertVdaFactsheetLimits, ConvertVdaLoadReport, ConvertVideoCueFlightBinding,
     ConvertVideoDetectorIntervals, ConvertVideoFrames, ConvertVlmResponse, ConvertVtxTrampReplies,
     DecodeBlackboxRecording, ExportArdupilotRecords, ExportFarmngEventlogFilterState,
     ExportFarmngEventlogWindow, NormalizeArdupilotReport, NormalizePymavlinkJsonl,
     RecordFilePresence, RemapJsonlCounter, SelectBlackboxCsvWindow}
=============================================================================
