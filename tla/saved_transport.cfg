\* Small number spaces so that every window and every wrap is reached.
SPECIFICATION Spec
CONSTANTS
    RtpSeqMod = 8
    RtpTsMod = 8
    MaxDropout = 4
    MaxMisorder = 2
    MaxForward = 3
    RecentSequences = 2
    MaxSources = 2
    RtpTypes = {96}
    RtpPackets <- RtpSample
    MaxRtpPackets = 4
    H264SeqMod = 3
    H264TsMod = 8
    MaxForwardTicks = 3
    H264Type = 96
    H264Packets <- AvcSample
    MaxH264Packets = 5
    TransferTimeout = 2
    CanFrames <- FrameSample
    MaxCanFrames = 6
INVARIANTS
    SequenceNumbersAreSound
    RebuiltIsFaithful
    TransfersAreSound
\* a capture ends
CHECK_DEADLOCK FALSE
