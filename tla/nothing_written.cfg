\* The words a refused convert_rtp_h264_stream ends with.
SPECIFICATION OutSpec
CONSTANTS
    Processes = {"p"}
    Tools <- H264Tool
INVARIANTS
    NothingWrittenIsTrue
CHECK_DEADLOCK FALSE
