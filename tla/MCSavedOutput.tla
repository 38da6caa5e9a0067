--------------------------- MODULE MCSavedOutput ---------------------------
(* The tools of scripts/ for TLC: two processes on one target. *)
EXTENDS SavedOutputTools

(* convert_ping_frames asks for its target and then opens it with mode "w": *)
(* two of its processes can overwrite each other, see the README.           *)
ExclusiveTools == AllTools \ {ConvertPingFrames}

(* The premises of the theorems about them. *)
ASSUME ToolsAreSafe    == \A t \in ExclusiveTools : SafeTool(t)
ASSUME ToolsAreOrdered == \A t \in ExclusiveTools : OrderedTool(t)

H264Tool == {ConvertRtpH264Stream}
=============================================================================
