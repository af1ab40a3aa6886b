---------------------------- MODULE MCAudioStreams ----------------------------
(***************************************************************************)
(* A small instance of AudioStreams: the devices of the primary output.    *)
(***************************************************************************)
EXTENDS AudioStreams, TLC

\* One device, another of the same card, and HDMI along with the first.
FewRoutes == {{"headset"}, {"headphone"}, {"headset", "hdmi"}}

\* What fails alone leaves everything in order; the rest does not.
CleanOrNot == {{"direct", "input"}, {"primary", "card", "create"}}

===============================================================================
