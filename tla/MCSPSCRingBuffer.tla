-------------------------- MODULE MCSPSCRingBuffer --------------------------
(* An instance of the ring for TLC: buffers of up to two stereo frames, of *)
(* one byte per channel.  The channels of a frame differ, and so do the two*)
(* frames, so that a stale byte and a swapped channel show.                *)
EXTENDS SPSCRingBuffer

Frames == {<<0, 1>>, <<1, 0>>}

FrameBuffers == {<<>>} \cup Frames \cup {f \o g : f, g \in Frames}
=============================================================================
