--------------------------- MODULE MCAudioEngine ---------------------------
(* Small instances of AudioEngine; the bound is set in the .cfg files.     *)
EXTENDS AudioEngine
=============================================================================
