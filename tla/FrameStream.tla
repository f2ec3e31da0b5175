---------------------------- MODULE FrameStream ----------------------------
(***************************************************************************)
(* What the DSP loop promises about the sample stream: a frame is made of  *)
(* two consecutive half-frames, and each frame overlaps the one before it  *)
(* by exactly one half.  Half-frames are numbered 1, 2, ... in the order   *)
(* the input delivered them; 0 stands for a half that is not loaded.       *)
(***************************************************************************)
EXTENDS Naturals

VARIABLES halfA, halfB

stream == <<halfA, halfB>>

StreamInit == halfA = 0 /\ halfB = 0

LoadFirst == halfA = 0 /\ halfA' = 1 /\ UNCHANGED halfB

LoadSecond == halfA = 1 /\ halfB = 0 /\ halfB' = 2 /\ UNCHANGED halfA

Advance == halfB # 0 /\ halfA' = halfB /\ halfB' = halfB + 1

StreamNext == LoadFirst \/ LoadSecond \/ Advance

StreamSpec == StreamInit /\ [][StreamNext]_stream
=============================================================================
