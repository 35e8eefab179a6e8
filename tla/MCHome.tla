-------------------------------- MODULE MCHome --------------------------------
(***************************************************************************)
(* Messages and cameras for Home, for TLC.                                 *)
(***************************************************************************)
EXTENDS Home

CONSTANTS v1, v2 \* values of messages

-----------------------------------------------------------------------------
MCValues == {v1, v2}

(* Three messages: one with both URLs, one with a video URL and no text,   *)
(* and one with a text only.                                               *)

MCSent ==
    {[message |-> v1, video |-> v1, audio |-> v1],
     [message |-> Nothing, video |-> v2, audio |-> Nothing],
     [message |-> v2, video |-> Nothing, audio |-> Nothing]}

(* Two cameras: one gives the length of each frame, in headers of two      *)
(* sizes, the other does not.  Their frames are four to ten bytes long; one *)
(* holds an end of an image inside, and one has a fill byte before its     *)
(* last marker, which only the camera without lengths sends.               *)

CameraFrames ==
    {<<255, 216, 1, 2, 255, 217>>, <<255, 216, 255, 217>>,
     <<255, 216, 3, 255, 217>>, <<255, 216, 4, 5, 6, 4, 5, 6, 255, 217>>,
     <<255, 216, 255, 217, 7, 255, 217>>, <<255, 216, 8, 255, 255, 217>>}

IsPlain(f) == \A i \in 2..Len(f) - 2 : f[i] # 255

Part(header, f) == [header |-> header, frame |-> f, plain |-> IsPlain(f)]

MCCameras ==
    {{Part(h \o <<1000 + Len(f)>>, f) : h \in {<<>>, <<0>>},
                    f \in {g \in CameraFrames : Len(g) # 6}}}
    \cup {{Part(<<0, 0>>, f) : f \in CameraFrames}}
=============================================================================
