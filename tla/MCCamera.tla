------------------------------ MODULE MCCamera ------------------------------
(* Model checking instance of Camera: the service's thread makes the calls   *)
(* that take mLock, two of them besides startPreview; a second thread        *)
(* cancels a picture, without mLock.                                         *)
EXTENDS Camera, TLC
CONSTANTS c1, c2
MCCallers == {c1, c2}
MCLocked  == {"startPreview", "stopPreview", "startRecording",
              "stopRecording", "takePicture", "autoFocus", "cancelAutoFocus",
              "setMsgs", "release"}
MCCalls   == c1 :> MCLocked @@ c2 :> {"cancelPicture"}
MCMax     == c1 :> 2 @@ c2 :> 1
MCGroups  == {{"VIDEO_FRAME"}}
MCInit    == {PictureMsgs \cup {"PREVIEW_FRAME"}, {"VIDEO_FRAME", "FOCUS"}}
=============================================================================
