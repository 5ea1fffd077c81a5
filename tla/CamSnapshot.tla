----------------------------- MODULE CamSnapshot ----------------------------
(***************************************************************************)
(* Taking a picture: takePicture stops the preview, makes the heaps and    *)
(* creates the snapshot thread; that thread reads the picture from the     *)
(* driver, delivers it and starts the JPEG encoder, whose own thread       *)
(* delivers the encoded picture.                                           *)
(***************************************************************************)
EXTENDS CamState

shotRest == <<mMsgEnabled, previewVars, frameVars, recordVars, focusVars,
                lifeVars>>
PictureHeaps == {"raw", "jpeg", "thumb", "display"}  \* what deinitRaw clears

\* takePicture, with mLock held, and cancelPicture, without it, wait for the
\* old snapshot thread: they look at its flag, and while it is up sleep on
\* mSnapshotThreadWait until they are woken, and look again.
SleepsForSnap(c) ==
    /\ mSnapshotThreadRunning /\ ~MSnapshotThreadWaitLockHeld
    /\ \/ pc[c] = "takeWait" /\ Goto(c, "takeSleep")
       \/ pc[c] = "cancelWait" /\ Goto(c, "cancelSleep")
    /\ UNCHANGED <<ret, calls, shotVars, jpegVars, heaps, shotRest>>

TakePicture(c) ==
    /\ EnterLocked(c, "takePicture")
    /\ Goto(c, "takeWait")
    /\ UNCHANGED <<ret, shotVars, jpegVars, heaps, shotRest>>

TakeStops(c) ==
    /\ pc[c] = "takeWait" /\ ~mSnapshotThreadRunning
    /\ \E format \in {"jpeg", "raw"} :
          /\ mSnapshotFormat' = format
          /\ \/ CallStop(c, "takeInit")
             \/ format = "jpeg" /\ Return(c)   \* native_prepare_snapshot
    /\ UNCHANGED <<calls, snap, mSnapshotThreadRunning, mInSnapshotMode,
                   mSnapshotDone, mShutterPending, jpegVars, heaps, shotRest>>

\* initRaw or initRawSnapshot makes the heaps; the JPEG and thumbnail heaps
\* only for a picture that is to be encoded.
NewHeaps == IF mSnapshotFormat = "raw" THEN {"rawShot"}
            ELSE {"raw"} \cup IF Enabled("COMPRESSED_IMAGE")
                              THEN {"jpeg", "thumb"} ELSE {}

TakeInitFails(c) ==
    /\ pc[c] = "takeInit"
    /\ heaps' \in {heaps, heaps \ NewHeaps}
    /\ Return(c)
    /\ UNCHANGED <<calls, shotVars, jpegVars, shotRest>>

TakeCreates(c) ==
    /\ pc[c] = "takeInit" /\ obj = "open"
    /\ heaps' = (heaps \ {"jpeg"}) \cup NewHeaps
    /\ mShutterPending' = TRUE
    /\ mSnapshotThreadRunning' \in BOOLEAN
    /\ snap' = IF mSnapshotThreadRunning' THEN "born" ELSE snap
    /\ Goto(c, "takeMode")
    /\ UNCHANGED <<ret, calls, mSnapshotFormat, mInSnapshotMode,
                   mSnapshotDone, jpegVars, shotRest>>

\* Only now, whatever the thread has done and whether it was created or not.
TakeSetsMode(c) ==
    /\ pc[c] = "takeMode"
    /\ mInSnapshotMode' = TRUE
    /\ Return(c)
    /\ UNCHANGED <<calls, snap, mSnapshotFormat, mSnapshotThreadRunning,
                   mSnapshotDone, mShutterPending, jpegVars, heaps, shotRest>>

\* cancelPicture, without mLock: lets the thread fetch its picture, waits
\* for its end.
CancelPicture(c) ==
    /\ Enter(c, "cancelPicture")
    /\ mSnapshotDone' = TRUE
    /\ Goto(c, "cancelWait")
    /\ UNCHANGED <<ret, snap, mSnapshotFormat, mSnapshotThreadRunning,
                   mInSnapshotMode, mShutterPending, jpegVars, heaps, shotRest>>

CancelPictureReturns(c) ==
    /\ pc[c] = "cancelWait"
    /\ ~mSnapshotThreadRunning /\ ~MSnapshotThreadWaitLockHeld
    /\ mSnapshotDone' = FALSE
    /\ Return(c)
    /\ UNCHANGED <<calls, snap, mSnapshotFormat, mSnapshotThreadRunning,
                   mInSnapshotMode, mShutterPending, jpegVars, heaps, shotRest>>

-----------------------------------------------------------------------------
(* The snapshot thread *)

shotFlags == <<mSnapshotFormat, mSnapshotThreadRunning, mInSnapshotMode>>
shotOnly == <<clientVars, shotRest>>

\* native_start_snapshot or native_start_raw_snapshot.
SnapBegin ==
    /\ snap = "born" /\ obj # "gone"
    /\ snap' \in {"mode"} \cup (IF obj # "open" THEN {}
                                ELSE IF mSnapshotFormat = "raw" THEN {"shot"}
                                ELSE {"picture"})
    /\ UNCHANGED <<shotFlags, mSnapshotDone, mShutterPending, jpegVars, heaps,
                   shotOnly>>

\* receiveRawPicture takes mCallbackLock, and keeps it to its end.
ReceiveRawPicture ==
    /\ snap = "picture" /\ ~MCallbackLockHeld
    /\ snap' = IF Enabled("RAW_IMAGE") \/ mSnapshotDone THEN "get"
               ELSE "encode"
    /\ UNCHANGED <<shotFlags, mSnapshotDone, mShutterPending, jpegVars, heaps,
                   shotOnly>>

\* notifyShutter: the heap to display is the thumbnail's.
NotifyShutter ==
    IF mShutterPending /\ Enabled("SHUTTER")
    THEN /\ mShutterPending' = FALSE
         /\ heaps' = IF "thumb" \in heaps THEN heaps \cup {"display"}
                     ELSE heaps \ {"display"}
    ELSE UNCHANGED <<mShutterPending, heaps>>

\* native_get_picture; the picture is cropped in what heaps there are.
GetPicture ==
    /\ snap = "get"
    /\ \/ /\ snap' = "mode"
          /\ UNCHANGED <<mSnapshotDone, mShutterPending, heaps>>
       \/ /\ obj = "open"
          /\ mSnapshotDone' = FALSE
          /\ NotifyShutter
          /\ snap' = IF Enabled("RAW_IMAGE") THEN "rawCb" ELSE "encode"
    /\ UNCHANGED <<shotFlags, jpegVars, shotOnly>>

\* The raw picture is delivered; the callback may need mLock.
RawCallback ==
    /\ snap = "rawCb"
    /\ CallbackLocks => ~MLockHeld
    /\ snap' = "encode"
    /\ UNCHANGED <<shotFlags, mSnapshotDone, mShutterPending, jpegVars, heaps,
                   shotOnly>>

\* The encoder is set up and given the picture; when it refuses, its flag
\* stays set.
Encode ==
    /\ snap = "encode" /\ snap' = "mode"
    /\ \/ /\ Enabled("COMPRESSED_IMAGE")
          /\ mJpegThreadRunning' = TRUE
          /\ \/ jpeg' = "encoding" /\ UNCHANGED heaps
             \/ UNCHANGED jpeg /\ heaps' = heaps \ PictureHeaps
       \/ heaps' = heaps \ PictureHeaps /\ UNCHANGED jpegVars
    /\ UNCHANGED <<shotFlags, mSnapshotDone, mShutterPending, shotOnly>>

\* receiveRawSnapshot, its callback included.
ReceiveRawSnapshot ==
    /\ snap = "shot" /\ ~MCallbackLockHeld
    /\ snap' = "mode"
    /\ \/ ~Enabled("COMPRESSED_IMAGE") /\ UNCHANGED mShutterPending
          /\ heaps' = heaps \ {"rawShot"}
       \/ /\ Enabled("COMPRESSED_IMAGE")    \* native_get_picture fails
          /\ UNCHANGED <<mShutterPending, heaps>>
       \/ /\ Enabled("COMPRESSED_IMAGE") /\ obj = "open"
          /\ mShutterPending' = (mShutterPending /\ ~Enabled("SHUTTER"))
          /\ heaps' = heaps \ {"rawShot"}
    /\ UNCHANGED <<shotFlags, mSnapshotDone, jpegVars, shotOnly>>

SnapClearsMode ==
    /\ snap = "mode" /\ snap' = "jpegWait"
    /\ mInSnapshotMode' = FALSE /\ mSnapshotFormat' = "none"
    /\ UNCHANGED <<mSnapshotThreadRunning, mSnapshotDone, mShutterPending,
                   jpegVars, heaps, shotOnly>>

\* Faulty variant: the heaps go without a wait for the encoder.
SnapDropsHeaps ==
    /\ snap = "jpegWait"
    /\ snap' = "join" /\ heaps' = heaps \ PictureHeaps
    /\ UNCHANGED <<shotFlags, mSnapshotDone, mShutterPending, jpegVars, shotOnly>>

SnapWaitsForJpeg ==
    /\ snap = "jpegWait" /\ ~mJpegThreadRunning
    /\ snap' = "join"
    /\ UNCHANGED <<shotFlags, mSnapshotDone, mShutterPending, jpegVars, heaps,
                   shotOnly>>

\* LINK_jpeg_encoder_join, and the heaps go.
SnapJoins ==
    /\ snap = "join" /\ jpeg = "none"
    /\ snap' = "end" /\ heaps' = heaps \ PictureHeaps
    /\ UNCHANGED <<shotFlags, mSnapshotDone, mShutterPending, jpegVars, shotOnly>>

\* mSnapshotThreadWait.signal() wakes one of those who sleep.
AsleepForSnap == {c \in Callers : pc[c] \in {"takeSleep", "cancelSleep"}}
SignalSnapshotThread ==
    IF AsleepForSnap = {} THEN UNCHANGED pc
    ELSE \E c \in AsleepForSnap :
            Goto(c, IF pc[c] = "takeSleep" THEN "takeWait" ELSE "cancelWait")

SnapEnds ==
    /\ snap = "end" /\ ~MSnapshotThreadWaitLockHeld
    /\ snap' = "none" /\ mSnapshotThreadRunning' = FALSE
    /\ SignalSnapshotThread
    /\ UNCHANGED <<ret, calls, mSnapshotFormat, mInSnapshotMode, mSnapshotDone,
                   mShutterPending, jpegVars, heaps, shotRest>>

-----------------------------------------------------------------------------
(* The encoder's thread *)

\* receiveJpegPicture takes mCallbackLock and delivers the picture ...
JpegDelivers ==
    /\ jpeg = "encoding" /\ ~MCallbackLockHeld
    /\ jpeg' = "deliver"
    /\ UNCHANGED <<mJpegThreadRunning, shotVars, heaps, shotOnly>>

\* ... by a callback that may need mLock, and reports its end.
JpegEnds ==
    /\ jpeg = "deliver"
    /\ (CallbackLocks /\ Enabled("COMPRESSED_IMAGE")) => ~MLockHeld
    /\ jpeg' = "none" /\ mJpegThreadRunning' = FALSE
    /\ UNCHANGED <<shotVars, heaps, shotOnly>>

\* Any event but JPEG_EVENT_DONE is ignored by receive_jpeg_callback.
JpegFails ==
    /\ jpeg = "encoding"
    /\ jpeg' = "none"
    /\ UNCHANGED <<mJpegThreadRunning, shotVars, heaps, shotOnly>>
=============================================================================
