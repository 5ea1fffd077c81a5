------------------------------- MODULE Camera -------------------------------
(***************************************************************************)
(* The camera object: the threads of CamPreview, CamFocus, CamSnapshot and *)
(* CamLife together, and what must hold of them.                           *)
(***************************************************************************)
EXTENDS CamPreview, CamFocus, CamSnapshot, CamLife

CallBegins(c) == \/ StartPreview(c) \/ StopPreview(c) \/ StartRecording(c)
                 \/ StopRecording(c) \/ TakePicture(c) \/ CancelPicture(c)
                 \/ AutoFocus(c) \/ CancelAutoFocus(c) \/ SetMsgs(c)
                 \/ Release(c)
CallGoesOn(c) == \/ InitPreviewFrameWait(c) \/ InitPreview(c)
                 \/ NativeStart(c) \/ StopNative(c)
                 \/ AutoFocusStarts(c) \/ CancelBusy(c)
                 \/ CancelTakesLock(c) \/ CancelGivesLock(c)
                 \/ SleepsForSnap(c) \/ TakeStops(c) \/ TakeInitFails(c) \/ TakeCreates(c)
                 \/ TakeSetsMode(c) \/ CancelPictureReturns(c)
                 \/ ReleaseJoins(c) \/ ReleaseClears(c) \/ ReleaseCloses(c)
FrameThread == \/ FrameBegin \/ FrameArrives \/ FrameLooksUp \/ FrameCallback
               \/ FrameRecord \/ FrameRecLock \/ FrameLeaves \/ FrameEnds
               \/ FrameTimeoutTold
FocusThread == \/ FocusSkipped \/ FocusTries \/ FocusBegins \/ FocusEnds
               \/ FocusDone
SnapThread == \/ SnapBegin \/ ReceiveRawPicture \/ GetPicture \/ RawCallback
              \/ Encode \/ ReceiveRawSnapshot \/ SnapClearsMode
              \/ SnapWaitsForJpeg \/ SnapJoins \/ SnapEnds
JpegThread == JpegDelivers \/ JpegEnds \/ JpegFails
Creator == CreateInstance \/ CreateInstanceAnswers

Next == \/ \E c \in Callers : CallBegins(c) \/ CallGoesOn(c)
        \/ ReleaseRecordingFrame
        \/ FrameThread \/ FocusThread \/ SnapThread \/ JpegThread
        \/ FrameTimeout \/ Destroy \/ TimePasses \/ Creator

Spec == Init /\ [][Next]_vars

\* Every thread that can go on does; the client gives back the recording
\* frames it has; time passes.
Fairness == /\ \A c \in Callers : WF_vars(CallGoesOn(c))
            /\ WF_vars(ReleaseRecordingFrame)
            /\ WF_vars(FrameThread) /\ WF_vars(FocusThread)
            /\ WF_vars(SnapThread) /\ WF_vars(JpegThread)
            /\ WF_vars(CreateInstanceAnswers \/ TimePasses \/ Destroy)
FairSpec == Spec /\ Fairness

-----------------------------------------------------------------------------
(* What must hold *)

\* A heap is there whenever a thread uses it: the preview heap while a frame
\* is delivered, the heap to display when the raw picture is, the raw and
\* JPEG heaps while the encoder works.  Until release, which may come while
\* a picture is taken, clears them.
HeapsInUse ==
    /\ frame \in {"loop", "timeout", "arrived", "callback", "record", "recLock",
                  "recWait", "recWoken"} => mPreviewHeap
    /\ obj = "open" /\ ~CallerAt({"relClear", "relClose"}) =>
         /\ snap = "rawCb" => "display" \in heaps
         /\ jpeg # "none" => {"raw", "jpeg"} \subseteq heaps
         /\ snap = "shot" => "rawShot" \in heaps

\* The preview is not started in the driver between the start of a snapshot
\* in it and the end of fetching the picture (initPreview's wait for
\* mInSnapshotMode, which takePicture sets late).
NoPreviewInSnapshot ==
    [][(\E c \in Callers : NativeStart(c)) /\ ~mCameraRunning
         => snap \notin {"picture", "get", "shot"}]_vars

\* A thread is created only when the one before it is done with the buffers
\* and flags of its kind.  (What a focus thread has left to do then is to
\* tell the client.)
OneThreadOfAKind ==
    [][/\ frame' = "born" /\ frame # "born" => frame = "none"
       /\ snap' = "born" /\ snap # "born" => snap = "none"
       /\ af' = "born" /\ af # "born" => af = "none"]_vars

\* The driver focuses only while the preview runs, and the preview is not
\* stopped under a focus.
FocusOnPreview == af = "focusing" => mCameraRunning

\* Every call returns, and so does createInstance, but for four places where
\* the code may wait for ever: initPreview for mInSnapshotMode, which
\* takePicture set after the thread cleared it; initPreview for a frame
\* thread that waits for the release of a frame which startRecording took
\* back; takePicture and cancelPicture for a snapshot thread that waits for
\* the encoder, which failed and left mJpegThreadRunning set; and for one
\* that has gone and whose only signal the other of the two got.
ModeLeftSet(c) == /\ pc[c] = "initMode" /\ mInSnapshotMode
                  /\ snap \in {"jpegWait", "join", "end", "none"}
ReleaseLost(c) == pc[c] = "initWait" /\ frame = "recWait" /\ ~owed
EncoderLost(c) == /\ c \in AsleepForSnap /\ snap = "jpegWait"
                  /\ mJpegThreadRunning /\ jpeg = "none"
SignalLost(c)  == c \in AsleepForSnap /\ ~mSnapshotThreadRunning
WaitsForEver(c) == \/ ModeLeftSet(c) \/ ReleaseLost(c)
                   \/ EncoderLost(c) \/ SignalLost(c)
CallsReturn ==
    /\ \A c \in Callers : []<>(pc[c] = "idle") \/ <>[]WaitsForEver(c)
    /\ []<>(creator # "waiting")

\* "We DO NOT WAIT for it to complete here": no call waits, with mLock, for
\* a frame thread that needs mLock to get out of its callback.
NoWaitForCallback ==
    ~(CallerAt({"initWait"}) /\ frame = "callback" /\ CallbackLocks
        /\ "PREVIEW_FRAME" \in fmsgs)

\* "Wait until the previous release is done": an instance that is handed out
\* is not one a client is releasing.
PreviousReleaseDone ==
    creator = "existing" =>
        obj = "open" /\ ~CallerAt({"relJoin", "relClear", "relClose"})
=============================================================================
