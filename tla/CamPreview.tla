----------------------------- MODULE CamPreview -----------------------------
(***************************************************************************)
(* Preview and recording: startPreview, stopPreview, startRecording,       *)
(* stopRecording, releaseRecordingFrame, and the detached frame thread     *)
(* that delivers preview frames until LINK_camframe_terminate is called    *)
(* and then drops the preview heap.  The library's cam_frame is taken to   *)
(* return when it was terminated, however early that was.                  *)
(***************************************************************************)
EXTENDS CamState

previewRest == <<mMsgEnabled, focusVars, shotVars, jpegVars, heaps, lifeVars>>

\* startPreviewInternal, up to its first wait.
CallStart(c) ==
    /\ IF mCameraRunning THEN Return(c)
       ELSE /\ Goto(c, IF mPreviewInitialized THEN "nativeStart"
                       ELSE "initWait")
            /\ UNCHANGED ret

StartPreview(c) ==
    /\ EnterLocked(c, "startPreview")
    /\ CallStart(c)
    /\ UNCHANGED <<previewVars, frameVars, recordVars, previewRest>>

StartRecording(c) ==
    /\ EnterLocked(c, "startRecording")
    /\ mReleasedRecordingFrame' = FALSE
    /\ CallStart(c)
    /\ UNCHANGED <<previewVars, frameVars, owed, previewRest>>

\* Faulty variant: initPreview does not wait for the old frame thread.
InitPreviewNoWait(c) ==
    /\ pc[c] = "initWait"
    /\ Goto(c, "initMode")
    /\ UNCHANGED <<ret, calls, previewVars, frameVars, recordVars, previewRest>>

\* initPreview waits for the old frame thread ...
InitPreviewFrameWait(c) ==
    /\ pc[c] = "initWait" /\ ~mFrameThreadRunning
    /\ Goto(c, "initMode")
    /\ UNCHANGED <<ret, calls, previewVars, frameVars, recordVars, previewRest>>

\* Faulty variant: initPreview does not wait for the snapshot.
InitPreviewInSnapshot(c) ==
    /\ pc[c] = "initMode" /\ frame = "none"
    /\ mPreviewHeap' = TRUE
    /\ mFrameThreadRunning' = TRUE
    /\ frame' = "born" /\ camframe_exit' = FALSE /\ fmsgs' = {}
    /\ mPreviewInitialized' = TRUE
    /\ Goto(c, "nativeStart")
    /\ UNCHANGED <<ret, calls, mCameraRunning, camframe_timeout_flag,
                   recordVars, previewRest>>

\* ... and for the snapshot, makes the heap, sets the dimensions and creates
\* the thread.  Each may fail; a heap that was made stays.
InitPreview(c) ==
    /\ pc[c] = "initMode" /\ ~mInSnapshotMode
    /\ \/ \E made \in BOOLEAN :  \* no heap, no dimensions or no thread
             /\ mPreviewHeap' = made
             /\ Return(c)
             /\ UNCHANGED <<mPreviewInitialized, frameVars>>
       \/ /\ obj = "open"
          /\ mPreviewHeap' = TRUE
          /\ mFrameThreadRunning' = TRUE
          /\ frame' = "born" /\ camframe_exit' = FALSE /\ fmsgs' = {}
          /\ mPreviewInitialized' = TRUE
          /\ Goto(c, "nativeStart")
          /\ UNCHANGED ret
    /\ UNCHANGED <<calls, mCameraRunning, camframe_timeout_flag, recordVars,
                   previewRest>>

\* native_start_preview, under mCameraRunningLock; when it fails the frame
\* thread is told to go.
NativeStart(c) ==
    /\ pc[c] = "nativeStart" /\ ~MCameraRunningLockHeld
    /\ mCameraRunning' \in DriverOk
    /\ mPreviewInitialized' = mCameraRunning'
    /\ camframe_exit' = (camframe_exit \/ ~mCameraRunning')
    /\ Return(c)
    /\ UNCHANGED <<calls, mPreviewHeap, camframe_timeout_flag, frame, fmsgs,
                   mFrameThreadRunning, recordVars, previewRest>>

\* stopPreview leaves a recording alone.
StopPreview(c) ==
    /\ EnterLocked(c, "stopPreview")
    /\ IF Enabled("VIDEO_FRAME") THEN UNCHANGED <<pc, ret>>
       ELSE CallStop(c, "idle")
    /\ UNCHANGED <<previewVars, frameVars, recordVars, previewRest>>

\* stopRecording leaves a preview alone.
StopRecording(c) ==
    /\ EnterLocked(c, "stopRecording")
    /\ SignalRecordFrame
    /\ IF Enabled("PREVIEW_FRAME") THEN UNCHANGED <<pc, ret>>
       ELSE CallStop(c, "idle")
    /\ UNCHANGED <<previewVars, fmsgs, mFrameThreadRunning, camframe_exit,
                   owed, previewRest>>

\* Faulty variant: stopPreviewInternal does not take mCameraRunningLock.
StopNativeUnlocked(c) ==
    /\ pc[c] = "stopNative"
    /\ mCameraRunning' = FALSE
    /\ camframe_exit' = TRUE /\ mPreviewInitialized' = FALSE
    /\ Goto(c, ret[c]) /\ ret' = [ret EXCEPT ![c] = "none"]
    /\ UNCHANGED <<calls, mPreviewHeap, camframe_timeout_flag, frame, fmsgs,
                   mFrameThreadRunning, recordVars, previewRest>>

\* The end of stopPreviewInternal.  After a frame timeout the driver is not
\* told; when the driver refuses, the preview goes on.
StopNative(c) ==
    /\ pc[c] = "stopNative"
    /\ ~MCamframeTimeoutLockHeld /\ ~MCameraRunningLockHeld
    /\ \E ok \in DriverOk :
          /\ mCameraRunning' = ~(ok \/ camframe_timeout_flag)
          /\ IF ~mCameraRunning' /\ mPreviewInitialized
             THEN camframe_exit' = TRUE /\ mPreviewInitialized' = FALSE
             ELSE UNCHANGED <<camframe_exit, mPreviewInitialized>>
    /\ Goto(c, ret[c]) /\ ret' = [ret EXCEPT ![c] = "none"]
    /\ UNCHANGED <<calls, mPreviewHeap, camframe_timeout_flag, frame, fmsgs,
                   mFrameThreadRunning, recordVars, previewRest>>

\* The client gives a recording frame back, in any thread and without mLock.
ReleaseRecordingFrame ==
    /\ owed
    /\ SignalRecordFrame
    /\ owed' = FALSE
    /\ UNCHANGED <<clientVars, previewVars, fmsgs, mFrameThreadRunning,
                   camframe_exit, previewRest>>

-----------------------------------------------------------------------------
(* The frame thread *)

frameOnly == <<mFrameThreadRunning, camframe_exit, clientVars,
                     previewVars, previewRest>>

\* frame_thread: the object is still there, LINK_cam_frame begins.
FrameBegin ==
    /\ frame = "born" /\ obj # "gone"
    /\ frame' = "loop"
    /\ UNCHANGED <<fmsgs, recordVars, frameOnly>>

\* receivePreviewFrame: the camera is running, seen without a lock.
FrameArrives ==
    /\ frame = "loop" /\ ~camframe_exit /\ mCameraRunning
    /\ frame' = "arrived"
    /\ UNCHANGED <<fmsgs, recordVars, frameOnly>>

\* What is enabled is looked up once, under mCallbackLock, and used until
\* the frame is done with.
FrameLooksUp ==
    /\ frame = "arrived" /\ ~MCallbackLockHeld
    /\ fmsgs' = mMsgEnabled \cap {"PREVIEW_FRAME", "VIDEO_FRAME"}
    /\ frame' = "callback"
    /\ UNCHANGED <<recordVars, frameOnly>>

\* The preview callback is made; one that calls disableMsgType needs mLock.
FrameCallback ==
    /\ frame = "callback"
    /\ (CallbackLocks /\ "PREVIEW_FRAME" \in fmsgs) => ~MLockHeld
    /\ frame' = IF "VIDEO_FRAME" \in fmsgs THEN "record" ELSE "loop"
    /\ fmsgs' = {}
    /\ UNCHANGED <<recordVars, frameOnly>>

\* The recording callback hands the frame to the client.
FrameRecord ==
    /\ frame = "record"
    /\ owed' = TRUE /\ frame' = "recLock"
    /\ UNCHANGED <<fmsgs, mReleasedRecordingFrame, frameOnly>>

\* Under mRecordFrameLock: wait once, unless it was released already.
FrameRecLock ==
    /\ frame \in {"recLock", "recWoken"}
    /\ IF frame = "recLock" /\ ~mReleasedRecordingFrame
       THEN frame' = "recWait" /\ UNCHANGED mReleasedRecordingFrame
       ELSE frame' = "loop" /\ mReleasedRecordingFrame' = FALSE
    /\ UNCHANGED <<fmsgs, owed, frameOnly>>

\* LINK_cam_frame returns and the preview heap is dropped ...
FrameLeaves ==
    /\ frame = "loop" /\ camframe_exit
    /\ frame' = "leaving" /\ mPreviewHeap' = FALSE
    /\ UNCHANGED <<fmsgs, mFrameThreadRunning, camframe_exit, clientVars,
                   mCameraRunning, mPreviewInitialized,
                   camframe_timeout_flag, recordVars, previewRest>>

\* Faulty variant: the thread ends and nobody is told.
FrameEndsUntold ==
    /\ frame = "leaving" /\ frame' = "none"
    /\ UNCHANGED <<fmsgs, recordVars, frameOnly>>

\* ... and then whoever waits for the thread is told.
FrameEnds ==
    /\ frame = "leaving"
    /\ frame' = "none" /\ mFrameThreadRunning' = FALSE
    /\ UNCHANGED <<fmsgs, camframe_exit, clientVars, previewVars, recordVars,
                   previewRest>>

\* receive_camframetimeout, called by the library's loop: no frame came for
\* too long.  The flag is never cleared in the life of the object.
FrameTimeout ==
    /\ frame = "loop" /\ mCameraRunning /\ ~camframe_timeout_flag
    /\ camframe_timeout_flag' = TRUE
    /\ frame' = "timeout"
    /\ UNCHANGED <<fmsgs, mFrameThreadRunning, camframe_exit, clientVars,
                   mCameraRunning, mPreviewInitialized, mPreviewHeap,
                   recordVars, previewRest>>

\* It keeps mCamframeTimeoutLock until the client has been told.
FrameTimeoutTold ==
    /\ frame = "timeout"
    /\ frame' = "loop"
    /\ UNCHANGED <<fmsgs, recordVars, frameOnly>>
=============================================================================
