------------------------------ MODULE CamState ------------------------------
(***************************************************************************)
(* The state of one QualcommCameraHardware object                          *)
(* (src/libcamera/QualcommCameraHardware.cpp) and of the threads in it:    *)
(* callers of its public methods, the frame thread, the snapshot thread,   *)
(* the JPEG encoder's thread and the autofocus thread.  CamPreview,        *)
(* CamFocus, CamSnapshot and CamLife hold their steps; Camera composes     *)
(* them.                                                                   *)
(*                                                                         *)
(* mCurrentTarget is TARGET_MSM7627, the one storeTargetType stores for    *)
(* this device, so the video thread and the overlay of other targets do    *)
(* not exist.  A mutex is no variable: who holds it follows from where the *)
(* threads are, and is written below as a predicate.                       *)
(***************************************************************************)
EXTENDS Naturals, FiniteSets

CONSTANTS Callers,        \* threads of the camera service
          Calls,          \* [Callers -> SUBSET CallNames]: who calls what
          MsgGroups,      \* the sets of CAMERA_MSG_* the service switches
          CallbackLocks,  \* callbacks call disableMsgType, which takes mLock
          InitMsgs,       \* what the service has enabled when a behaviour begins
          MaxCalls        \* bound: calls of each caller, startPreview apart

CallNames == {"startPreview", "stopPreview", "startRecording",
              "stopRecording", "takePicture", "cancelPicture", "autoFocus",
              "cancelAutoFocus", "setMsgs", "release"}
Msgs == {"FOCUS", "SHUTTER", "PREVIEW_FRAME", "VIDEO_FRAME", "RAW_IMAGE",
         "COMPRESSED_IMAGE"}

ASSUME CameraAssumption == /\ Calls \in [Callers -> SUBSET CallNames]
                           /\ MsgGroups \subseteq SUBSET Msgs
                           /\ InitMsgs \subseteq SUBSET Msgs
                           /\ CallbackLocks \in BOOLEAN
                           /\ MaxCalls \in [Callers -> Nat]

VARIABLES
  pc, ret, calls,         \* callers; where to go on after stopPreviewInternal,
                          \* or "none"
  mMsgEnabled,
  mCameraRunning, mPreviewInitialized, mPreviewHeap, camframe_timeout_flag,
  frame, fmsgs,           \* the frame thread, and the messages it looked up
  mFrameThreadRunning, camframe_exit,
  mReleasedRecordingFrame,
  owed,                   \* the client holds a recording frame
  af, afCancelled, mAutoFocusThreadRunning,
  snap, jpeg,             \* the snapshot thread, and the encoder's thread
  mSnapshotFormat, mSnapshotThreadRunning, mInSnapshotMode,
  mJpegThreadRunning, mSnapshotDone, mShutterPending,
  heaps,                  \* the picture heaps that are not NULL
  obj,                    \* the object, from open to gone
  singleton_releasing, late, creator

clientVars  == <<pc, ret, calls>>
previewVars == <<mCameraRunning, mPreviewInitialized, mPreviewHeap,
                 camframe_timeout_flag>>
frameVars   == <<frame, fmsgs, mFrameThreadRunning, camframe_exit>>
recordVars  == <<mReleasedRecordingFrame, owed>>
focusVars   == <<af, afCancelled, mAutoFocusThreadRunning>>
shotVars    == <<snap, mSnapshotFormat, mSnapshotThreadRunning,
                 mInSnapshotMode, mSnapshotDone, mShutterPending>>
jpegVars    == <<jpeg, mJpegThreadRunning>>
lifeVars    == <<obj, singleton_releasing, late, creator>>
vars == <<clientVars, mMsgEnabled, previewVars, frameVars, recordVars,
          focusVars, shotVars, jpegVars, heaps, lifeVars>>

-----------------------------------------------------------------------------
(* Locks *)

CallerAt(ls) == \E c \in Callers : pc[c] \in ls
MLockHeld    == CallerAt({"initWait", "initMode", "nativeStart", "cancelAf",
                          "cancelHeld", "stopNative", "takeWait", "takeSleep",
                          "takeInit", "takeMode", "afWait", "relJoin",
                          "relClear", "relClose"})
MAfLockHeld  == af \in {"tried", "focusing"} \/ CallerAt({"cancelHeld"})
MAutoFocusThreadLockHeld == af \in {"tried", "focusing", "refused", "closing"}
MCameraRunningLockHeld   == af = "focusing"
MCamframeTimeoutLockHeld == frame = "timeout"
MCallbackLockHeld == snap \in {"get", "rawCb", "encode"} \/ jpeg = "deliver"
\* takePicture keeps it from its wait to the creation of the thread.
MSnapshotThreadWaitLockHeld ==
    \E c \in Callers : \/ pc[c] = "takeInit"
                       \/ /\ pc[c] \in {"cancelAf", "cancelHeld",
                                        "stopNative"}
                          /\ ret[c] = "takeInit"

-----------------------------------------------------------------------------
(* Callers *)

Enabled(m) == m \in mMsgEnabled

\* A call by c begins; one that takes mLock waits for it.
Enter(c, name) == /\ pc[c] = "idle" /\ name \in Calls[c]
                  /\ obj = "open"
                  /\ IF name = "startPreview" THEN UNCHANGED calls
                     ELSE /\ calls[c] < MaxCalls[c]
                          /\ calls' = [calls EXCEPT ![c] = @ + 1]
EnterLocked(c, name) == Enter(c, name) /\ ~MLockHeld

Goto(c, l) == pc' = [pc EXCEPT ![c] = l]
Return(c)  == Goto(c, "idle") /\ ret' = [ret EXCEPT ![c] = "none"]

\* stopPreviewInternal is called and goes on at k.
CallStop(c, k) ==
    IF ~mCameraRunning
    THEN Goto(c, k) /\ ret' = [ret EXCEPT ![c] = "none"]
    ELSE /\ Goto(c, IF Enabled("FOCUS") THEN "cancelAf" ELSE "stopNative")
         /\ ret' = [ret EXCEPT ![c] = k]

\* Control calls reach the driver only while its descriptor is open.
DriverOk == IF obj = "open" THEN BOOLEAN ELSE {FALSE}

\* The client has given the recording frame back, or recording ends: the
\* frame thread, if it waits for that, is signalled.
SignalRecordFrame ==
    /\ mReleasedRecordingFrame' = TRUE
    /\ frame' = IF frame = "recWait" THEN "recWoken" ELSE frame

Init ==
    /\ pc = [c \in Callers |-> "idle"] /\ ret = [c \in Callers |-> "none"]
    /\ calls = [c \in Callers |-> 0]
    /\ mMsgEnabled \in InitMsgs
    /\ mCameraRunning = FALSE /\ mPreviewInitialized = FALSE
    /\ mPreviewHeap = FALSE /\ camframe_timeout_flag = FALSE
    /\ frame = "none" /\ fmsgs = {}
    /\ mFrameThreadRunning = FALSE /\ camframe_exit = FALSE
    /\ mReleasedRecordingFrame = FALSE /\ owed = FALSE
    /\ af = "none" /\ afCancelled = FALSE /\ mAutoFocusThreadRunning = FALSE
    /\ snap = "none" /\ jpeg = "none" /\ mSnapshotFormat = "none"
    /\ mSnapshotThreadRunning = FALSE /\ mInSnapshotMode = FALSE
    /\ mJpegThreadRunning = FALSE /\ mSnapshotDone = FALSE
    /\ mShutterPending = FALSE
    /\ heaps = {}
    /\ obj = "open" /\ singleton_releasing = FALSE /\ late = FALSE
    /\ creator = "idle"

\* enableMsgType and disableMsgType.  The service leaves a picture's messages
\* alone while the picture is taken.
PictureMsgs == {"SHUTTER", "RAW_IMAGE", "COMPRESSED_IMAGE"}
SetMsgs(c) ==
    /\ EnterLocked(c, "setMsgs")
    /\ \E g \in MsgGroups :
          /\ g \cap PictureMsgs = {} \/ ~mSnapshotThreadRunning
          /\ \/ mMsgEnabled' = mMsgEnabled \cup g
             \/ mMsgEnabled' = mMsgEnabled \ g
          /\ mMsgEnabled' # mMsgEnabled
    /\ UNCHANGED <<pc, ret, previewVars, frameVars, recordVars, focusVars,
                   shotVars, jpegVars, heaps, lifeVars>>
=============================================================================
