---------------------------- MODULE CameraProofs ----------------------------
(***************************************************************************)
(* Proofs about Camera, for any set of callers, any calls they make and    *)
(* any messages: the threads of a kind follow each other, the preview is   *)
(* not started in a snapshot, the driver focuses on a preview only, and no *)
(* thread finds the heap it works on gone.                                 *)
(*                                                                         *)
(* The argument: mLock keeps all but one caller out of the waits and what  *)
(* follows them; a thread's running flag is up exactly while the thread    *)
(* exists; so what a caller found when its wait ended is still true when   *)
(* it creates a thread.  The heaps takePicture makes fit the messages that *)
(* are enabled then, which stay enabled until the thread has gone; who     *)
(* clears the heaps has waited for their users, or has closed the object.  *)
(***************************************************************************)
EXTENDS Camera, TLAPS

\* Where callers are with mLock held: the labels of MLockHeld.
Locked == {"initWait", "initMode", "nativeStart", "cancelAf", "cancelHeld",
           "stopNative", "takeWait", "takeSleep", "takeInit", "takeMode",
           "afWait", "relJoin", "relClear", "relClose"}
Labels == Locked \cup {"idle", "cancelWait", "cancelSleep"}
Conts  == {"none", "idle", "takeInit", "relJoin"}

\* The states of the snapshot thread in which mInSnapshotMode ought to be set.
InSnapshot == {"born", "picture", "get", "shot", "rawCb", "encode", "mode"}

CallersOK == /\ pc \in [Callers -> Labels]
             /\ ret \in [Callers -> Conts]
             /\ \A c \in Callers : pc[c] = "stopNative" => ret[c] # "none"

\* One caller at a time has mLock.
Alone == \A c, d \in Callers : pc[c] \in Locked /\ pc[d] \in Locked => c = d

FlagsOK == /\ mFrameThreadRunning = (frame # "none")
           /\ mSnapshotThreadRunning = (snap # "none")
           /\ mAutoFocusThreadRunning = (af # "none")

\* c has waited for the snapshot thread and has not made another yet.
WaitedForSnap(c) ==
    \/ pc[c] = "takeInit"
    \/ /\ pc[c] \in {"cancelAf", "cancelHeld", "stopNative"}
       /\ ret[c] = "takeInit"

\* What a caller found at the end of a wait holds as long as it has mLock.
WaitedOK ==
    \A c \in Callers : /\ pc[c] = "initMode" => frame = "none"
                       /\ WaitedForSnap(c) => snap = "none"
                       /\ pc[c] = "nativeStart" => snap \notin InSnapshot

\* The mode is set from a picture's start to its end, but for the moment
\* before takePicture sets it, in which takePicture still has mLock.
ModeOK == snap \in InSnapshot => \/ mInSnapshotMode = TRUE
                                 \/ \E c \in Callers : pc[c] = "takeMode"

\* A preview that is initialized runs, or is about to be started.
PreviewOK == /\ mPreviewInitialized \in BOOLEAN
             /\ mCameraRunning \in BOOLEAN
             /\ mPreviewInitialized /\ ~mCameraRunning
                  => \E c \in Callers : pc[c] = "nativeStart"

IInv == CallersOK /\ Alone /\ FlagsOK /\ WaitedOK /\ ModeOK /\ PreviewOK

\* The steps of no caller and no thread of the object but the frame timeout.
Others == \/ ReleaseRecordingFrame
          \/ FrameTimeout \/ Destroy \/ TimePasses \/ Creator

-----------------------------------------------------------------------------

\* No caller is in a call and no thread exists at the start.
LEMMA InitIInv == Init => IInv
  BY DEF Init, IInv, CallersOK, Alone, FlagsOK, WaitedOK, ModeOK, PreviewOK,
         WaitedForSnap, Labels, Locked, Conts, InSnapshot


\* A call that begins takes mLock, which nobody has, and creates nothing.
LEMMA StartPreviewKeeps ==
    ASSUME IInv, NEW c \in Callers, StartPreview(c) PROVE IInv'
  <1>1. CallersOK'
    BY DEF IInv, CallersOK, Labels, Locked, Conts, StartPreview, CallStart,
           EnterLocked, Enter, Return, Goto, previewRest, vars, clientVars,
           previewVars, frameVars, recordVars, focusVars, shotVars,
           jpegVars, lifeVars
  <1>2. Alone'
    BY DEF IInv, Alone, CallersOK, Labels, Locked, MLockHeld, CallerAt,
           StartPreview, CallStart, EnterLocked, Enter, Return, Goto,
           previewRest, vars, clientVars, previewVars, frameVars,
           recordVars, focusVars, shotVars, jpegVars, lifeVars
  <1>3. FlagsOK'
    BY DEF IInv, FlagsOK, StartPreview, CallStart, EnterLocked, Enter,
           Return, Goto, previewRest, vars, clientVars, previewVars,
           frameVars, recordVars, focusVars, shotVars, jpegVars, lifeVars
  <1>4. WaitedOK'
    BY DEF IInv, WaitedOK, WaitedForSnap, FlagsOK, CallersOK, Alone, ModeOK,
           InSnapshot, Labels, Locked, Conts, MLockHeld, CallerAt,
           PreviewOK, StartPreview, CallStart, EnterLocked, Enter, Return,
           Goto, previewRest, vars, clientVars, previewVars, frameVars,
           recordVars, focusVars, shotVars, jpegVars, lifeVars
  <1>5. ModeOK'
    BY DEF IInv, ModeOK, InSnapshot, CallersOK, Labels, Conts, Locked,
           FlagsOK, StartPreview, CallStart, EnterLocked, Enter, Return,
           Goto, previewRest, vars, clientVars, previewVars, frameVars,
           recordVars, focusVars, shotVars, jpegVars, lifeVars
  <1>6. PreviewOK'
    BY DEF IInv, PreviewOK, CallersOK, Labels, Locked, Conts, DriverOk,
           StartPreview, CallStart, EnterLocked, Enter, Return, Goto,
           previewRest, vars, clientVars, previewVars, frameVars,
           recordVars, focusVars, shotVars, jpegVars, lifeVars
  <1>7. QED BY <1>1, <1>2, <1>3, <1>4, <1>5, <1>6 DEF IInv

\* It takes mLock, and goes where stopPreviewInternal begins.
LEMMA StopPreviewKeeps ==
    ASSUME IInv, NEW c \in Callers, StopPreview(c) PROVE IInv'
  <1>1. CallersOK'
    BY DEF IInv, CallersOK, Labels, Locked, Conts, StopPreview, CallStop,
           EnterLocked, Enter, Return, Goto, previewRest, vars, clientVars,
           previewVars, frameVars, recordVars, focusVars, shotVars,
           jpegVars, lifeVars
  <1>2. Alone'
    BY DEF IInv, Alone, CallersOK, Labels, Locked, MLockHeld, CallerAt,
           StopPreview, CallStop, EnterLocked, Enter, Return, Goto,
           previewRest, vars, clientVars, previewVars, frameVars,
           recordVars, focusVars, shotVars, jpegVars, lifeVars
  <1>3. FlagsOK'
    BY DEF IInv, FlagsOK, StopPreview, CallStop, EnterLocked, Enter, Return,
           Goto, previewRest, vars, clientVars, previewVars, frameVars,
           recordVars, focusVars, shotVars, jpegVars, lifeVars
  <1>4. WaitedOK'
    BY DEF IInv, WaitedOK, WaitedForSnap, FlagsOK, CallersOK, Alone, ModeOK,
           InSnapshot, Labels, Locked, Conts, MLockHeld, CallerAt,
           StopPreview, CallStop, EnterLocked, Enter, Return, Goto,
           previewRest, vars, clientVars, previewVars, frameVars,
           recordVars, focusVars, shotVars, jpegVars, lifeVars
  <1>5. ModeOK'
    BY DEF IInv, ModeOK, InSnapshot, CallersOK, Labels, Conts, Locked,
           FlagsOK, StopPreview, CallStop, EnterLocked, Enter, Return, Goto,
           previewRest, vars, clientVars, previewVars, frameVars,
           recordVars, focusVars, shotVars, jpegVars, lifeVars
  <1>6. PreviewOK'
    BY DEF IInv, PreviewOK, CallersOK, Labels, Locked, Conts, DriverOk,
           StopPreview, CallStop, EnterLocked, Enter, Return, Goto,
           previewRest, vars, clientVars, previewVars, frameVars,
           recordVars, focusVars, shotVars, jpegVars, lifeVars
  <1>7. QED BY <1>1, <1>2, <1>3, <1>4, <1>5, <1>6 DEF IInv

\* As startPreview; the recording frame is no part of the invariant.
LEMMA StartRecordingKeeps ==
    ASSUME IInv, NEW c \in Callers, StartRecording(c) PROVE IInv'
  <1>1. CallersOK'
    BY DEF IInv, CallersOK, Labels, Locked, Conts, StartRecording,
           CallStart, EnterLocked, Enter, Return, Goto, previewRest, vars,
           clientVars, previewVars, frameVars, recordVars, focusVars,
           shotVars, jpegVars, lifeVars
  <1>2. Alone'
    BY DEF IInv, Alone, CallersOK, Labels, Locked, MLockHeld, CallerAt,
           StartRecording, CallStart, EnterLocked, Enter, Return, Goto,
           previewRest, vars, clientVars, previewVars, frameVars,
           recordVars, focusVars, shotVars, jpegVars, lifeVars
  <1>3. FlagsOK'
    BY DEF IInv, FlagsOK, StartRecording, CallStart, EnterLocked, Enter,
           Return, Goto, previewRest, vars, clientVars, previewVars,
           frameVars, recordVars, focusVars, shotVars, jpegVars, lifeVars
  <1>4. WaitedOK'
    BY DEF IInv, WaitedOK, WaitedForSnap, FlagsOK, CallersOK, Alone, ModeOK,
           InSnapshot, Labels, Locked, Conts, MLockHeld, CallerAt,
           PreviewOK, StartRecording, CallStart, EnterLocked, Enter, Return,
           Goto, previewRest, vars, clientVars, previewVars, frameVars,
           recordVars, focusVars, shotVars, jpegVars, lifeVars
  <1>5. ModeOK'
    BY DEF IInv, ModeOK, InSnapshot, CallersOK, Labels, Conts, Locked,
           FlagsOK, StartRecording, CallStart, EnterLocked, Enter, Return,
           Goto, previewRest, vars, clientVars, previewVars, frameVars,
           recordVars, focusVars, shotVars, jpegVars, lifeVars
  <1>6. PreviewOK'
    BY DEF IInv, PreviewOK, CallersOK, Labels, Locked, Conts, DriverOk,
           StartRecording, CallStart, EnterLocked, Enter, Return, Goto,
           previewRest, vars, clientVars, previewVars, frameVars,
           recordVars, focusVars, shotVars, jpegVars, lifeVars
  <1>7. QED BY <1>1, <1>2, <1>3, <1>4, <1>5, <1>6 DEF IInv

\* As stopPreview; the frame thread that is signalled still exists.
LEMMA StopRecordingKeeps ==
    ASSUME IInv, NEW c \in Callers, StopRecording(c) PROVE IInv'
  <1>1. CallersOK'
    BY DEF IInv, CallersOK, Labels, Locked, Conts, StopRecording, CallStop,
           SignalRecordFrame, EnterLocked, Enter, Goto, previewRest, vars,
           clientVars, previewVars, frameVars, recordVars, focusVars,
           shotVars, jpegVars, lifeVars
  <1>2. Alone'
    BY DEF IInv, Alone, CallersOK, Labels, Locked, MLockHeld, CallerAt,
           StopRecording, CallStop, SignalRecordFrame, EnterLocked, Enter,
           Goto, previewRest, vars, clientVars, previewVars, frameVars,
           recordVars, focusVars, shotVars, jpegVars, lifeVars
  <1>3. FlagsOK'
    BY DEF IInv, FlagsOK, StopRecording, CallStop, SignalRecordFrame,
           EnterLocked, Enter, Goto, previewRest, vars, clientVars,
           previewVars, frameVars, recordVars, focusVars, shotVars,
           jpegVars, lifeVars
  <1>4. WaitedOK'
    BY DEF IInv, WaitedOK, WaitedForSnap, FlagsOK, CallersOK, Alone, ModeOK,
           InSnapshot, Labels, Locked, Conts, MLockHeld, CallerAt,
           StopRecording, CallStop, SignalRecordFrame, EnterLocked, Enter,
           Goto, previewRest, vars, clientVars, previewVars, frameVars,
           recordVars, focusVars, shotVars, jpegVars, lifeVars
  <1>5. ModeOK'
    BY DEF IInv, ModeOK, InSnapshot, CallersOK, Labels, Conts, Locked,
           FlagsOK, StopRecording, CallStop, SignalRecordFrame, EnterLocked,
           Enter, Goto, previewRest, vars, clientVars, previewVars,
           frameVars, recordVars, focusVars, shotVars, jpegVars, lifeVars
  <1>6. PreviewOK'
    BY DEF IInv, PreviewOK, CallersOK, Labels, Locked, Conts, DriverOk,
           StopRecording, CallStop, SignalRecordFrame, EnterLocked, Enter,
           Goto, previewRest, vars, clientVars, previewVars, frameVars,
           recordVars, focusVars, shotVars, jpegVars, lifeVars
  <1>7. QED BY <1>1, <1>2, <1>3, <1>4, <1>5, <1>6 DEF IInv

\* It takes mLock to wait with it.
LEMMA TakePictureKeeps ==
    ASSUME IInv, NEW c \in Callers, TakePicture(c) PROVE IInv'
  <1>1. CallersOK'
    BY DEF IInv, CallersOK, Labels, Locked, Conts, TakePicture, EnterLocked,
           Enter, Goto, shotRest, vars, clientVars, previewVars, frameVars,
           recordVars, focusVars, shotVars, jpegVars, lifeVars
  <1>2. Alone'
    BY DEF IInv, Alone, CallersOK, Labels, Locked, MLockHeld, CallerAt,
           TakePicture, EnterLocked, Enter, Goto, shotRest, vars,
           clientVars, previewVars, frameVars, recordVars, focusVars,
           shotVars, jpegVars, lifeVars
  <1>3. FlagsOK'
    BY DEF IInv, FlagsOK, TakePicture, EnterLocked, Enter, Goto, shotRest,
           vars, clientVars, previewVars, frameVars, recordVars, focusVars,
           shotVars, jpegVars, lifeVars
  <1>4. WaitedOK'
    BY DEF IInv, WaitedOK, WaitedForSnap, FlagsOK, CallersOK, Alone, ModeOK,
           InSnapshot, Labels, Locked, Conts, MLockHeld, CallerAt,
           TakePicture, EnterLocked, Enter, Goto, shotRest, vars,
           clientVars, previewVars, frameVars, recordVars, focusVars,
           shotVars, jpegVars, lifeVars
  <1>5. ModeOK'
    BY DEF IInv, ModeOK, InSnapshot, CallersOK, Labels, Conts, Locked,
           FlagsOK, TakePicture, EnterLocked, Enter, Goto, shotRest, vars,
           clientVars, previewVars, frameVars, recordVars, focusVars,
           shotVars, jpegVars, lifeVars
  <1>6. PreviewOK'
    BY DEF IInv, PreviewOK, CallersOK, Labels, Locked, Conts, DriverOk,
           TakePicture, EnterLocked, Enter, Goto, shotRest, vars,
           clientVars, previewVars, frameVars, recordVars, focusVars,
           shotVars, jpegVars, lifeVars
  <1>7. QED BY <1>1, <1>2, <1>3, <1>4, <1>5, <1>6 DEF IInv

\* It takes no lock and only waits.
LEMMA CancelPictureKeeps ==
    ASSUME IInv, NEW c \in Callers, CancelPicture(c) PROVE IInv'
  <1>1. CallersOK'
    BY DEF IInv, CallersOK, Labels, Locked, Conts, CancelPicture, Enter,
           Goto, shotRest, vars, clientVars, previewVars, frameVars,
           recordVars, focusVars, shotVars, jpegVars, lifeVars
  <1>2. Alone'
    BY DEF IInv, Alone, CallersOK, Labels, Locked, MLockHeld, CallerAt,
           CancelPicture, Enter, Goto, shotRest, vars, clientVars,
           previewVars, frameVars, recordVars, focusVars, shotVars,
           jpegVars, lifeVars
  <1>3. FlagsOK'
    BY DEF IInv, FlagsOK, CancelPicture, Enter, Goto, shotRest, vars,
           clientVars, previewVars, frameVars, recordVars, focusVars,
           shotVars, jpegVars, lifeVars
  <1>4. WaitedOK'
    BY DEF IInv, WaitedOK, WaitedForSnap, FlagsOK, CallersOK, Alone, ModeOK,
           InSnapshot, Labels, Locked, Conts, MLockHeld, CallerAt,
           CancelPicture, Enter, Goto, shotRest, vars, clientVars,
           previewVars, frameVars, recordVars, focusVars, shotVars,
           jpegVars, lifeVars
  <1>5. ModeOK'
    BY DEF IInv, ModeOK, InSnapshot, CallersOK, Labels, Conts, Locked,
           FlagsOK, CancelPicture, Enter, Goto, shotRest, vars, clientVars,
           previewVars, frameVars, recordVars, focusVars, shotVars,
           jpegVars, lifeVars
  <1>6. PreviewOK'
    BY DEF IInv, PreviewOK, CallersOK, Labels, Locked, Conts, DriverOk,
           CancelPicture, Enter, Goto, shotRest, vars, clientVars,
           previewVars, frameVars, recordVars, focusVars, shotVars,
           jpegVars, lifeVars
  <1>7. QED BY <1>1, <1>2, <1>3, <1>4, <1>5, <1>6 DEF IInv

\* The caller sleeps, with mLock if it had it.
LEMMA SleepsForSnapKeeps ==
    ASSUME IInv, NEW c \in Callers, SleepsForSnap(c) PROVE IInv'
  <1>1. CallersOK'
    BY DEF IInv, CallersOK, Labels, Locked, Conts, SleepsForSnap, Goto,
           shotRest, vars, clientVars, previewVars, frameVars, recordVars,
           focusVars, shotVars, jpegVars, lifeVars
  <1>2. Alone'
    BY DEF IInv, Alone, CallersOK, Labels, Locked, MLockHeld, CallerAt,
           SleepsForSnap, Goto, shotRest, vars, clientVars,
           previewVars, frameVars, recordVars, focusVars, shotVars,
           jpegVars, lifeVars
  <1>3. FlagsOK'
    BY DEF IInv, FlagsOK, SleepsForSnap, Goto, shotRest, vars,
           clientVars, previewVars, frameVars, recordVars, focusVars,
           shotVars, jpegVars, lifeVars
  <1>4. WaitedOK'
    BY DEF IInv, WaitedOK, WaitedForSnap, FlagsOK, CallersOK, Alone, ModeOK,
           InSnapshot, Labels, Locked, Conts, MLockHeld, CallerAt,
           SleepsForSnap, Goto, shotRest, vars, clientVars,
           previewVars, frameVars, recordVars, focusVars, shotVars,
           jpegVars, lifeVars
  <1>5. ModeOK'
    BY DEF IInv, ModeOK, InSnapshot, CallersOK, Labels, Conts, Locked,
           FlagsOK, SleepsForSnap, Goto, shotRest, vars, clientVars,
           previewVars, frameVars, recordVars, focusVars, shotVars,
           jpegVars, lifeVars
  <1>6. PreviewOK'
    BY DEF IInv, PreviewOK, CallersOK, Labels, Locked, Conts, DriverOk,
           SleepsForSnap, Goto, shotRest, vars, clientVars,
           previewVars, frameVars, recordVars, focusVars, shotVars,
           jpegVars, lifeVars
  <1>7. QED BY <1>1, <1>2, <1>3, <1>4, <1>5, <1>6 DEF IInv

\* It takes mLock to wait with it.
LEMMA AutoFocusKeeps ==
    ASSUME IInv, NEW c \in Callers, AutoFocus(c) PROVE IInv'
  <1>1. CallersOK'
    BY DEF IInv, CallersOK, Labels, Locked, Conts, AutoFocus, EnterLocked,
           Enter, Goto, focusRest, vars, clientVars, previewVars, frameVars,
           recordVars, focusVars, shotVars, jpegVars, lifeVars
  <1>2. Alone'
    BY DEF IInv, Alone, CallersOK, Labels, Locked, MLockHeld, CallerAt,
           AutoFocus, EnterLocked, Enter, Goto, focusRest, vars, clientVars,
           previewVars, frameVars, recordVars, focusVars, shotVars,
           jpegVars, lifeVars
  <1>3. FlagsOK'
    BY DEF IInv, FlagsOK, AutoFocus, EnterLocked, Enter, Goto, focusRest,
           vars, clientVars, previewVars, frameVars, recordVars, focusVars,
           shotVars, jpegVars, lifeVars
  <1>4. WaitedOK'
    BY DEF IInv, WaitedOK, WaitedForSnap, FlagsOK, CallersOK, Alone, ModeOK,
           InSnapshot, Labels, Locked, Conts, MLockHeld, CallerAt,
           AutoFocus, EnterLocked, Enter, Goto, focusRest, vars, clientVars,
           previewVars, frameVars, recordVars, focusVars, shotVars,
           jpegVars, lifeVars
  <1>5. ModeOK'
    BY DEF IInv, ModeOK, InSnapshot, CallersOK, Labels, Conts, Locked,
           FlagsOK, AutoFocus, EnterLocked, Enter, Goto, focusRest, vars,
           clientVars, previewVars, frameVars, recordVars, focusVars,
           shotVars, jpegVars, lifeVars
  <1>6. PreviewOK'
    BY DEF IInv, PreviewOK, CallersOK, Labels, Locked, Conts, DriverOk,
           AutoFocus, EnterLocked, Enter, Goto, focusRest, vars, clientVars,
           previewVars, frameVars, recordVars, focusVars, shotVars,
           jpegVars, lifeVars
  <1>7. QED BY <1>1, <1>2, <1>3, <1>4, <1>5, <1>6 DEF IInv

\* It takes mLock to look whether there is a focus.
LEMMA CancelAutoFocusKeeps ==
    ASSUME IInv, NEW c \in Callers, CancelAutoFocus(c) PROVE IInv'
  <1>1. CallersOK'
    BY DEF IInv, CallersOK, Labels, Locked, Conts, CancelAutoFocus,
           EnterLocked, Enter, Goto, focusRest, vars, clientVars,
           previewVars, frameVars, recordVars, focusVars, shotVars,
           jpegVars, lifeVars
  <1>2. Alone'
    BY DEF IInv, Alone, CallersOK, Labels, Locked, MLockHeld, CallerAt,
           CancelAutoFocus, EnterLocked, Enter, Goto, focusRest, vars,
           clientVars, previewVars, frameVars, recordVars, focusVars,
           shotVars, jpegVars, lifeVars
  <1>3. FlagsOK'
    BY DEF IInv, FlagsOK, CancelAutoFocus, EnterLocked, Enter, Goto,
           focusRest, vars, clientVars, previewVars, frameVars, recordVars,
           focusVars, shotVars, jpegVars, lifeVars
  <1>4. WaitedOK'
    BY DEF IInv, WaitedOK, WaitedForSnap, FlagsOK, CallersOK, Alone, ModeOK,
           InSnapshot, Labels, Locked, Conts, MLockHeld, CallerAt,
           CancelAutoFocus, EnterLocked, Enter, Goto, focusRest, vars,
           clientVars, previewVars, frameVars, recordVars, focusVars,
           shotVars, jpegVars, lifeVars
  <1>5. ModeOK'
    BY DEF IInv, ModeOK, InSnapshot, CallersOK, Labels, Conts, Locked,
           FlagsOK, CancelAutoFocus, EnterLocked, Enter, Goto, focusRest,
           vars, clientVars, previewVars, frameVars, recordVars, focusVars,
           shotVars, jpegVars, lifeVars
  <1>6. PreviewOK'
    BY DEF IInv, PreviewOK, CallersOK, Labels, Locked, Conts, DriverOk,
           CancelAutoFocus, EnterLocked, Enter, Goto, focusRest, vars,
           clientVars, previewVars, frameVars, recordVars, focusVars,
           shotVars, jpegVars, lifeVars
  <1>7. QED BY <1>1, <1>2, <1>3, <1>4, <1>5, <1>6 DEF IInv

\* The messages are no part of the invariant.
LEMMA SetMsgsKeeps ==
    ASSUME IInv, NEW c \in Callers, SetMsgs(c) PROVE IInv'
  <1>1. CallersOK'
    BY DEF IInv, CallersOK, Labels, Locked, Conts, SetMsgs, EnterLocked,
           Enter, vars, clientVars, previewVars, frameVars, recordVars,
           focusVars, shotVars, jpegVars, lifeVars
  <1>2. Alone'
    BY DEF IInv, Alone, CallersOK, Labels, Locked, MLockHeld, CallerAt,
           SetMsgs, EnterLocked, Enter, vars, clientVars, previewVars,
           frameVars, recordVars, focusVars, shotVars, jpegVars, lifeVars
  <1>3. FlagsOK'
    BY DEF IInv, FlagsOK, SetMsgs, EnterLocked, Enter, vars, clientVars,
           previewVars, frameVars, recordVars, focusVars, shotVars,
           jpegVars, lifeVars
  <1>4. WaitedOK'
    BY DEF IInv, WaitedOK, WaitedForSnap, FlagsOK, CallersOK, Alone, ModeOK,
           InSnapshot, Labels, Locked, Conts, MLockHeld, CallerAt, SetMsgs,
           EnterLocked, Enter, vars, clientVars, previewVars, frameVars,
           recordVars, focusVars, shotVars, jpegVars, lifeVars
  <1>5. ModeOK'
    BY DEF IInv, ModeOK, InSnapshot, CallersOK, Labels, Conts, Locked,
           FlagsOK, SetMsgs, EnterLocked, Enter, vars, clientVars,
           previewVars, frameVars, recordVars, focusVars, shotVars,
           jpegVars, lifeVars
  <1>6. PreviewOK'
    BY DEF IInv, PreviewOK, CallersOK, Labels, Locked, Conts, DriverOk,
           SetMsgs, EnterLocked, Enter, vars, clientVars, previewVars,
           frameVars, recordVars, focusVars, shotVars, jpegVars, lifeVars
  <1>7. QED BY <1>1, <1>2, <1>3, <1>4, <1>5, <1>6 DEF IInv

\* As stopRecording.
LEMMA ReleaseKeeps ==
    ASSUME IInv, NEW c \in Callers, Release(c) PROVE IInv'
  <1>1. CallersOK'
    BY DEF IInv, CallersOK, Labels, Locked, Conts, Release, CallStop,
           SignalRecordFrame, EnterLocked, Enter, Goto, lifeRest, vars,
           clientVars, previewVars, frameVars, recordVars, focusVars,
           shotVars, jpegVars, lifeVars
  <1>2. Alone'
    BY DEF IInv, Alone, CallersOK, Labels, Locked, MLockHeld, CallerAt,
           Release, CallStop, SignalRecordFrame, EnterLocked, Enter, Goto,
           lifeRest, vars, clientVars, previewVars, frameVars, recordVars,
           focusVars, shotVars, jpegVars, lifeVars
  <1>3. FlagsOK'
    BY DEF IInv, FlagsOK, Release, CallStop, SignalRecordFrame, EnterLocked,
           Enter, Goto, lifeRest, vars, clientVars, previewVars, frameVars,
           recordVars, focusVars, shotVars, jpegVars, lifeVars
  <1>4. WaitedOK'
    BY DEF IInv, WaitedOK, WaitedForSnap, FlagsOK, CallersOK, Alone, ModeOK,
           InSnapshot, Labels, Locked, Conts, MLockHeld, CallerAt, Release,
           CallStop, SignalRecordFrame, EnterLocked, Enter, Goto, lifeRest,
           vars, clientVars, previewVars, frameVars, recordVars, focusVars,
           shotVars, jpegVars, lifeVars
  <1>5. ModeOK'
    BY DEF IInv, ModeOK, InSnapshot, CallersOK, Labels, Conts, Locked,
           FlagsOK, Release, CallStop, SignalRecordFrame, EnterLocked,
           Enter, Goto, lifeRest, vars, clientVars, previewVars, frameVars,
           recordVars, focusVars, shotVars, jpegVars, lifeVars
  <1>6. PreviewOK'
    BY DEF IInv, PreviewOK, CallersOK, Labels, Locked, Conts, DriverOk,
           Release, CallStop, SignalRecordFrame, EnterLocked, Enter, Goto,
           lifeRest, vars, clientVars, previewVars, frameVars, recordVars,
           focusVars, shotVars, jpegVars, lifeVars
  <1>7. QED BY <1>1, <1>2, <1>3, <1>4, <1>5, <1>6 DEF IInv

\* The flag being down says that there is no frame thread: what InitPreview
\* needs.
LEMMA InitPreviewFrameWaitKeeps ==
    ASSUME IInv, NEW c \in Callers, InitPreviewFrameWait(c) PROVE IInv'
  <1>1. CallersOK'
    BY DEF IInv, CallersOK, Labels, Locked, Conts, InitPreviewFrameWait,
           Goto, previewRest, vars, clientVars, previewVars, frameVars,
           recordVars, focusVars, shotVars, jpegVars, lifeVars
  <1>2. Alone'
    BY DEF IInv, Alone, CallersOK, Labels, Locked, MLockHeld, CallerAt,
           InitPreviewFrameWait, Goto, previewRest, vars, clientVars,
           previewVars, frameVars, recordVars, focusVars, shotVars,
           jpegVars, lifeVars
  <1>3. FlagsOK'
    BY DEF IInv, FlagsOK, InitPreviewFrameWait, Goto, previewRest, vars,
           clientVars, previewVars, frameVars, recordVars, focusVars,
           shotVars, jpegVars, lifeVars
  <1>4. WaitedOK'
    BY DEF IInv, WaitedOK, WaitedForSnap, FlagsOK, CallersOK, Alone, ModeOK,
           InSnapshot, Labels, Locked, Conts, MLockHeld, CallerAt,
           InitPreviewFrameWait, Goto, previewRest, vars, clientVars,
           previewVars, frameVars, recordVars, focusVars, shotVars,
           jpegVars, lifeVars
  <1>5. ModeOK'
    BY DEF IInv, ModeOK, InSnapshot, CallersOK, Labels, Conts, Locked,
           FlagsOK, InitPreviewFrameWait, Goto, previewRest, vars,
           clientVars, previewVars, frameVars, recordVars, focusVars,
           shotVars, jpegVars, lifeVars
  <1>6. PreviewOK'
    BY DEF IInv, PreviewOK, CallersOK, Labels, Locked, Conts, DriverOk,
           InitPreviewFrameWait, Goto, previewRest, vars, clientVars,
           previewVars, frameVars, recordVars, focusVars, shotVars,
           jpegVars, lifeVars
  <1>7. QED BY <1>1, <1>2, <1>3, <1>4, <1>5, <1>6 DEF IInv

\* The frame thread is created, with its flag, after the old one's end; the
\* mode being off says that no picture is being taken: what NativeStart needs.
LEMMA InitPreviewKeeps ==
    ASSUME IInv, NEW c \in Callers, InitPreview(c) PROVE IInv'
  <1>1. CallersOK'
    BY DEF IInv, CallersOK, Labels, Locked, Conts, InitPreview, Return,
           Goto, previewRest, vars, clientVars, previewVars, frameVars,
           recordVars, focusVars, shotVars, jpegVars, lifeVars
  <1>2. Alone'
    BY DEF IInv, Alone, CallersOK, Labels, Locked, MLockHeld, CallerAt,
           InitPreview, Return, Goto, previewRest, vars, clientVars,
           previewVars, frameVars, recordVars, focusVars, shotVars,
           jpegVars, lifeVars
  <1>3. FlagsOK'
    BY DEF IInv, FlagsOK, InitPreview, Return, Goto, previewRest, vars,
           clientVars, previewVars, frameVars, recordVars, focusVars,
           shotVars, jpegVars, lifeVars
  <1>4. WaitedOK'
    BY DEF IInv, WaitedOK, WaitedForSnap, FlagsOK, CallersOK, Alone, ModeOK,
           InSnapshot, Labels, Locked, Conts, MLockHeld, CallerAt,
           InitPreview, Return, Goto, previewRest, vars, clientVars,
           previewVars, frameVars, recordVars, focusVars, shotVars,
           jpegVars, lifeVars
  <1>5. ModeOK'
    BY DEF IInv, ModeOK, InSnapshot, CallersOK, Labels, Conts, Locked,
           FlagsOK, InitPreview, Return, Goto, previewRest, vars,
           clientVars, previewVars, frameVars, recordVars, focusVars,
           shotVars, jpegVars, lifeVars
  <1>6. PreviewOK'
    <2>1. mPreviewInitialized' \in BOOLEAN /\ mCameraRunning' \in BOOLEAN
      BY DEF IInv, PreviewOK, InitPreview
    <2>2. SUFFICES ASSUME mPreviewInitialized', ~mCameraRunning'
                   PROVE  \E d \in Callers : pc'[d] = "nativeStart"
      BY <2>1 DEF PreviewOK
    <2>3. CASE pc'[c] = "nativeStart"
      BY <2>3
    <2>4. CASE pc'[c] # "nativeStart"
      <3>1. UNCHANGED mPreviewInitialized /\ UNCHANGED mCameraRunning
        BY <2>4 DEF InitPreview, Goto, IInv, CallersOK
      <3>2. PICK d \in Callers : pc[d] = "nativeStart"
        BY <2>2, <3>1 DEF IInv, PreviewOK
      <3>3. pc'[d] = pc[d]
        BY <3>2 DEF InitPreview, Goto, Return, IInv, CallersOK
      <3>4. QED BY <3>2, <3>3
    <2>5. QED BY <2>3, <2>4
  <1>7. QED BY <1>1, <1>2, <1>3, <1>4, <1>5, <1>6 DEF IInv

\* The preview runs from here on if it is initialized at all.
LEMMA NativeStartKeeps ==
    ASSUME IInv, NEW c \in Callers, NativeStart(c) PROVE IInv'
  <1>1. CallersOK'
    BY DEF IInv, CallersOK, Labels, Locked, Conts, NativeStart, Return,
           Goto, DriverOk, previewRest, vars, clientVars, previewVars,
           frameVars, recordVars, focusVars, shotVars, jpegVars, lifeVars
  <1>2. Alone'
    BY DEF IInv, Alone, CallersOK, Labels, Locked, MLockHeld, CallerAt,
           NativeStart, Return, Goto, DriverOk, previewRest, vars,
           clientVars, previewVars, frameVars, recordVars, focusVars,
           shotVars, jpegVars, lifeVars
  <1>3. FlagsOK'
    BY DEF IInv, FlagsOK, NativeStart, Return, Goto, DriverOk, previewRest,
           vars, clientVars, previewVars, frameVars, recordVars, focusVars,
           shotVars, jpegVars, lifeVars
  <1>4. WaitedOK'
    BY DEF IInv, WaitedOK, WaitedForSnap, FlagsOK, CallersOK, Alone, ModeOK,
           InSnapshot, Labels, Locked, Conts, MLockHeld, CallerAt,
           NativeStart, Return, Goto, DriverOk, previewRest, vars,
           clientVars, previewVars, frameVars, recordVars, focusVars,
           shotVars, jpegVars, lifeVars
  <1>5. ModeOK'
    BY DEF IInv, ModeOK, InSnapshot, CallersOK, Labels, Conts, Locked,
           FlagsOK, NativeStart, Return, Goto, DriverOk, previewRest, vars,
           clientVars, previewVars, frameVars, recordVars, focusVars,
           shotVars, jpegVars, lifeVars
  <1>6. PreviewOK'
    BY DEF IInv, PreviewOK, CallersOK, Labels, Locked, Conts, DriverOk,
           NativeStart, Return, Goto, previewRest, vars, clientVars,
           previewVars, frameVars, recordVars, focusVars, shotVars,
           jpegVars, lifeVars
  <1>7. QED BY <1>1, <1>2, <1>3, <1>4, <1>5, <1>6 DEF IInv

\* A preview that stops is no longer initialized.
LEMMA StopNativeKeeps ==
    ASSUME IInv, NEW c \in Callers, StopNative(c) PROVE IInv'
  <1>1. CallersOK'
    BY DEF IInv, CallersOK, Labels, Locked, Conts, StopNative, Goto,
           DriverOk, previewRest, vars, clientVars, previewVars, frameVars,
           recordVars, focusVars, shotVars, jpegVars, lifeVars
  <1>2. Alone'
    BY DEF IInv, Alone, CallersOK, Labels, Locked, MLockHeld, CallerAt,
           StopNative, Goto, DriverOk, previewRest, vars, clientVars,
           previewVars, frameVars, recordVars, focusVars, shotVars,
           jpegVars, lifeVars
  <1>3. FlagsOK'
    BY DEF IInv, FlagsOK, StopNative, Goto, DriverOk, previewRest, vars,
           clientVars, previewVars, frameVars, recordVars, focusVars,
           shotVars, jpegVars, lifeVars
  <1>4. WaitedOK'
    BY DEF IInv, WaitedOK, WaitedForSnap, FlagsOK, CallersOK, Alone, ModeOK,
           InSnapshot, Labels, Locked, Conts, MLockHeld, CallerAt,
           StopNative, Goto, DriverOk, previewRest, vars, clientVars,
           previewVars, frameVars, recordVars, focusVars, shotVars,
           jpegVars, lifeVars
  <1>5. ModeOK'
    BY DEF IInv, ModeOK, InSnapshot, CallersOK, Labels, Conts, Locked,
           FlagsOK, StopNative, Goto, DriverOk, previewRest, vars,
           clientVars, previewVars, frameVars, recordVars, focusVars,
           shotVars, jpegVars, lifeVars
  <1>6. PreviewOK'
    <2>1. PICK ok \in DriverOk :
            /\ mCameraRunning' = ~(ok \/ camframe_timeout_flag)
            /\ IF ~mCameraRunning' /\ mPreviewInitialized
               THEN camframe_exit' = TRUE /\ mPreviewInitialized' = FALSE
               ELSE UNCHANGED <<camframe_exit, mPreviewInitialized>>
      BY DEF StopNative
    <2>2. mCameraRunning' \in BOOLEAN
      BY <2>1, Zenon
    <2>3. mPreviewInitialized' \in BOOLEAN
      BY <2>1 DEF IInv, PreviewOK
    <2>4. mPreviewInitialized' => mCameraRunning'
      BY <2>1, <2>2 DEF IInv, PreviewOK
    <2>5. QED BY <2>2, <2>3, <2>4 DEF PreviewOK
  <1>7. QED BY <1>1, <1>2, <1>3, <1>4, <1>5, <1>6 DEF IInv

\* The autofocus thread comes with its flag.
LEMMA AutoFocusStartsKeeps ==
    ASSUME IInv, NEW c \in Callers, AutoFocusStarts(c) PROVE IInv'
  <1>1. CallersOK'
    BY DEF IInv, CallersOK, Labels, Locked, Conts, AutoFocusStarts, Return,
           Goto, focusRest, vars, clientVars, previewVars, frameVars,
           recordVars, focusVars, shotVars, jpegVars, lifeVars
  <1>2. Alone'
    BY DEF IInv, Alone, CallersOK, Labels, Locked, MLockHeld, CallerAt,
           AutoFocusStarts, Return, Goto, focusRest, vars, clientVars,
           previewVars, frameVars, recordVars, focusVars, shotVars,
           jpegVars, lifeVars
  <1>3. FlagsOK'
    BY DEF IInv, FlagsOK, AutoFocusStarts, Return, Goto, focusRest, vars,
           clientVars, previewVars, frameVars, recordVars, focusVars,
           shotVars, jpegVars, lifeVars
  <1>4. WaitedOK'
    BY DEF IInv, WaitedOK, WaitedForSnap, FlagsOK, CallersOK, Alone, ModeOK,
           InSnapshot, Labels, Locked, Conts, MLockHeld, CallerAt,
           AutoFocusStarts, Return, Goto, focusRest, vars, clientVars,
           previewVars, frameVars, recordVars, focusVars, shotVars,
           jpegVars, lifeVars
  <1>5. ModeOK'
    BY DEF IInv, ModeOK, InSnapshot, CallersOK, Labels, Conts, Locked,
           FlagsOK, AutoFocusStarts, Return, Goto, focusRest, vars,
           clientVars, previewVars, frameVars, recordVars, focusVars,
           shotVars, jpegVars, lifeVars
  <1>6. PreviewOK'
    BY DEF IInv, PreviewOK, CallersOK, Labels, Locked, Conts, DriverOk,
           AutoFocusStarts, Return, Goto, focusRest, vars, clientVars,
           previewVars, frameVars, recordVars, focusVars, shotVars,
           jpegVars, lifeVars
  <1>7. QED BY <1>1, <1>2, <1>3, <1>4, <1>5, <1>6 DEF IInv

\* The caller goes on with mLock.
LEMMA CancelBusyKeeps ==
    ASSUME IInv, NEW c \in Callers, CancelBusy(c) PROVE IInv'
  <1>1. CallersOK'
    BY DEF IInv, CallersOK, Labels, Locked, Conts, CancelBusy, AfterCancel,
           Goto, focusRest, vars, clientVars, previewVars, frameVars,
           recordVars, focusVars, shotVars, jpegVars, lifeVars
  <1>2. Alone'
    BY DEF IInv, Alone, CallersOK, Labels, Locked, MLockHeld, CallerAt,
           CancelBusy, AfterCancel, Goto, focusRest, vars, clientVars,
           previewVars, frameVars, recordVars, focusVars, shotVars,
           jpegVars, lifeVars
  <1>3. FlagsOK'
    BY DEF IInv, FlagsOK, CancelBusy, AfterCancel, Goto, focusRest, vars,
           clientVars, previewVars, frameVars, recordVars, focusVars,
           shotVars, jpegVars, lifeVars
  <1>4. WaitedOK'
    BY DEF IInv, WaitedOK, WaitedForSnap, FlagsOK, CallersOK, Alone, ModeOK,
           InSnapshot, Labels, Locked, Conts, MLockHeld, CallerAt,
           CancelBusy, AfterCancel, Goto, focusRest, vars, clientVars,
           previewVars, frameVars, recordVars, focusVars, shotVars,
           jpegVars, lifeVars
  <1>5. ModeOK'
    BY DEF IInv, ModeOK, InSnapshot, CallersOK, Labels, Conts, Locked,
           FlagsOK, CancelBusy, AfterCancel, Goto, focusRest, vars,
           clientVars, previewVars, frameVars, recordVars, focusVars,
           shotVars, jpegVars, lifeVars
  <1>6. PreviewOK'
    BY DEF IInv, PreviewOK, CallersOK, Labels, Locked, Conts, DriverOk,
           CancelBusy, AfterCancel, Goto, focusRest, vars, clientVars,
           previewVars, frameVars, recordVars, focusVars, shotVars,
           jpegVars, lifeVars
  <1>7. QED BY <1>1, <1>2, <1>3, <1>4, <1>5, <1>6 DEF IInv

\* The caller goes on with mLock.
LEMMA CancelTakesLockKeeps ==
    ASSUME IInv, NEW c \in Callers, CancelTakesLock(c) PROVE IInv'
  <1>1. CallersOK'
    BY DEF IInv, CallersOK, Labels, Locked, Conts, CancelTakesLock, Goto,
           focusRest, vars, clientVars, previewVars, frameVars, recordVars,
           focusVars, shotVars, jpegVars, lifeVars
  <1>2. Alone'
    BY DEF IInv, Alone, CallersOK, Labels, Locked, MLockHeld, CallerAt,
           CancelTakesLock, Goto, focusRest, vars, clientVars, previewVars,
           frameVars, recordVars, focusVars, shotVars, jpegVars, lifeVars
  <1>3. FlagsOK'
    BY DEF IInv, FlagsOK, CancelTakesLock, Goto, focusRest, vars,
           clientVars, previewVars, frameVars, recordVars, focusVars,
           shotVars, jpegVars, lifeVars
  <1>4. WaitedOK'
    BY DEF IInv, WaitedOK, WaitedForSnap, FlagsOK, CallersOK, Alone, ModeOK,
           InSnapshot, Labels, Locked, Conts, MLockHeld, CallerAt,
           CancelTakesLock, Goto, focusRest, vars, clientVars, previewVars,
           frameVars, recordVars, focusVars, shotVars, jpegVars, lifeVars
  <1>5. ModeOK'
    BY DEF IInv, ModeOK, InSnapshot, CallersOK, Labels, Conts, Locked,
           FlagsOK, CancelTakesLock, Goto, focusRest, vars, clientVars,
           previewVars, frameVars, recordVars, focusVars, shotVars,
           jpegVars, lifeVars
  <1>6. PreviewOK'
    BY DEF IInv, PreviewOK, CallersOK, Labels, Locked, Conts, DriverOk,
           CancelTakesLock, Goto, focusRest, vars, clientVars, previewVars,
           frameVars, recordVars, focusVars, shotVars, jpegVars, lifeVars
  <1>7. QED BY <1>1, <1>2, <1>3, <1>4, <1>5, <1>6 DEF IInv

\* The caller goes on with mLock.
LEMMA CancelGivesLockKeeps ==
    ASSUME IInv, NEW c \in Callers, CancelGivesLock(c) PROVE IInv'
  <1>1. CallersOK'
    BY DEF IInv, CallersOK, Labels, Locked, Conts, CancelGivesLock,
           AfterCancel, Goto, focusRest, vars, clientVars, previewVars,
           frameVars, recordVars, focusVars, shotVars, jpegVars, lifeVars
  <1>2. Alone'
    BY DEF IInv, Alone, CallersOK, Labels, Locked, MLockHeld, CallerAt,
           CancelGivesLock, AfterCancel, Goto, focusRest, vars, clientVars,
           previewVars, frameVars, recordVars, focusVars, shotVars,
           jpegVars, lifeVars
  <1>3. FlagsOK'
    BY DEF IInv, FlagsOK, CancelGivesLock, AfterCancel, Goto, focusRest,
           vars, clientVars, previewVars, frameVars, recordVars, focusVars,
           shotVars, jpegVars, lifeVars
  <1>4. WaitedOK'
    BY DEF IInv, WaitedOK, WaitedForSnap, FlagsOK, CallersOK, Alone, ModeOK,
           InSnapshot, Labels, Locked, Conts, MLockHeld, CallerAt,
           CancelGivesLock, AfterCancel, Goto, focusRest, vars, clientVars,
           previewVars, frameVars, recordVars, focusVars, shotVars,
           jpegVars, lifeVars
  <1>5. ModeOK'
    BY DEF IInv, ModeOK, InSnapshot, CallersOK, Labels, Conts, Locked,
           FlagsOK, CancelGivesLock, AfterCancel, Goto, focusRest, vars,
           clientVars, previewVars, frameVars, recordVars, focusVars,
           shotVars, jpegVars, lifeVars
  <1>6. PreviewOK'
    BY DEF IInv, PreviewOK, CallersOK, Labels, Locked, Conts, DriverOk,
           CancelGivesLock, AfterCancel, Goto, focusRest, vars, clientVars,
           previewVars, frameVars, recordVars, focusVars, shotVars,
           jpegVars, lifeVars
  <1>7. QED BY <1>1, <1>2, <1>3, <1>4, <1>5, <1>6 DEF IInv

\* The flag being down says that there is no snapshot thread: what TakeCreates
\* needs.
LEMMA TakeStopsKeeps ==
    ASSUME IInv, NEW c \in Callers, TakeStops(c) PROVE IInv'
  <1>1. CallersOK'
    BY DEF IInv, CallersOK, Labels, Locked, Conts, TakeStops, CallStop,
           Return, Goto, shotRest, vars, clientVars, previewVars, frameVars,
           recordVars, focusVars, shotVars, jpegVars, lifeVars
  <1>2. Alone'
    BY DEF IInv, Alone, CallersOK, Labels, Locked, MLockHeld, CallerAt,
           TakeStops, CallStop, Return, Goto, shotRest, vars, clientVars,
           previewVars, frameVars, recordVars, focusVars, shotVars,
           jpegVars, lifeVars
  <1>3. FlagsOK'
    BY DEF IInv, FlagsOK, TakeStops, CallStop, Return, Goto, shotRest, vars,
           clientVars, previewVars, frameVars, recordVars, focusVars,
           shotVars, jpegVars, lifeVars
  <1>4. WaitedOK'
    BY DEF IInv, WaitedOK, WaitedForSnap, FlagsOK, CallersOK, Alone, ModeOK,
           InSnapshot, Labels, Locked, Conts, MLockHeld, CallerAt,
           TakeStops, CallStop, Return, Goto, shotRest, vars, clientVars,
           previewVars, frameVars, recordVars, focusVars, shotVars,
           jpegVars, lifeVars
  <1>5. ModeOK'
    BY DEF IInv, ModeOK, InSnapshot, CallersOK, Labels, Conts, Locked,
           FlagsOK, TakeStops, CallStop, Return, Goto, shotRest, vars,
           clientVars, previewVars, frameVars, recordVars, focusVars,
           shotVars, jpegVars, lifeVars
  <1>6. PreviewOK'
    BY DEF IInv, PreviewOK, CallersOK, Labels, Locked, Conts, DriverOk,
           TakeStops, CallStop, Return, Goto, shotRest, vars, clientVars,
           previewVars, frameVars, recordVars, focusVars, shotVars,
           jpegVars, lifeVars
  <1>7. QED BY <1>1, <1>2, <1>3, <1>4, <1>5, <1>6 DEF IInv

\* Nothing is created.
LEMMA TakeInitFailsKeeps ==
    ASSUME IInv, NEW c \in Callers, TakeInitFails(c) PROVE IInv'
  <1>1. CallersOK'
    BY DEF IInv, CallersOK, Labels, Locked, Conts, TakeInitFails, Return,
           Goto, shotRest, vars, clientVars, previewVars, frameVars,
           recordVars, focusVars, shotVars, jpegVars, lifeVars
  <1>2. Alone'
    BY DEF IInv, Alone, CallersOK, Labels, Locked, MLockHeld, CallerAt,
           TakeInitFails, Return, Goto, shotRest, vars, clientVars,
           previewVars, frameVars, recordVars, focusVars, shotVars,
           jpegVars, lifeVars
  <1>3. FlagsOK'
    BY DEF IInv, FlagsOK, TakeInitFails, Return, Goto, shotRest, vars,
           clientVars, previewVars, frameVars, recordVars, focusVars,
           shotVars, jpegVars, lifeVars
  <1>4. WaitedOK'
    BY DEF IInv, WaitedOK, WaitedForSnap, FlagsOK, CallersOK, Alone, ModeOK,
           InSnapshot, Labels, Locked, Conts, MLockHeld, CallerAt,
           TakeInitFails, Return, Goto, shotRest, vars, clientVars,
           previewVars, frameVars, recordVars, focusVars, shotVars,
           jpegVars, lifeVars
  <1>5. ModeOK'
    BY DEF IInv, ModeOK, InSnapshot, CallersOK, Labels, Conts, Locked,
           FlagsOK, TakeInitFails, Return, Goto, shotRest, vars, clientVars,
           previewVars, frameVars, recordVars, focusVars, shotVars,
           jpegVars, lifeVars
  <1>6. PreviewOK'
    BY DEF IInv, PreviewOK, CallersOK, Labels, Locked, Conts, DriverOk,
           TakeInitFails, Return, Goto, shotRest, vars, clientVars,
           previewVars, frameVars, recordVars, focusVars, shotVars,
           jpegVars, lifeVars
  <1>7. QED BY <1>1, <1>2, <1>3, <1>4, <1>5, <1>6 DEF IInv

\* The snapshot thread is created, with its flag, after the old one's end; the
\* caller is about to set the mode.
LEMMA TakeCreatesKeeps ==
    ASSUME IInv, NEW c \in Callers, TakeCreates(c) PROVE IInv'
  <1>1. CallersOK'
    BY DEF IInv, CallersOK, Labels, Locked, Conts, TakeCreates, Goto,
           shotRest, vars, clientVars, previewVars, frameVars, recordVars,
           focusVars, shotVars, jpegVars, lifeVars
  <1>2. Alone'
    BY DEF IInv, Alone, CallersOK, Labels, Locked, MLockHeld, CallerAt,
           TakeCreates, Goto, shotRest, vars, clientVars, previewVars,
           frameVars, recordVars, focusVars, shotVars, jpegVars, lifeVars
  <1>3. FlagsOK'
    BY DEF IInv, FlagsOK, WaitedOK, WaitedForSnap, TakeCreates, Goto,
           shotRest, vars, clientVars, previewVars, frameVars, recordVars,
           focusVars, shotVars, jpegVars, lifeVars
  <1>4. WaitedOK'
    BY DEF IInv, WaitedOK, WaitedForSnap, FlagsOK, CallersOK, Alone, ModeOK,
           InSnapshot, Labels, Locked, Conts, MLockHeld, CallerAt,
           TakeCreates, Goto, shotRest, vars, clientVars, previewVars,
           frameVars, recordVars, focusVars, shotVars, jpegVars, lifeVars
  <1>5. ModeOK'
    BY DEF IInv, ModeOK, InSnapshot, CallersOK, Labels, Conts, Locked,
           FlagsOK, TakeCreates, Goto, shotRest, vars, clientVars,
           previewVars, frameVars, recordVars, focusVars, shotVars,
           jpegVars, lifeVars
  <1>6. PreviewOK'
    BY DEF IInv, PreviewOK, CallersOK, Labels, Locked, Conts, DriverOk,
           TakeCreates, Goto, shotRest, vars, clientVars, previewVars,
           frameVars, recordVars, focusVars, shotVars, jpegVars, lifeVars
  <1>7. QED BY <1>1, <1>2, <1>3, <1>4, <1>5, <1>6 DEF IInv

\* The mode is set as long as the picture may be in the making.
LEMMA TakeSetsModeKeeps ==
    ASSUME IInv, NEW c \in Callers, TakeSetsMode(c) PROVE IInv'
  <1>1. CallersOK'
    BY DEF IInv, CallersOK, Labels, Locked, Conts, TakeSetsMode, Return,
           Goto, shotRest, vars, clientVars, previewVars, frameVars,
           recordVars, focusVars, shotVars, jpegVars, lifeVars
  <1>2. Alone'
    BY DEF IInv, Alone, CallersOK, Labels, Locked, MLockHeld, CallerAt,
           TakeSetsMode, Return, Goto, shotRest, vars, clientVars,
           previewVars, frameVars, recordVars, focusVars, shotVars,
           jpegVars, lifeVars
  <1>3. FlagsOK'
    BY DEF IInv, FlagsOK, TakeSetsMode, Return, Goto, shotRest, vars,
           clientVars, previewVars, frameVars, recordVars, focusVars,
           shotVars, jpegVars, lifeVars
  <1>4. WaitedOK'
    BY DEF IInv, WaitedOK, WaitedForSnap, FlagsOK, CallersOK, Alone, ModeOK,
           InSnapshot, Labels, Locked, Conts, MLockHeld, CallerAt,
           TakeSetsMode, Return, Goto, shotRest, vars, clientVars,
           previewVars, frameVars, recordVars, focusVars, shotVars,
           jpegVars, lifeVars
  <1>5. ModeOK'
    BY DEF IInv, ModeOK, InSnapshot, CallersOK, Labels, Conts, Locked,
           FlagsOK, TakeSetsMode, Return, Goto, shotRest, vars, clientVars,
           previewVars, frameVars, recordVars, focusVars, shotVars,
           jpegVars, lifeVars
  <1>6. PreviewOK'
    BY DEF IInv, PreviewOK, CallersOK, Labels, Locked, Conts, DriverOk,
           TakeSetsMode, Return, Goto, shotRest, vars, clientVars,
           previewVars, frameVars, recordVars, focusVars, shotVars,
           jpegVars, lifeVars
  <1>7. QED BY <1>1, <1>2, <1>3, <1>4, <1>5, <1>6 DEF IInv

\* The flag is read, nothing is created.
LEMMA CancelPictureReturnsKeeps ==
    ASSUME IInv, NEW c \in Callers, CancelPictureReturns(c) PROVE IInv'
  <1>1. CallersOK'
    BY DEF IInv, CallersOK, Labels, Locked, Conts, CancelPictureReturns,
           Return, Goto, shotRest, vars, clientVars, previewVars, frameVars,
           recordVars, focusVars, shotVars, jpegVars, lifeVars
  <1>2. Alone'
    BY DEF IInv, Alone, CallersOK, Labels, Locked, MLockHeld, CallerAt,
           CancelPictureReturns, Return, Goto, shotRest, vars, clientVars,
           previewVars, frameVars, recordVars, focusVars, shotVars,
           jpegVars, lifeVars
  <1>3. FlagsOK'
    BY DEF IInv, FlagsOK, CancelPictureReturns, Return, Goto, shotRest,
           vars, clientVars, previewVars, frameVars, recordVars, focusVars,
           shotVars, jpegVars, lifeVars
  <1>4. WaitedOK'
    BY DEF IInv, WaitedOK, WaitedForSnap, FlagsOK, CallersOK, Alone, ModeOK,
           InSnapshot, Labels, Locked, Conts, MLockHeld, CallerAt,
           CancelPictureReturns, Return, Goto, shotRest, vars, clientVars,
           previewVars, frameVars, recordVars, focusVars, shotVars,
           jpegVars, lifeVars
  <1>5. ModeOK'
    BY DEF IInv, ModeOK, InSnapshot, CallersOK, Labels, Conts, Locked,
           FlagsOK, CancelPictureReturns, Return, Goto, shotRest, vars,
           clientVars, previewVars, frameVars, recordVars, focusVars,
           shotVars, jpegVars, lifeVars
  <1>6. PreviewOK'
    BY DEF IInv, PreviewOK, CallersOK, Labels, Locked, Conts, DriverOk,
           CancelPictureReturns, Return, Goto, shotRest, vars, clientVars,
           previewVars, frameVars, recordVars, focusVars, shotVars,
           jpegVars, lifeVars
  <1>7. QED BY <1>1, <1>2, <1>3, <1>4, <1>5, <1>6 DEF IInv

\* The caller goes on with mLock.
LEMMA ReleaseJoinsKeeps ==
    ASSUME IInv, NEW c \in Callers, ReleaseJoins(c) PROVE IInv'
  <1>1. CallersOK'
    BY DEF IInv, CallersOK, Labels, Locked, Conts, ReleaseJoins, Goto,
           lifeRest, vars, clientVars, previewVars, frameVars, recordVars,
           focusVars, shotVars, jpegVars, lifeVars
  <1>2. Alone'
    BY DEF IInv, Alone, CallersOK, Labels, Locked, MLockHeld, CallerAt,
           ReleaseJoins, Goto, lifeRest, vars, clientVars, previewVars,
           frameVars, recordVars, focusVars, shotVars, jpegVars, lifeVars
  <1>3. FlagsOK'
    BY DEF IInv, FlagsOK, ReleaseJoins, Goto, lifeRest, vars, clientVars,
           previewVars, frameVars, recordVars, focusVars, shotVars,
           jpegVars, lifeVars
  <1>4. WaitedOK'
    BY DEF IInv, WaitedOK, WaitedForSnap, FlagsOK, CallersOK, Alone, ModeOK,
           InSnapshot, Labels, Locked, Conts, MLockHeld, CallerAt,
           ReleaseJoins, Goto, lifeRest, vars, clientVars, previewVars,
           frameVars, recordVars, focusVars, shotVars, jpegVars, lifeVars
  <1>5. ModeOK'
    BY DEF IInv, ModeOK, InSnapshot, CallersOK, Labels, Conts, Locked,
           FlagsOK, ReleaseJoins, Goto, lifeRest, vars, clientVars,
           previewVars, frameVars, recordVars, focusVars, shotVars,
           jpegVars, lifeVars
  <1>6. PreviewOK'
    BY DEF IInv, PreviewOK, CallersOK, Labels, Locked, Conts, DriverOk,
           ReleaseJoins, Goto, lifeRest, vars, clientVars, previewVars,
           frameVars, recordVars, focusVars, shotVars, jpegVars, lifeVars
  <1>7. QED BY <1>1, <1>2, <1>3, <1>4, <1>5, <1>6 DEF IInv

\* The caller goes on with mLock.
LEMMA ReleaseClearsKeeps ==
    ASSUME IInv, NEW c \in Callers, ReleaseClears(c) PROVE IInv'
  <1>1. CallersOK'
    BY DEF IInv, CallersOK, Labels, Locked, Conts, ReleaseClears, Goto,
           lifeRest, vars, clientVars, previewVars, frameVars, recordVars,
           focusVars, shotVars, jpegVars, lifeVars
  <1>2. Alone'
    BY DEF IInv, Alone, CallersOK, Labels, Locked, MLockHeld, CallerAt,
           ReleaseClears, Goto, lifeRest, vars, clientVars, previewVars,
           frameVars, recordVars, focusVars, shotVars, jpegVars, lifeVars
  <1>3. FlagsOK'
    BY DEF IInv, FlagsOK, ReleaseClears, Goto, lifeRest, vars, clientVars,
           previewVars, frameVars, recordVars, focusVars, shotVars,
           jpegVars, lifeVars
  <1>4. WaitedOK'
    BY DEF IInv, WaitedOK, WaitedForSnap, FlagsOK, CallersOK, Alone, ModeOK,
           InSnapshot, Labels, Locked, Conts, MLockHeld, CallerAt,
           ReleaseClears, Goto, lifeRest, vars, clientVars, previewVars,
           frameVars, recordVars, focusVars, shotVars, jpegVars, lifeVars
  <1>5. ModeOK'
    BY DEF IInv, ModeOK, InSnapshot, CallersOK, Labels, Conts, Locked,
           FlagsOK, ReleaseClears, Goto, lifeRest, vars, clientVars,
           previewVars, frameVars, recordVars, focusVars, shotVars,
           jpegVars, lifeVars
  <1>6. PreviewOK'
    BY DEF IInv, PreviewOK, CallersOK, Labels, Locked, Conts, DriverOk,
           ReleaseClears, Goto, lifeRest, vars, clientVars, previewVars,
           frameVars, recordVars, focusVars, shotVars, jpegVars, lifeVars
  <1>7. QED BY <1>1, <1>2, <1>3, <1>4, <1>5, <1>6 DEF IInv

\* mLock is given up.
LEMMA ReleaseClosesKeeps ==
    ASSUME IInv, NEW c \in Callers, ReleaseCloses(c) PROVE IInv'
  <1>1. CallersOK'
    BY DEF IInv, CallersOK, Labels, Locked, Conts, ReleaseCloses, Return,
           Goto, lifeRest, vars, clientVars, previewVars, frameVars,
           recordVars, focusVars, shotVars, jpegVars, lifeVars
  <1>2. Alone'
    BY DEF IInv, Alone, CallersOK, Labels, Locked, MLockHeld, CallerAt,
           ReleaseCloses, Return, Goto, lifeRest, vars, clientVars,
           previewVars, frameVars, recordVars, focusVars, shotVars,
           jpegVars, lifeVars
  <1>3. FlagsOK'
    BY DEF IInv, FlagsOK, ReleaseCloses, Return, Goto, lifeRest, vars,
           clientVars, previewVars, frameVars, recordVars, focusVars,
           shotVars, jpegVars, lifeVars
  <1>4. WaitedOK'
    BY DEF IInv, WaitedOK, WaitedForSnap, FlagsOK, CallersOK, Alone, ModeOK,
           InSnapshot, Labels, Locked, Conts, MLockHeld, CallerAt,
           ReleaseCloses, Return, Goto, lifeRest, vars, clientVars,
           previewVars, frameVars, recordVars, focusVars, shotVars,
           jpegVars, lifeVars
  <1>5. ModeOK'
    BY DEF IInv, ModeOK, InSnapshot, CallersOK, Labels, Conts, Locked,
           FlagsOK, ReleaseCloses, Return, Goto, lifeRest, vars, clientVars,
           previewVars, frameVars, recordVars, focusVars, shotVars,
           jpegVars, lifeVars
  <1>6. PreviewOK'
    BY DEF IInv, PreviewOK, CallersOK, Labels, Locked, Conts, DriverOk,
           ReleaseCloses, Return, Goto, lifeRest, vars, clientVars,
           previewVars, frameVars, recordVars, focusVars, shotVars,
           jpegVars, lifeVars
  <1>7. QED BY <1>1, <1>2, <1>3, <1>4, <1>5, <1>6 DEF IInv

\* The frame thread takes its flag down when it ends.
LEMMA FrameThreadKeeps ==
    ASSUME IInv, FrameThread PROVE IInv'
  <1>1. CallersOK'
    BY DEF IInv, CallersOK, Labels, Locked, Conts, FrameThread, FrameBegin,
           FrameArrives, FrameLooksUp, FrameCallback, FrameRecord,
           FrameRecLock, FrameLeaves, FrameEnds, FrameTimeoutTold, frameOnly,
           previewRest, vars, clientVars, previewVars, frameVars, recordVars,
           focusVars, shotVars, jpegVars, lifeVars
  <1>2. Alone'
    BY DEF IInv, Alone, CallersOK, Labels, Locked, MLockHeld, CallerAt,
           FrameThread, FrameBegin, FrameArrives, FrameLooksUp,
           FrameCallback, FrameRecord, FrameRecLock, FrameLeaves, FrameEnds,
           FrameTimeoutTold, frameOnly, previewRest, vars, clientVars,
           previewVars, frameVars, recordVars, focusVars, shotVars, jpegVars,
           lifeVars
  <1>3. FlagsOK'
    BY DEF IInv, FlagsOK, FrameThread, FrameBegin, FrameArrives,
           FrameLooksUp, FrameCallback, FrameRecord, FrameRecLock,
           FrameLeaves, FrameEnds, FrameTimeoutTold, frameOnly, previewRest,
           vars, clientVars, previewVars, frameVars, recordVars, focusVars,
           shotVars, jpegVars, lifeVars
  <1>4. WaitedOK'
    BY DEF IInv, WaitedOK, WaitedForSnap, FlagsOK, CallersOK, Alone, ModeOK,
           InSnapshot, Labels, Locked, Conts, MLockHeld, CallerAt,
           FrameThread, FrameBegin, FrameArrives, FrameLooksUp,
           FrameCallback, FrameRecord, FrameRecLock, FrameLeaves, FrameEnds,
           FrameTimeoutTold, frameOnly, previewRest, vars, clientVars,
           previewVars, frameVars, recordVars, focusVars, shotVars, jpegVars,
           lifeVars
  <1>5. ModeOK'
    BY DEF IInv, ModeOK, InSnapshot, CallersOK, Labels, Conts, Locked,
           FlagsOK, FrameThread, FrameBegin, FrameArrives, FrameLooksUp,
           FrameCallback, FrameRecord, FrameRecLock, FrameLeaves, FrameEnds,
           FrameTimeoutTold, frameOnly, previewRest, vars, clientVars,
           previewVars, frameVars, recordVars, focusVars, shotVars, jpegVars,
           lifeVars
  <1>6. PreviewOK'
    BY DEF IInv, PreviewOK, CallersOK, Labels, Locked, Conts, DriverOk,
           FrameThread, FrameBegin, FrameArrives, FrameLooksUp,
           FrameCallback, FrameRecord, FrameRecLock, FrameLeaves, FrameEnds,
           FrameTimeoutTold, frameOnly, previewRest, vars, clientVars,
           previewVars, frameVars, recordVars, focusVars, shotVars, jpegVars,
           lifeVars
  <1>7. QED BY <1>1, <1>2, <1>3, <1>4, <1>5, <1>6 DEF IInv

\* The autofocus thread takes its flag down when it ends.
LEMMA FocusThreadKeeps ==
    ASSUME IInv, FocusThread PROVE IInv'
  <1>1. CallersOK'
    BY DEF IInv, CallersOK, Labels, Locked, Conts, FocusThread,
           FocusSkipped, FocusTries, FocusBegins, FocusEnds, FocusDone,
           focusOnly, focusRest, vars, clientVars, previewVars, frameVars,
           recordVars, focusVars, shotVars, jpegVars, lifeVars
  <1>2. Alone'
    BY DEF IInv, Alone, CallersOK, Labels, Locked, MLockHeld, CallerAt,
           FocusThread, FocusSkipped, FocusTries, FocusBegins, FocusEnds,
           FocusDone, focusOnly, focusRest, vars, clientVars, previewVars,
           frameVars, recordVars, focusVars, shotVars, jpegVars, lifeVars
  <1>3. FlagsOK'
    BY DEF IInv, FlagsOK, FocusThread, FocusSkipped, FocusTries, FocusBegins,
           FocusEnds, FocusDone, focusOnly, focusRest, vars, clientVars,
           previewVars, frameVars, recordVars, focusVars, shotVars, jpegVars,
           lifeVars
  <1>4. WaitedOK'
    BY DEF IInv, WaitedOK, WaitedForSnap, FlagsOK, CallersOK, Alone, ModeOK,
           InSnapshot, Labels, Locked, Conts, MLockHeld, CallerAt,
           FocusThread, FocusSkipped, FocusTries, FocusBegins, FocusEnds,
           FocusDone, focusOnly, focusRest, vars, clientVars, previewVars,
           frameVars, recordVars, focusVars, shotVars, jpegVars, lifeVars
  <1>5. ModeOK'
    BY DEF IInv, ModeOK, InSnapshot, CallersOK, Labels, Conts, Locked,
           FlagsOK, FocusThread, FocusSkipped, FocusTries, FocusBegins,
           FocusEnds, FocusDone, focusOnly, focusRest, vars, clientVars,
           previewVars, frameVars, recordVars, focusVars, shotVars, jpegVars,
           lifeVars
  <1>6. PreviewOK'
    BY DEF IInv, PreviewOK, CallersOK, Labels, Locked, Conts, DriverOk,
           FocusThread, FocusSkipped, FocusTries, FocusBegins, FocusEnds,
           FocusDone, focusOnly, focusRest, vars, clientVars, previewVars,
           frameVars, recordVars, focusVars, shotVars, jpegVars, lifeVars
  <1>7. QED BY <1>1, <1>2, <1>3, <1>4, <1>5, <1>6 DEF IInv

\* The snapshot thread clears the mode when the picture is made or lost, and
\* when it ends takes its flag down and wakes a caller, which keeps its locks.
LEMMA SnapThreadKeeps ==
    ASSUME IInv, SnapThread PROVE IInv'
  <1>1. CallersOK'
    BY DEF IInv, CallersOK, Labels, Locked, Conts, SnapThread, SnapBegin,
           ReceiveRawPicture, GetPicture, RawCallback, Encode,
           ReceiveRawSnapshot, SnapClearsMode, SnapWaitsForJpeg, SnapJoins,
           SnapEnds, SignalSnapshotThread, AsleepForSnap, Goto, NotifyShutter,
           shotFlags, shotOnly, shotRest, vars, clientVars, previewVars,
           frameVars, recordVars, focusVars, shotVars, jpegVars, lifeVars
  <1>2. Alone'
    BY DEF IInv, Alone, CallersOK, Labels, Locked, MLockHeld, CallerAt,
           SnapThread, SnapBegin, ReceiveRawPicture, GetPicture,
           RawCallback, Encode, ReceiveRawSnapshot, SnapClearsMode,
           SnapWaitsForJpeg, SnapJoins, SnapEnds, SignalSnapshotThread,
           AsleepForSnap, Goto, NotifyShutter, shotFlags, shotOnly, shotRest,
           vars, clientVars, previewVars, frameVars, recordVars, focusVars,
           shotVars, jpegVars, lifeVars
  <1>3. FlagsOK'
    BY DEF IInv, FlagsOK, SnapThread, SnapBegin, ReceiveRawPicture,
           GetPicture, RawCallback, Encode, ReceiveRawSnapshot,
           SnapClearsMode, SnapWaitsForJpeg, SnapJoins, SnapEnds,
           SignalSnapshotThread, AsleepForSnap, Goto, NotifyShutter, shotFlags,
           shotOnly, shotRest, vars, clientVars, previewVars, frameVars,
           recordVars, focusVars, shotVars, jpegVars, lifeVars
  <1>4. WaitedOK'
    BY DEF IInv, WaitedOK, WaitedForSnap, FlagsOK, CallersOK, Alone, ModeOK,
           InSnapshot, Labels, Locked, Conts, MLockHeld, CallerAt,
           SnapThread, SnapBegin, ReceiveRawPicture, GetPicture,
           RawCallback, Encode, ReceiveRawSnapshot, SnapClearsMode,
           SnapWaitsForJpeg, SnapJoins, SnapEnds, SignalSnapshotThread,
           AsleepForSnap, Goto, NotifyShutter, shotFlags, shotOnly, shotRest,
           vars, clientVars, previewVars, frameVars, recordVars, focusVars,
           shotVars, jpegVars, lifeVars
  <1>5. ModeOK'
    BY DEF IInv, ModeOK, InSnapshot, CallersOK, Labels, Conts, Locked,
           FlagsOK, SnapThread, SnapBegin, ReceiveRawPicture, GetPicture,
           RawCallback, Encode, ReceiveRawSnapshot, SnapClearsMode,
           SnapWaitsForJpeg, SnapJoins, SnapEnds, SignalSnapshotThread,
           AsleepForSnap, Goto, NotifyShutter, shotFlags, shotOnly, shotRest,
           vars, clientVars, previewVars, frameVars, recordVars, focusVars,
           shotVars, jpegVars, lifeVars
  <1>6. PreviewOK'
    BY DEF IInv, PreviewOK, CallersOK, Labels, Locked, Conts, DriverOk,
           SnapThread, SnapBegin, ReceiveRawPicture, GetPicture,
           RawCallback, Encode, ReceiveRawSnapshot, SnapClearsMode,
           SnapWaitsForJpeg, SnapJoins, SnapEnds, SignalSnapshotThread,
           AsleepForSnap, Goto, NotifyShutter, shotFlags, shotOnly, shotRest,
           vars, clientVars, previewVars, frameVars, recordVars, focusVars,
           shotVars, jpegVars, lifeVars
  <1>7. QED BY <1>1, <1>2, <1>3, <1>4, <1>5, <1>6 DEF IInv

\* The encoder's thread has none of this.
LEMMA JpegThreadKeeps ==
    ASSUME IInv, JpegThread PROVE IInv'
  <1>1. CallersOK'
    BY DEF IInv, CallersOK, Labels, Locked, Conts, JpegThread, JpegDelivers,
           JpegEnds, JpegFails, shotOnly, shotRest, vars, clientVars,
           previewVars, frameVars, recordVars, focusVars, shotVars,
           jpegVars, lifeVars
  <1>2. Alone'
    BY DEF IInv, Alone, CallersOK, Labels, Locked, MLockHeld, CallerAt,
           JpegThread, JpegDelivers, JpegEnds, JpegFails, shotOnly,
           shotRest, vars, clientVars, previewVars, frameVars, recordVars,
           focusVars, shotVars, jpegVars, lifeVars
  <1>3. FlagsOK'
    BY DEF IInv, FlagsOK, JpegThread, JpegDelivers, JpegEnds, JpegFails,
           shotOnly, shotRest, vars, clientVars, previewVars, frameVars,
           recordVars, focusVars, shotVars, jpegVars, lifeVars
  <1>4. WaitedOK'
    BY DEF IInv, WaitedOK, WaitedForSnap, FlagsOK, CallersOK, Alone, ModeOK,
           InSnapshot, Labels, Locked, Conts, MLockHeld, CallerAt,
           JpegThread, JpegDelivers, JpegEnds, JpegFails, shotOnly,
           shotRest, vars, clientVars, previewVars, frameVars, recordVars,
           focusVars, shotVars, jpegVars, lifeVars
  <1>5. ModeOK'
    BY DEF IInv, ModeOK, InSnapshot, CallersOK, Labels, Conts, Locked,
           FlagsOK, JpegThread, JpegDelivers, JpegEnds, JpegFails, shotOnly,
           shotRest, vars, clientVars, previewVars, frameVars, recordVars,
           focusVars, shotVars, jpegVars, lifeVars
  <1>6. PreviewOK'
    BY DEF IInv, PreviewOK, CallersOK, Labels, Locked, Conts, DriverOk,
           JpegThread, JpegDelivers, JpegEnds, JpegFails, shotOnly,
           shotRest, vars, clientVars, previewVars, frameVars, recordVars,
           focusVars, shotVars, jpegVars, lifeVars
  <1>7. QED BY <1>1, <1>2, <1>3, <1>4, <1>5, <1>6 DEF IInv

\* Nor have the frame timeout, the destructor and createInstance.
LEMMA OthersKeeps ==
    ASSUME IInv, Others PROVE IInv'
  <1>1. CallersOK'
    BY DEF IInv, CallersOK, Labels, Locked, Conts, Others,
           ReleaseRecordingFrame, SignalRecordFrame, FrameTimeout, Destroy,
           TimePasses, Creator, CreateInstance, CreateInstanceAnswers,
           createOnly, previewRest, lifeRest, vars, clientVars, previewVars,
           frameVars, recordVars, focusVars, shotVars, jpegVars, lifeVars
  <1>2. Alone'
    BY DEF IInv, Alone, CallersOK, Labels, Locked, MLockHeld, CallerAt,
           Others, ReleaseRecordingFrame, SignalRecordFrame, FrameTimeout,
           Destroy, TimePasses, Creator, CreateInstance, CreateInstanceAnswers,
           createOnly, previewRest, lifeRest, vars, clientVars, previewVars,
           frameVars, recordVars, focusVars, shotVars, jpegVars, lifeVars
  <1>3. FlagsOK'
    BY DEF IInv, FlagsOK, Others, ReleaseRecordingFrame, SignalRecordFrame,
           FrameTimeout, Destroy, TimePasses, Creator, CreateInstance,
           CreateInstanceAnswers, createOnly, previewRest, lifeRest, vars,
           clientVars, previewVars, frameVars, recordVars, focusVars, shotVars,
           jpegVars, lifeVars
  <1>4. WaitedOK'
    BY DEF IInv, WaitedOK, WaitedForSnap, FlagsOK, CallersOK, Alone, ModeOK,
           InSnapshot, Labels, Locked, Conts, MLockHeld, CallerAt, Others,
           ReleaseRecordingFrame, SignalRecordFrame, FrameTimeout, Destroy,
           TimePasses, Creator, CreateInstance, CreateInstanceAnswers,
           createOnly, previewRest, lifeRest, vars, clientVars, previewVars,
           frameVars, recordVars, focusVars, shotVars, jpegVars, lifeVars
  <1>5. ModeOK'
    BY DEF IInv, ModeOK, InSnapshot, CallersOK, Labels, Conts, Locked,
           FlagsOK, Others, ReleaseRecordingFrame, SignalRecordFrame,
           FrameTimeout, Destroy, TimePasses, Creator, CreateInstance,
           CreateInstanceAnswers, createOnly, previewRest, lifeRest, vars,
           clientVars, previewVars, frameVars, recordVars, focusVars, shotVars,
           jpegVars, lifeVars
  <1>6. PreviewOK'
    BY DEF IInv, PreviewOK, CallersOK, Labels, Locked, Conts, DriverOk,
           Others, ReleaseRecordingFrame, SignalRecordFrame, FrameTimeout,
           Destroy, TimePasses, Creator, CreateInstance, CreateInstanceAnswers,
           createOnly, previewRest, lifeRest, vars, clientVars, previewVars,
           frameVars, recordVars, focusVars, shotVars, jpegVars, lifeVars
  <1>7. QED BY <1>1, <1>2, <1>3, <1>4, <1>5, <1>6 DEF IInv

\* Every step keeps the invariant.
LEMMA NextKeeps == IInv /\ [Next]_vars => IInv'
  <1> SUFFICES ASSUME IInv, [Next]_vars PROVE IInv' OBVIOUS
  <1>1. ASSUME NEW c \in Callers, CallBegins(c) PROVE IInv'
    BY <1>1, StartPreviewKeeps, StopPreviewKeeps, StartRecordingKeeps,
       StopRecordingKeeps, TakePictureKeeps, CancelPictureKeeps,
       AutoFocusKeeps, CancelAutoFocusKeeps, SetMsgsKeeps, ReleaseKeeps
       DEF CallBegins
  <1>2. ASSUME NEW c \in Callers, CallGoesOn(c) PROVE IInv'
    BY <1>2, InitPreviewFrameWaitKeeps, InitPreviewKeeps, NativeStartKeeps,
       StopNativeKeeps, AutoFocusStartsKeeps, CancelBusyKeeps,
       CancelTakesLockKeeps, CancelGivesLockKeeps, SleepsForSnapKeeps,
       TakeStopsKeeps, TakeInitFailsKeeps, TakeCreatesKeeps, TakeSetsModeKeeps,
       CancelPictureReturnsKeeps, ReleaseJoinsKeeps, ReleaseClearsKeeps,
       ReleaseClosesKeeps
       DEF CallGoesOn
  <1>3. CASE UNCHANGED vars
    BY <1>3 DEF IInv, CallersOK, Alone, FlagsOK, WaitedOK, WaitedForSnap,
                ModeOK, PreviewOK, vars, clientVars, previewVars, frameVars,
                focusVars, shotVars
  <1>4. QED
    BY <1>1, <1>2, <1>3, FrameThreadKeeps,
       FocusThreadKeeps, SnapThreadKeeps, JpegThreadKeeps, OthersKeeps
       DEF Next, Others

\* The invariant the theorems below rest on.
THEOREM Invariance == Spec => []IInv
  BY InitIInv, NextKeeps, PTL DEF Spec

-----------------------------------------------------------------------------
(* What the invariant gives *)

\* What a step of OneThreadOfAKind may do.
Births == /\ frame' = "born" /\ frame # "born" => frame = "none"
          /\ snap' = "born" /\ snap # "born" => snap = "none"
          /\ af' = "born" /\ af # "born" => af = "none"

\* Of the actions, only initPreview creates a frame thread, only takePicture
\* a snapshot thread and only autoFocus an autofocus thread.
LEMMA CallBirths ==
    ASSUME IInv, NEW c \in Callers, CallBegins(c)
    PROVE  UNCHANGED <<snap, af>> /\ (frame' = "born" => frame = "born")
  BY DEF CallBegins, StartPreview, StopPreview, StartRecording, StopRecording,
         TakePicture, CancelPicture, AutoFocus, CancelAutoFocus, SetMsgs,
         Release, SignalRecordFrame, previewRest,
         focusRest, shotRest, lifeRest, frameVars, focusVars, shotVars

\* What the waits of startPreview, takePicture and autoFocus found.
LEMMA GoOnBirths ==
    ASSUME IInv, NEW c \in Callers, CallGoesOn(c)
    PROVE  Births
  <1>1. CASE InitPreview(c)
    BY <1>1 DEF Births, IInv, WaitedOK, InitPreview, previewRest, frameVars,
                focusVars, shotVars
  <1>2. CASE TakeCreates(c)
    BY <1>2 DEF Births, IInv, WaitedOK, WaitedForSnap, TakeCreates, shotRest,
                frameVars, focusVars
  <1>3. CASE AutoFocusStarts(c)
    BY <1>3 DEF Births, IInv, FlagsOK, AutoFocusStarts, focusRest, frameVars,
                focusVars, shotVars
  <1>4. CASE ~(InitPreview(c) \/ TakeCreates(c) \/ AutoFocusStarts(c))
    BY <1>4 DEF Births, CallGoesOn, InitPreviewFrameWait, NativeStart,
                StopNative, CancelBusy, CancelTakesLock, CancelGivesLock,
                SleepsForSnap, TakeStops, TakeInitFails, TakeSetsMode,
                CancelPictureReturns, ReleaseJoins, ReleaseClears,
                ReleaseCloses, previewRest, focusRest, shotRest, lifeRest,
                frameVars, focusVars, shotVars
  <1>5. QED BY <1>1, <1>2, <1>3, <1>4

\* The threads themselves create no thread that has a flag to wait for.
LEMMA ThreadBirths ==
    ASSUME FrameThread \/ FocusThread \/ SnapThread \/ JpegThread \/ Others
    PROVE  Births
  <1>1. CASE FrameThread
    BY <1>1 DEF Births, FrameThread, FrameBegin, FrameArrives, FrameLooksUp,
                FrameCallback, FrameRecord, FrameRecLock, FrameLeaves,
                FrameEnds, FrameTimeoutTold, frameOnly, previewRest, focusVars,
                shotVars
  <1>2. CASE FocusThread
    BY <1>2 DEF Births, FocusThread, FocusSkipped, FocusTries, FocusBegins,
                FocusEnds, FocusDone, focusOnly, focusRest, frameVars, shotVars
  <1>3. CASE SnapThread
    BY <1>3 DEF Births, SnapThread, SnapBegin, ReceiveRawPicture, GetPicture,
                RawCallback, Encode, ReceiveRawSnapshot, SnapClearsMode,
                SnapWaitsForJpeg, SnapJoins, SnapEnds, shotOnly, shotRest,
                frameVars, focusVars
  <1>4. CASE JpegThread
    BY <1>4 DEF Births, JpegThread, JpegDelivers, JpegEnds, JpegFails,
                shotOnly, shotRest, frameVars, focusVars, shotVars
  <1>5. CASE Others
    BY <1>5 DEF Births, Others, ReleaseRecordingFrame, SignalRecordFrame,
                FrameTimeout, Destroy, TimePasses, Creator, CreateInstance,
                CreateInstanceAnswers, createOnly, previewRest, lifeRest,
                frameVars, focusVars, shotVars
  <1>6. QED BY <1>1, <1>2, <1>3, <1>4, <1>5

\* Every step creates a thread only when there is none of its kind.
LEMMA StepBirths == IInv /\ [Next]_vars => Births
  <1> SUFFICES ASSUME IInv, [Next]_vars PROVE Births OBVIOUS
  <1>1. CASE UNCHANGED vars
    BY <1>1 DEF Births, vars, frameVars, focusVars, shotVars
  <1>2. ASSUME NEW c \in Callers, CallBegins(c)
        PROVE  Births
    BY <1>2, CallBirths DEF Births
  <1>3. QED BY <1>1, <1>2, GoOnBirths, ThreadBirths DEF Next, Others

\* A frame, snapshot or autofocus thread is created only when the one before
\* it is done with their buffers and flags, which have one user each.
THEOREM ThreadsFollowEachOther == Spec => OneThreadOfAKind
  <1>1. []IInv /\ [][Next]_vars => [][Births]_vars
    BY StepBirths, PTL
  <1>2. Spec => [][Births]_vars
    BY <1>1, Invariance, PTL DEF Spec
  <1>3. QED BY <1>2 DEF OneThreadOfAKind, Births

\* What a step of NoPreviewInSnapshot may do.
StartsOutside == (\E c \in Callers : NativeStart(c)) /\ ~mCameraRunning
                   => snap \notin {"picture", "get", "shot"}

\* native_start_preview is called only when no picture is being taken: the
\* wait of initPreview for mInSnapshotMode suffices although takePicture sets
\* the mode late, because it still has mLock then.
THEOREM PreviewOutsideSnapshot == Spec => NoPreviewInSnapshot
  <1>1. ASSUME IInv PROVE StartsOutside
    BY <1>1 DEF StartsOutside, IInv, WaitedOK, InSnapshot, NativeStart
  <1>2. []IInv => [][StartsOutside]_vars
    BY <1>1, PTL
  <1>3. Spec => [][StartsOutside]_vars
    BY <1>2, Invariance, PTL
  <1>4. QED BY <1>3 DEF NoPreviewInSnapshot, StartsOutside

\* Under FocusOnPreview no step of a caller ends the preview: the thread that
\* focuses holds mCameraRunningLock.
LEMMA CallsKeepFocus ==
    ASSUME FocusOnPreview, NEW c \in Callers,
           CallBegins(c) \/ CallGoesOn(c)
    PROVE  FocusOnPreview'
  <1>1. CASE CallBegins(c)
    BY <1>1 DEF FocusOnPreview, CallBegins, StartPreview, StopPreview,
         StartRecording, StopRecording, TakePicture, CancelPicture, AutoFocus,
         CancelAutoFocus, SetMsgs, Release, previewRest, focusRest, shotRest,
         lifeRest, previewVars, focusVars
  <1>2. CASE NativeStart(c) \/ StopNative(c) \/ AutoFocusStarts(c)
    BY <1>2 DEF FocusOnPreview, NativeStart, StopNative, AutoFocusStarts,
         MCameraRunningLockHeld, previewRest, focusRest, previewVars,
         focusVars
  <1>3. CASE CallGoesOn(c)
             /\ ~(NativeStart(c) \/ StopNative(c) \/ AutoFocusStarts(c))
    BY <1>3 DEF FocusOnPreview, CallGoesOn, InitPreviewFrameWait, InitPreview,
         CancelBusy, CancelTakesLock, CancelGivesLock, SleepsForSnap,
         TakeStops, TakeInitFails, TakeCreates, TakeSetsMode,
         CancelPictureReturns, ReleaseJoins, ReleaseClears, ReleaseCloses,
         previewRest, focusRest, shotRest, lifeRest, previewVars, focusVars
  <1>4. QED BY <1>1, <1>2, <1>3

\* The focus begins with the preview running, and no thread stops it.
LEMMA ThreadsKeepFocus ==
    ASSUME FocusOnPreview,
           FrameThread \/ FocusThread \/ SnapThread \/ JpegThread \/ Others
    PROVE  FocusOnPreview'
  <1>1. CASE FrameThread
    BY <1>1 DEF FocusOnPreview, FrameThread, FrameBegin, FrameArrives,
                FrameLooksUp, FrameCallback, FrameRecord, FrameRecLock,
                FrameLeaves, FrameEnds, FrameTimeoutTold, frameOnly,
                previewRest, previewVars, focusVars
  <1>2. CASE FocusThread
    BY <1>2 DEF FocusOnPreview, FocusThread, FocusSkipped, FocusTries,
                FocusBegins, FocusEnds, FocusDone, focusOnly, focusRest,
                previewVars
  <1>3. CASE SnapThread
    BY <1>3 DEF FocusOnPreview, SnapThread, SnapBegin, ReceiveRawPicture,
                GetPicture, RawCallback, Encode, ReceiveRawSnapshot,
                SnapClearsMode, SnapWaitsForJpeg, SnapJoins, SnapEnds,
                shotOnly, shotRest, previewVars, focusVars
  <1>4. CASE JpegThread
    BY <1>4 DEF FocusOnPreview, JpegThread, JpegDelivers, JpegEnds,
                JpegFails, shotOnly, shotRest, previewVars, focusVars
  <1>5. CASE Others
    BY <1>5 DEF FocusOnPreview, Others, ReleaseRecordingFrame,
                SignalRecordFrame, FrameTimeout, Destroy, TimePasses, Creator,
                CreateInstance, CreateInstanceAnswers, createOnly, previewRest,
                lifeRest, previewVars, focusVars
  <1>6. QED BY <1>1, <1>2, <1>3, <1>4, <1>5

\* The driver focuses only while the preview runs: whoever stops it waits for
\* mCameraRunningLock, which the autofocus thread holds while it focuses.
THEOREM FocusOnlyOnPreview == Spec => []FocusOnPreview
  <1>1. Init => FocusOnPreview
    BY DEF Init, FocusOnPreview
  <1>2. FocusOnPreview /\ [Next]_vars => FocusOnPreview'
    <2> SUFFICES ASSUME FocusOnPreview, [Next]_vars PROVE FocusOnPreview'
      OBVIOUS
    <2>1. CASE UNCHANGED vars
      BY <2>1 DEF FocusOnPreview, vars, previewVars, focusVars
    <2>2. QED BY <2>1, CallsKeepFocus, ThreadsKeepFocus DEF Next, Others
  <1>3. QED BY <1>1, <1>2, PTL DEF Spec
-----------------------------------------------------------------------------
(* The heaps *)

\* The object's heaps are in use: release has not cleared them.
Live == obj = "open" /\ ~CallerAt({"relClear", "relClose"})

\* A picture that is to be encoded is under way.
ToEncode == \/ snap = "born" /\ mSnapshotFormat # "raw"
            \/ snap \in {"picture", "get", "rawCb", "encode"}

\* A raw picture is under way.
ToShoot == \/ snap = "born" /\ mSnapshotFormat = "raw"
           \/ snap = "shot"

\* The heap a frame thread was created with is there until that thread drops
\* it.
FrameHeapOK == frame \notin {"none", "leaving"} => mPreviewHeap = TRUE

\* An encoder's thread is announced, and its snapshot thread waits for it:
\* for its flag, which release may clear, and for its end.
EncoderOK == jpeg # "none" =>
                 /\ snap \in {"mode", "jpegWait", "join"}
                 /\ Live => mJpegThreadRunning = TRUE /\ snap # "join"

\* takePicture made the heaps that the picture's messages call for, and the
\* messages stay what they were.
MadeOK == Live => /\ ToEncode => "raw" \in heaps
                  /\ ToEncode /\ "COMPRESSED_IMAGE" \in mMsgEnabled
                       => "jpeg" \in heaps /\ "thumb" \in heaps
                  /\ ToShoot => "rawShot" \in heaps
                  /\ jpeg # "none" => "raw" \in heaps /\ "jpeg" \in heaps

\* A picture's messages are enabled together.
Together(ms) == PictureMsgs \subseteq ms \/ PictureMsgs \cap ms = {}

\* The raw picture is delivered after the shutter, which points the heap to
\* display at the thumbnail's.
DisplayOK == /\ Together(mMsgEnabled)
             /\ snap \in {"born", "picture", "get"} => mShutterPending = TRUE
             /\ Live /\ snap = "rawCb" => "display" \in heaps

HInv == FrameHeapOK /\ EncoderOK /\ MadeOK

\* What the service does: it switches the messages of a picture together.
PictureMsgsTogether == \A g \in MsgGroups \cup InitMsgs : Together(g)

\* What the heaps of a picture depend on.
pictureVars == <<mMsgEnabled, snap, mSnapshotFormat, mSnapshotThreadRunning,
                 mShutterPending, jpegVars, heaps>>

\* The steps of callers that change it.
PictureStep(c) == \/ SetMsgs(c) \/ TakeStops(c) \/ TakeInitFails(c)
                  \/ TakeCreates(c) \/ ReleaseJoins(c) \/ ReleaseClears(c)

\* No heap and no snapshot or encoder thread at the start.
LEMMA InitHInv == Init => HInv
  BY DEF Init, HInv, FrameHeapOK, EncoderOK, MadeOK, Live, ToEncode, ToShoot

\* A heap that release has cleared is not made again: the steps of callers.
LEMMA CallsEndLive ==
    ASSUME IInv, NEW c \in Callers,
           CallBegins(c) \/ CallGoesOn(c), Live'
    PROVE  Live
  <1>1. CASE CallBegins(c)
    BY <1>1 DEF Live, CallerAt, IInv, CallersOK, CallBegins, StartPreview,
         StopPreview, StartRecording, StopRecording, TakePicture,
         CancelPicture, AutoFocus, CancelAutoFocus, SetMsgs, Release,
         CallStart, CallStop, EnterLocked, Enter,
         Goto, Return, previewRest, focusRest, shotRest, lifeRest,
         clientVars, lifeVars
  <1>2. CASE InitPreviewFrameWait(c) \/ InitPreview(c) \/ NativeStart(c)
             \/ StopNative(c) \/ AutoFocusStarts(c) \/ CancelBusy(c)
             \/ CancelTakesLock(c) \/ CancelGivesLock(c)
    BY <1>2 DEF Live, CallerAt, IInv, CallersOK, InitPreviewFrameWait,
         InitPreview, NativeStart, StopNative, AutoFocusStarts, CancelBusy,
         CancelTakesLock, CancelGivesLock, AfterCancel, Goto, Return,
         previewRest, focusRest, clientVars, lifeVars
  <1>3. CASE TakeStops(c) \/ TakeInitFails(c) \/ TakeCreates(c)
             \/ TakeSetsMode(c) \/ CancelPictureReturns(c)
             \/ SleepsForSnap(c) \/ ReleaseJoins(c) \/ ReleaseClears(c)
             \/ ReleaseCloses(c)
    BY <1>3 DEF Live, CallerAt, IInv, CallersOK, SleepsForSnap, TakeStops,
         TakeInitFails, TakeCreates, TakeSetsMode, CancelPictureReturns,
         ReleaseJoins, ReleaseClears, ReleaseCloses, CallStop, Goto, Return,
         shotRest, lifeVars, lifeRest
  <1>4. QED BY <1>1, <1>2, <1>3 DEF CallGoesOn

\* The same of the threads, which do no more to callers than wake them.
LEMMA ThreadsEndLive ==
    ASSUME IInv,
           FrameThread \/ FocusThread \/ SnapThread \/ JpegThread \/ Others,
           Live'
    PROVE  Live
  <1>1. CASE FrameThread \/ FocusThread
    BY <1>1 DEF Live, CallerAt, FrameThread, FrameBegin, FrameArrives,
         FrameLooksUp, FrameCallback, FrameRecord, FrameRecLock, FrameLeaves,
         FrameEnds, FrameTimeoutTold, FocusThread, FocusSkipped, FocusTries,
         FocusBegins, FocusEnds, FocusDone, frameOnly, focusOnly, previewRest,
         focusRest, clientVars, lifeVars
  <1>2. CASE SnapEnds
    BY <1>2 DEF Live, CallerAt, IInv, CallersOK, SnapEnds,
         SignalSnapshotThread, AsleepForSnap, Goto, shotRest, lifeVars
  <1>3. CASE (SnapThread /\ ~SnapEnds) \/ JpegThread
    BY <1>3 DEF Live, CallerAt, SnapThread, SnapBegin, ReceiveRawPicture,
         GetPicture, RawCallback, Encode, ReceiveRawSnapshot, SnapClearsMode,
         SnapWaitsForJpeg, SnapJoins, JpegThread, JpegDelivers, JpegEnds,
         JpegFails, shotOnly, shotRest, clientVars, lifeVars
  <1>4. CASE Others
    BY <1>4 DEF Live, CallerAt, Others, ReleaseRecordingFrame,
                SignalRecordFrame, FrameTimeout, Destroy, TimePasses, Creator,
                CreateInstance, CreateInstanceAnswers, createOnly, previewRest,
                lifeRest, clientVars, lifeVars
  <1>5. QED BY <1>1, <1>2, <1>3, <1>4

\* Release is the end.
LEMMA LiveBefore == IInv /\ [Next]_vars => (Live' => Live)
  <1>1. CASE UNCHANGED vars
    BY <1>1 DEF Live, CallerAt, vars, clientVars, lifeVars
  <1>2. QED BY <1>1, CallsEndLive, ThreadsEndLive DEF Next, Others

\* From the moment release clears the first heap, the heaps are not in use.
LEMMA ReleasedIsEnd ==
    ASSUME IInv, NEW c \in Callers, ReleaseJoins(c) \/ ReleaseClears(c)
    PROVE  ~Live'
  <1>1. pc'[c] \in {"relClear", "relClose"}
    BY DEF ReleaseJoins, ReleaseClears, Goto, IInv, CallersOK
  <1>2. QED BY <1>1 DEF Live, CallerAt

\* Every other step leaves the picture and its heaps alone.
LEMMA Untouched ==
    ASSUME [Next]_vars, ~SnapThread, ~JpegThread,
           ~\E c \in Callers : PictureStep(c)
    PROVE  UNCHANGED pictureVars
  <1>1. CASE UNCHANGED vars
    BY <1>1 DEF pictureVars, vars, shotVars
  <1>2. ASSUME NEW c \in Callers, CallBegins(c)
        PROVE  UNCHANGED pictureVars
    BY <1>2 DEF PictureStep, pictureVars, CallBegins, StartPreview,
         StopPreview, StartRecording, StopRecording, TakePicture,
         CancelPicture, AutoFocus, CancelAutoFocus, Release,
         previewRest, focusRest, shotRest, lifeRest,
         shotVars
  <1>3. ASSUME NEW c \in Callers, CallGoesOn(c)
        PROVE  UNCHANGED pictureVars
    BY <1>3 DEF PictureStep, pictureVars, CallGoesOn, InitPreviewFrameWait,
         InitPreview, NativeStart, StopNative, AutoFocusStarts, CancelBusy,
         CancelTakesLock, CancelGivesLock, SleepsForSnap, TakeSetsMode,
         CancelPictureReturns, ReleaseCloses, previewRest, focusRest,
         shotRest, lifeRest, shotVars
  <1>4. CASE FrameThread \/ FocusThread \/ Others
    BY <1>4 DEF pictureVars, FrameThread, FrameBegin, FrameArrives,
         FrameLooksUp, FrameCallback, FrameRecord, FrameRecLock, FrameLeaves,
         FrameEnds, FrameTimeoutTold, FocusThread, FocusSkipped, FocusTries,
         FocusBegins, FocusEnds, FocusDone, Others, ReleaseRecordingFrame,
         SignalRecordFrame, FrameTimeout, Destroy, TimePasses, Creator,
         CreateInstance, CreateInstanceAnswers, frameOnly, focusOnly,
         createOnly, previewRest, focusRest, lifeRest, shotVars
  <1>5. QED BY <1>1, <1>2, <1>3, <1>4 DEF Next, Others

\* A frame thread is created with its heap, and initPreview, which may drop
\* the heap, has waited for the thread before.
LEMMA FrameHeapKept == IInv /\ FrameHeapOK /\ [Next]_vars => FrameHeapOK'
  <1> SUFFICES ASSUME IInv, FrameHeapOK, [Next]_vars PROVE FrameHeapOK'
    OBVIOUS
  <1>1. CASE UNCHANGED vars
    BY <1>1 DEF FrameHeapOK, vars, previewVars, frameVars
  <1>2. ASSUME NEW c \in Callers, CallBegins(c)
        PROVE  FrameHeapOK'
    BY <1>2 DEF FrameHeapOK, CallBegins, StartPreview, StopPreview,
         StartRecording, StopRecording, TakePicture, CancelPicture, AutoFocus,
         CancelAutoFocus, SetMsgs, Release, SignalRecordFrame, previewRest,
         focusRest, shotRest, lifeRest, previewVars, frameVars
  <1>3. ASSUME NEW c \in Callers, InitPreview(c) PROVE FrameHeapOK'
    BY <1>3 DEF FrameHeapOK, IInv, WaitedOK, InitPreview, frameVars
  <1>4. ASSUME NEW c \in Callers, CallGoesOn(c), ~InitPreview(c)
        PROVE  FrameHeapOK'
    BY <1>4 DEF FrameHeapOK, CallGoesOn, InitPreviewFrameWait, NativeStart,
         StopNative, AutoFocusStarts, CancelBusy, CancelTakesLock,
         CancelGivesLock, SleepsForSnap, TakeStops, TakeInitFails, TakeCreates,
         TakeSetsMode, CancelPictureReturns, ReleaseJoins, ReleaseClears,
         ReleaseCloses, previewRest, focusRest, shotRest, lifeRest,
         previewVars, frameVars
  <1>5. CASE FrameThread
    BY <1>5 DEF FrameHeapOK, FrameThread, FrameBegin, FrameArrives,
         FrameLooksUp, FrameCallback, FrameRecord, FrameRecLock, FrameLeaves,
         FrameEnds, FrameTimeoutTold, frameOnly, previewVars
  <1>6. CASE FocusThread \/ SnapThread \/ JpegThread \/ Others
    BY <1>6 DEF FrameHeapOK, FocusThread, FocusSkipped, FocusTries,
                FocusBegins, FocusEnds, FocusDone, SnapThread, SnapBegin,
                ReceiveRawPicture, GetPicture, RawCallback, Encode,
                ReceiveRawSnapshot, SnapClearsMode, SnapWaitsForJpeg,
                SnapJoins, SnapEnds,
                JpegThread, JpegDelivers, JpegEnds, JpegFails, Others,
                ReleaseRecordingFrame, SignalRecordFrame, FrameTimeout,
                Destroy, TimePasses, Creator, CreateInstance,
                CreateInstanceAnswers, focusOnly, shotOnly, createOnly,
                previewRest, focusRest, shotRest, lifeRest, previewVars,
                frameVars
  <1>7. QED BY <1>1, <1>2, <1>3, <1>4, <1>5, <1>6 DEF Next, Others

\* The encoder starts where the snapshot thread ends its part, and that
\* thread goes on only when the encoder has gone; a picture begins when there
\* is no snapshot thread, so no encoder either.
LEMMA EncoderKept == IInv /\ EncoderOK /\ [Next]_vars => EncoderOK'
  <1> SUFFICES ASSUME IInv, EncoderOK, [Next]_vars PROVE EncoderOK' OBVIOUS
  <1>1. Live' => Live BY LiveBefore
  <1>2. ASSUME NEW c \in Callers,
               SetMsgs(c) \/ TakeStops(c) \/ TakeInitFails(c) \/ TakeCreates(c)
        PROVE  EncoderOK'
    BY <1>1, <1>2 DEF EncoderOK, SetMsgs, TakeStops, TakeInitFails,
         TakeCreates, IInv, WaitedOK, WaitedForSnap, FlagsOK, shotVars,
         jpegVars
  <1>3. ASSUME NEW c \in Callers, ReleaseJoins(c) \/ ReleaseClears(c)
        PROVE  EncoderOK'
    <2>1. ~Live' BY <1>3, ReleasedIsEnd
    <2>2. UNCHANGED <<snap, jpeg>>
      BY <1>3 DEF ReleaseJoins, ReleaseClears, shotVars, jpegVars
    <2>3. QED BY <2>1, <2>2 DEF EncoderOK
  <1>4. CASE SnapThread
    BY <1>1, <1>4 DEF EncoderOK, SnapThread, SnapBegin, ReceiveRawPicture,
         GetPicture, RawCallback, Encode, ReceiveRawSnapshot, SnapClearsMode,
         SnapWaitsForJpeg, SnapJoins, SnapEnds, jpegVars
  <1>5. CASE JpegThread
    BY <1>1, <1>5 DEF EncoderOK, JpegThread, JpegDelivers, JpegEnds,
         JpegFails, shotVars
  <1>6. CASE ~SnapThread /\ ~JpegThread /\ ~\E c \in Callers : PictureStep(c)
    <2>1. UNCHANGED pictureVars BY <1>6, Untouched
    <2>2. QED BY <1>1, <2>1 DEF EncoderOK, pictureVars, jpegVars
  <1>7. QED BY <1>2, <1>3, <1>4, <1>5, <1>6 DEF PictureStep

\* The steps of callers: takePicture makes the heaps or, with no picture under
\* way, drops them; the messages of a picture do not change under it; release
\* clears the heaps for good.
LEMMA CallsKeepMade ==
    ASSUME IInv, EncoderOK, MadeOK, Live' => Live, NEW c \in Callers,
           PictureStep(c)
    PROVE  MadeOK'
  <1>1. CASE SetMsgs(c)
    <2>1. /\ UNCHANGED <<snap, mSnapshotFormat, jpeg, heaps>>
          /\ snap # "none" /\ "COMPRESSED_IMAGE" \in mMsgEnabled'
               => "COMPRESSED_IMAGE" \in mMsgEnabled
      BY <1>1 DEF SetMsgs, PictureMsgs, IInv, FlagsOK, shotVars, jpegVars
    <2>2. QED BY <2>1 DEF MadeOK, ToEncode, ToShoot
  <1>2. CASE TakeStops(c)
    <2>1. UNCHANGED <<snap, jpeg, heaps>> /\ snap = "none" /\ jpeg = "none"
      BY <1>2 DEF TakeStops, IInv, FlagsOK, EncoderOK, jpegVars
    <2>2. QED BY <2>1 DEF MadeOK, ToEncode, ToShoot
  <1>3. CASE TakeInitFails(c)
    <2>1. /\ UNCHANGED <<snap, jpeg>>
          /\ snap = "none" /\ jpeg = "none"
      BY <1>3 DEF TakeInitFails, IInv, WaitedOK, WaitedForSnap, EncoderOK,
                  shotVars, jpegVars
    <2>2. QED BY <2>1 DEF MadeOK, ToEncode, ToShoot
  <1>4. CASE TakeCreates(c)
    <2>1. /\ snap = "none" /\ jpeg' = "none"
          /\ snap' \in {"none", "born"}
          /\ heaps' = (heaps \ {"jpeg"}) \cup NewHeaps
          /\ UNCHANGED <<mSnapshotFormat, mMsgEnabled>>
      BY <1>4 DEF TakeCreates, IInv, WaitedOK, WaitedForSnap, EncoderOK,
                  shotRest, jpegVars
    <2>2. QED BY <2>1 DEF MadeOK, ToEncode, ToShoot, NewHeaps, Enabled
  <1>5. CASE ReleaseJoins(c) \/ ReleaseClears(c)
    BY <1>5, ReleasedIsEnd DEF MadeOK
  <1>6. QED BY <1>1, <1>2, <1>3, <1>4, <1>5 DEF PictureStep

\* The steps of the snapshot thread: while the picture is to be encoded, only
\* the heap to display comes and goes; the rest goes when nobody needs it.
LEMMA SnapKeepsMade ==
    ASSUME EncoderOK, MadeOK, Live' => Live, SnapThread
    PROVE  MadeOK'
  <1>1. CASE SnapBegin \/ ReceiveRawPicture \/ RawCallback
    BY <1>1 DEF MadeOK, EncoderOK, ToEncode, ToShoot, SnapBegin,
         ReceiveRawPicture, RawCallback, shotFlags, jpegVars, shotOnly,
         shotRest
  <1>2. CASE GetPicture
    <2>1. /\ snap = "get" /\ snap' \in {"mode", "rawCb", "encode"}
          /\ heaps' \in {heaps, heaps \cup {"display"}, heaps \ {"display"}}
          /\ UNCHANGED <<mMsgEnabled, jpeg>>
      BY <1>2 DEF GetPicture, NotifyShutter, jpegVars, shotOnly, shotRest
    <2>2. QED BY <2>1 DEF MadeOK, EncoderOK, ToEncode, ToShoot
  <1>3. CASE Encode
    <2>1. /\ snap = "encode" /\ snap' = "mode" /\ jpeg = "none"
          /\ \/ /\ "COMPRESSED_IMAGE" \in mMsgEnabled
                /\ UNCHANGED heaps
             \/ jpeg' = "none"
      BY <1>3 DEF Encode, EncoderOK, Enabled, jpegVars
    <2>2. QED BY <2>1 DEF MadeOK, ToEncode, ToShoot
  <1>4. CASE ReceiveRawSnapshot \/ SnapClearsMode \/ SnapWaitsForJpeg
             \/ SnapJoins \/ SnapEnds
    <2>1. /\ snap' \in {"mode", "jpegWait", "join", "end", "none"}
          /\ UNCHANGED <<mMsgEnabled, jpeg>>
          /\ jpeg = "none" \/ UNCHANGED heaps
      BY <1>4 DEF EncoderOK, ReceiveRawSnapshot, SnapClearsMode,
           SnapWaitsForJpeg, SnapJoins, SnapEnds, jpegVars, shotOnly, shotRest
    <2>2. QED BY <2>1 DEF MadeOK, ToEncode, ToShoot
  <1>5. QED BY <1>1, <1>2, <1>3, <1>4 DEF SnapThread

LEMMA MadeKept == IInv /\ EncoderOK /\ MadeOK /\ [Next]_vars => MadeOK'
  <1> SUFFICES ASSUME IInv, EncoderOK, MadeOK, [Next]_vars PROVE MadeOK'
    OBVIOUS
  <1>1. Live' => Live BY LiveBefore
  <1>2. ASSUME NEW c \in Callers, PictureStep(c) PROVE MadeOK'
    BY <1>1, <1>2, CallsKeepMade
  <1>3. CASE SnapThread
    BY <1>1, <1>3, SnapKeepsMade
  <1>4. CASE JpegThread
    BY <1>1, <1>4 DEF MadeOK, EncoderOK, ToEncode, ToShoot, JpegThread,
         JpegDelivers, JpegEnds, JpegFails, shotVars, shotOnly, shotRest
  <1>5. CASE ~SnapThread /\ ~JpegThread /\ ~\E c \in Callers : PictureStep(c)
    <2>1. UNCHANGED pictureVars BY <1>5, Untouched
    <2>2. QED BY <1>1, <2>1 DEF MadeOK, ToEncode, ToShoot, pictureVars,
                                jpegVars
  <1>6. QED BY <1>2, <1>3, <1>4, <1>5

\* The shutter is pending from the creation of the thread, so the picture is
\* fetched before the raw one is delivered, and its messages come together.
LEMMA DisplayKept ==
    ASSUME PictureMsgsTogether, IInv, MadeOK, DisplayOK, [Next]_vars
    PROVE  DisplayOK'
  <1>1. Live' => Live BY LiveBefore
  <1>2. ASSUME NEW c \in Callers, SetMsgs(c) PROVE DisplayOK'
    <2>1. PICK g \in MsgGroups : \/ mMsgEnabled' = mMsgEnabled \cup g
                                 \/ mMsgEnabled' = mMsgEnabled \ g
      BY <1>2 DEF SetMsgs
    <2>2. Together(g) BY DEF PictureMsgsTogether
    <2>3. Together(mMsgEnabled) BY DEF DisplayOK
    <2>4. Together(mMsgEnabled') BY <2>1, <2>2, <2>3 DEF Together
    <2>5. QED BY <1>1, <1>2, <2>4 DEF DisplayOK, SetMsgs, shotVars
  <1>3. ASSUME NEW c \in Callers,
               TakeStops(c) \/ TakeInitFails(c) \/ TakeCreates(c)
        PROVE  DisplayOK'
    BY <1>1, <1>3 DEF DisplayOK, IInv, WaitedOK, WaitedForSnap, FlagsOK,
         TakeStops, TakeInitFails, TakeCreates, shotVars, shotRest
  <1>4. ASSUME NEW c \in Callers, ReleaseJoins(c) \/ ReleaseClears(c)
        PROVE  DisplayOK'
    BY <1>4, ReleasedIsEnd DEF DisplayOK, ReleaseJoins, ReleaseClears,
         shotVars, lifeRest
  <1>5. CASE GetPicture
    <2>1. /\ snap = "get" /\ UNCHANGED mMsgEnabled
          /\ snap' \in {"mode", "rawCb", "encode"}
          /\ snap' = "rawCb" => Enabled("RAW_IMAGE") /\ NotifyShutter
      BY <1>5 DEF GetPicture, shotOnly, shotRest
    <2>2. ASSUME Live', snap' = "rawCb" PROVE "display" \in heaps'
      <3>1. /\ "SHUTTER" \in mMsgEnabled
            /\ "COMPRESSED_IMAGE" \in mMsgEnabled
        BY <2>1, <2>2 DEF Enabled, DisplayOK, Together, PictureMsgs
      <3>2. "thumb" \in heaps
        BY <1>1, <2>1, <2>2, <3>1 DEF MadeOK, ToEncode
      <3>3. QED BY <2>1, <2>2, <3>1, <3>2 DEF NotifyShutter, Enabled, DisplayOK
    <2>3. QED BY <2>1, <2>2 DEF DisplayOK
  <1>6. CASE SnapThread /\ ~GetPicture
    BY <1>1, <1>6 DEF DisplayOK, SnapThread, SnapBegin, ReceiveRawPicture,
         RawCallback, Encode, ReceiveRawSnapshot, SnapClearsMode,
         SnapWaitsForJpeg, SnapJoins, SnapEnds, shotOnly, shotRest
  <1>7. CASE JpegThread
    BY <1>1, <1>7 DEF DisplayOK, JpegThread, JpegDelivers, JpegEnds,
         JpegFails, shotVars, shotOnly, shotRest
  <1>8. CASE ~SnapThread /\ ~JpegThread /\ ~\E c \in Callers : PictureStep(c)
    <2>1. UNCHANGED pictureVars BY <1>8, Untouched
    <2>2. QED BY <1>1, <2>1 DEF DisplayOK, pictureVars
  <1>9. QED
    BY <1>2, <1>3, <1>4, <1>5, <1>6, <1>7, <1>8 DEF PictureStep

\* The heaps of the threads, whatever messages the service switches.
LEMMA HeapsInvariance == Spec => []HInv
  <1>1. IInv /\ HInv /\ [Next]_vars => HInv'
    BY FrameHeapKept, EncoderKept, MadeKept DEF HInv
  <1>2. QED BY InitHInv, <1>1, Invariance, PTL DEF Spec

\* No thread finds the heap it works on gone: not the frame thread its
\* preview heap, nor the snapshot thread and the encoder those takePicture
\* made, nor the raw picture's callback the heap to display.  The last holds
\* for a service that switches the messages of a picture together: with
\* CAMERA_MSG_RAW_IMAGE alone, the display heap is never made.
THEOREM HeapsStayInUse ==
    ASSUME PictureMsgsTogether PROVE Spec => []HeapsInUse
  <1>1. Init => DisplayOK
    BY DEF Init, DisplayOK, PictureMsgsTogether
  <1>2. IInv /\ HInv /\ DisplayOK /\ [Next]_vars => DisplayOK'
    BY DisplayKept DEF HInv
  <1>3. HInv /\ DisplayOK => HeapsInUse
    BY DEF HInv, FrameHeapOK, MadeOK, DisplayOK, ToShoot, Live, HeapsInUse
  <1>4. QED
    BY <1>1, <1>2, <1>3, Invariance, HeapsInvariance, PTL DEF Spec
=============================================================================
