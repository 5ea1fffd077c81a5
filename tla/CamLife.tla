------------------------------- MODULE CamLife -------------------------------
(***************************************************************************)
(* The end of one instance and the making of the next: release, the        *)
(* destructor, which runs when the last strong reference is gone, and      *)
(* createInstance, by a service that connects again meanwhile.             *)
(***************************************************************************)
EXTENDS CamState

lifeRest == <<mMsgEnabled, previewVars, focusVars>>

\* release ends a recording frame's wait and stops the preview ...
Release(c) ==
    /\ EnterLocked(c, "release")
    /\ IF mCameraRunning /\ Enabled("VIDEO_FRAME") THEN SignalRecordFrame
       ELSE UNCHANGED <<mReleasedRecordingFrame, frame>>
    /\ CallStop(c, "relJoin")
    /\ UNCHANGED <<fmsgs, mFrameThreadRunning, camframe_exit, owed, shotVars,
                   jpegVars, heaps, lifeVars, lifeRest>>

\* ... waits for the encoder, clears the picture heaps ...
ReleaseJoins(c) ==
    /\ pc[c] = "relJoin" /\ jpeg = "none"
    /\ heaps' = heaps \cap {"rawShot"}
    /\ Goto(c, "relClear")
    /\ UNCHANGED <<ret, calls, frameVars, recordVars, shotVars, jpegVars,
                   lifeVars, lifeRest>>

\* ... lets a snapshot thread that waits for the encoder go, clears the heap
\* of a raw snapshot ...
ReleaseClears(c) ==
    /\ pc[c] = "relClear"
    /\ mJpegThreadRunning' = FALSE
    /\ heaps' = heaps \ {"rawShot"}
    /\ Goto(c, "relClose")
    /\ UNCHANGED <<ret, calls, frameVars, recordVars, shotVars, jpeg,
                   lifeVars, lifeRest>>

\* ... and closes the device; only then is the release announced.  The
\* client lets go of the object.
ReleaseCloses(c) ==
    /\ pc[c] = "relClose"
    /\ obj' = "released" /\ singleton_releasing' = TRUE
    /\ Return(c)
    /\ UNCHANGED <<calls, frameVars, recordVars, shotVars, jpegVars, heaps,
                   late, creator, lifeRest>>

\* Threads in the object hold it by getInstance until they return.
Referenced == \/ obj = "open" \/ \E c \in Callers : pc[c] # "idle"
              \/ \E t \in {frame, snap, af} : t \notin {"none", "born"}
              \/ jpeg = "deliver"
Destroy ==
    /\ obj = "released" /\ ~Referenced
    /\ obj' = "gone" /\ singleton_releasing' = FALSE
    /\ UNCHANGED <<clientVars, frameVars, recordVars, shotVars, jpegVars,
                   heaps, late, creator, lifeRest>>

\* More than SINGLETON_RELEASING_WAIT_TIME since the release, which only
\* createInstance asks for.
TimePasses ==
    /\ singleton_releasing /\ creator = "waiting"
    /\ ~late /\ late' = TRUE
    /\ UNCHANGED <<clientVars, frameVars, recordVars, shotVars, jpegVars,
                   heaps, obj, singleton_releasing, creator, lifeRest>>

createOnly == <<clientVars, frameVars, recordVars, shotVars, jpegVars,
                      heaps, obj, singleton_releasing, late, lifeRest>>

\* createInstance, called while or after the first client lets go.
CreateInstance ==
    /\ creator = "idle"
    /\ obj # "open" \/ CallerAt({"relJoin", "relClear", "relClose"})
    /\ creator' = "waiting"
    /\ UNCHANGED createOnly

CreateInstanceAnswers ==
    /\ creator = "waiting"
    /\ \/ singleton_releasing /\ late /\ creator' = "null"
       \/ /\ ~singleton_releasing
          /\ IF obj # "gone" THEN creator' = "existing"
             ELSE creator' \in {"new", "null"}   \* startCamera may fail
    /\ UNCHANGED createOnly
=============================================================================
