------------------------------ MODULE CamFocus ------------------------------
(***************************************************************************)
(* Autofocus: autoFocus creates a detached thread that holds               *)
(* mAutoFocusThreadLock, and mAfLock and mCameraRunningLock while the      *)
(* driver focuses; cancelAutoFocusInternal finds out by a tryLock of       *)
(* mAfLock whether there is anything to cancel.  The sensor has autofocus. *)
(* The notification after the focus, when the flag is down and the next    *)
(* thread may have been made, changes no state and is left out.            *)
(***************************************************************************)
EXTENDS CamState

focusRest == <<mMsgEnabled, previewVars, frameVars, recordVars, shotVars,
                jpegVars, heaps, lifeVars>>

AutoFocus(c) ==
    /\ EnterLocked(c, "autoFocus")
    /\ Goto(c, "afWait")
    /\ UNCHANGED <<ret, focusVars, focusRest>>

\* mAutoFocusThreadLock, and with it mLock, is waited for as long as the
\* thread focuses; then, if that was not the case, prepare and create.
AutoFocusStarts(c) ==
    /\ pc[c] = "afWait" /\ ~MAutoFocusThreadLockHeld
    /\ \/ UNCHANGED focusVars       \* running already, or something failed
       \/ /\ ~mAutoFocusThreadRunning /\ obj = "open"
          /\ mAutoFocusThreadRunning' = TRUE
          /\ af' = "born" /\ afCancelled' = FALSE
    /\ Return(c)
    /\ UNCHANGED <<calls, focusRest>>

CancelAutoFocus(c) ==
    /\ EnterLocked(c, "cancelAutoFocus")
    /\ mCameraRunning /\ Enabled("FOCUS")
    /\ Goto(c, "cancelAf") /\ ret' = [ret EXCEPT ![c] = "none"]
    /\ UNCHANGED <<focusVars, focusRest>>

\* cancelAutoFocusInternal tries mAfLock: it is busy, the driver is told ...
AfterCancel(c) == IF ret[c] = "none" THEN "idle" ELSE "stopNative"

CancelBusy(c) ==
    /\ pc[c] = "cancelAf" /\ MAfLockHeld
    /\ afCancelled' \in {afCancelled} \cup DriverOk
    /\ Goto(c, AfterCancel(c))
    /\ UNCHANGED <<ret, calls, af, mAutoFocusThreadRunning, focusRest>>

\* ... or it is free, and is held for a moment, in which a focus that starts
\* is refused.
CancelTakesLock(c) ==
    /\ pc[c] = "cancelAf" /\ ~MAfLockHeld
    /\ Goto(c, "cancelHeld")
    /\ UNCHANGED <<ret, calls, focusVars, focusRest>>

CancelGivesLock(c) ==
    /\ pc[c] = "cancelHeld"
    /\ Goto(c, AfterCancel(c))
    /\ UNCHANGED <<ret, calls, focusVars, focusRest>>

-----------------------------------------------------------------------------
(* runAutoFocus *)

focusOnly == <<clientVars, focusRest>>

\* The mode is infinity, or a file cannot be opened: nothing to do.
FocusSkipped ==
    /\ af = "born"
    /\ af' = "none" /\ mAutoFocusThreadRunning' = FALSE
    /\ UNCHANGED <<afCancelled, focusOnly>>

\* mAfLock is tried.
FocusTries ==
    /\ af = "born" /\ obj # "gone"
    /\ af' = IF MAfLockHeld THEN "refused" ELSE "tried"
    /\ UNCHANGED <<afCancelled, mAutoFocusThreadRunning, focusOnly>>

\* With it, and with mCameraRunningLock, the driver is asked to focus if the
\* preview is running.
FocusBegins ==
    /\ af = "tried"
    /\ af' = IF mCameraRunning THEN "focusing" ELSE "refused"
    /\ UNCHANGED <<afCancelled, mAutoFocusThreadRunning, focusOnly>>

\* The driver is done, or was cancelled.
FocusEnds ==
    /\ af = "focusing"
    /\ af' = "closing"
    /\ UNCHANGED <<afCancelled, mAutoFocusThreadRunning, focusOnly>>

FocusDone ==
    /\ af \in {"closing", "refused"}
    /\ af' = "none" /\ mAutoFocusThreadRunning' = FALSE
    /\ afCancelled' = FALSE
    /\ UNCHANGED focusOnly
=============================================================================
