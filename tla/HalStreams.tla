------------------------------ MODULE HalStreams ------------------------------
(***************************************************************************)
(* The streams of the camera HAL (mx6/libcamera2) as its request thread    *)
(* drives them: which are prepared and started, the mode and the thread    *)
(* of the DeviceAdapter, and the StreamThread of the JPEG stream, the only *)
(* one whose answer a request waits for without a time limit.              *)
(*                                                                         *)
(* The other streams answer within 500 ms or are not waited for            *)
(* (StreamAdapter::applyRequest), so their threads are left out here; what *)
(* the preview stream does with its buffers is module PreviewPipeline.     *)
(***************************************************************************)
EXTENDS Naturals, FiniteSets

CONSTANT MaxTokens  \* bound on the tokens idle timeouts may leave in mRespondSem

ASSUME StreamsAssumption == MaxTokens \in Nat \ {0}

StreamIds == {"PREVIEW", "RECORD", "PRVCB", "JPEG"}

VARIABLES
  mPrepared,      \* streams with StreamAdapter::mPrepared
  mStarted,       \* streams with StreamAdapter::mStarted; they are listeners too
  mPreviewing,    \* DeviceAdapter::mPreviewing
  mImageCapture,  \* DeviceAdapter::mImageCapture
  mDeviceThread,  \* DeviceAdapter::mDeviceThread: "null", "running" or "exited"
  mVideoSnapShot, \* CaptureStream::mVideoSnapShot
  mReceiveFrame,  \* the JPEG stream's mReceiveFrame
  mStreamState,   \* the JPEG stream's mStreamState
  mRespondSem,    \* the JPEG stream's mRespondSem
  jpegFrames,     \* STREAM_FRAME messages in the JPEG stream's queue
  jpegThread      \* "idle", "busy" in processFrame, "report" before handleError

streamVars == <<mPrepared, mStarted, mPreviewing, mImageCapture, mDeviceThread,
                mVideoSnapShot, mReceiveFrame, mStreamState, mRespondSem,
                jpegFrames, jpegThread>>
deviceVars == <<mPreviewing, mImageCapture, mDeviceThread>>
setupVars  == <<mPrepared, mStarted, mVideoSnapShot>>

StreamsInit == /\ mPrepared = {} /\ mStarted = {}
               /\ mPreviewing = FALSE /\ mImageCapture = FALSE
               /\ mDeviceThread = "null"
               /\ mVideoSnapShot = FALSE
               /\ mReceiveFrame = TRUE
               /\ mStreamState = "INVALID"
               /\ mRespondSem = 0
               /\ jpegFrames = 0
               /\ jpegThread = "idle"

-----------------------------------------------------------------------------
(* Called by the request thread *)

\* allocateStream makes a new object: a CaptureStream of its own semaphore.
newStream(id) ==
  /\ IF id = "JPEG"
     THEN mVideoSnapShot' = FALSE /\ mReceiveFrame' = TRUE /\ mRespondSem' = 0
     ELSE UNCHANGED <<mVideoSnapShot, mReceiveFrame, mRespondSem>>
  /\ UNCHANGED <<mPrepared, mStarted, deviceVars, mStreamState, jpegFrames, jpegThread>>

\* The snapshot flag the JPEG stream has once configured, if it is not yet.
snapAfter(id, videoSnapshot) ==
  IF id = "JPEG" /\ id \notin mPrepared THEN videoSnapshot ELSE mVideoSnapShot

\* PreviewStream and CaptureStream run the device, the latter for a still.
Drives(id, snap) == id = "PREVIEW" \/ (id = "JPEG" /\ ~snap)

Running(id) == IF id = "PREVIEW" THEN mPreviewing ELSE mImageCapture

\* configure() unless prepared, enableReceiveFrame(), start() unless started.
\* "ok": the device starts, which it refuses if it is already in that mode.
bringUp(id, videoSnapshot, ok) ==
  LET snap == snapAfter(id, videoSnapshot)
      runs == id \notin mStarted /\ Drives(id, snap)
  IN  /\ ok => ~(runs /\ Running(id))
      /\ ok \/ runs
      /\ mPrepared' = mPrepared \cup {id}
      /\ mStarted' = mStarted \cup {id}
      /\ mVideoSnapShot' = snap
      /\ mReceiveFrame' = (mReceiveFrame \/ id = "JPEG")
      /\ mStreamState' = IF id = "JPEG" /\ id \notin mStarted THEN "STARTED"
                         ELSE mStreamState
      /\ mPreviewing' = (mPreviewing \/ (runs /\ id = "PREVIEW"))
      /\ mImageCapture' = (mImageCapture \/ (runs /\ id = "JPEG"))
      /\ mDeviceThread' = IF runs /\ ok THEN "running" ELSE mDeviceThread
      /\ UNCHANGED <<mRespondSem, jpegFrames, jpegThread>>

\* stop() and release() of each stream of S.  The sync messages wait until the
\* JPEG thread is back at its queue; the device thread is joined, and joining
\* a null one would crash: the model has no such step.
stopStreams(S) ==
  LET noPreview == "PREVIEW" \in S \cap mStarted /\ mPreviewing
      noCapture == "JPEG" \in S \cap mStarted /\ ~mVideoSnapShot /\ mImageCapture
  IN  /\ "JPEG" \in S \cap mPrepared => jpegThread = "idle"
      /\ noPreview \/ noCapture => mDeviceThread # "null"
      /\ mPrepared' = mPrepared \ S
      /\ mStarted' = mStarted \ S
      /\ mPreviewing' = (mPreviewing /\ ~noPreview)
      /\ mImageCapture' = (mImageCapture /\ ~noCapture)
      /\ mDeviceThread' = IF noPreview \/ noCapture THEN "null" ELSE mDeviceThread
      /\ IF "JPEG" \in S \cap mPrepared
         THEN jpegFrames' = 0 /\ mStreamState' = "INVALID"
         ELSE UNCHANGED <<jpegFrames, mStreamState>>
      /\ UNCHANGED <<mVideoSnapShot, mReceiveFrame, mRespondSem, jpegThread>>

\* Mutant: the wait for the JPEG stream is timed as well.
applyRequestTimed(id) ==
  UNCHANGED <<setupVars, deviceVars, mReceiveFrame, mStreamState, mRespondSem,
              jpegFrames, jpegThread>>

\* StreamAdapter::applyRequest is timed and always returns; CaptureStream's
\* waits for mRespondSem.
applyRequest(id) ==
  /\ id = "JPEG" => mRespondSem > 0
  /\ mRespondSem' = IF id = "JPEG" THEN mRespondSem - 1 ELSE mRespondSem
  /\ UNCHANGED <<setupVars, deviceVars, mReceiveFrame, mStreamState,
                 jpegFrames, jpegThread>>

-----------------------------------------------------------------------------
(* The device thread *)

\* Mutant: the JPEG stream goes on taking frames.
deliverFrameOnAndOn ==
  /\ mDeviceThread = "running"
  /\ mPreviewing \/ mImageCapture
  /\ jpegFrames < 2
  /\ jpegFrames' = IF "JPEG" \in mStarted THEN jpegFrames + 1 ELSE jpegFrames
  /\ mDeviceThread' = IF mImageCapture \/ ~mPreviewing THEN "exited" ELSE "running"
  /\ UNCHANGED <<setupVars, mPreviewing, mImageCapture, mReceiveFrame,
                 mStreamState, mRespondSem, jpegThread>>

\* One frame for every listener; the JPEG stream takes one per request.  In
\* image capture the thread ends with its first frame.
deliverFrame ==
  LET toJpeg == "JPEG" \in mStarted /\ mReceiveFrame
  IN  /\ mDeviceThread = "running"
      /\ mPreviewing \/ mImageCapture
      /\ jpegFrames' = IF toJpeg THEN jpegFrames + 1 ELSE jpegFrames
      /\ mReceiveFrame' = (mReceiveFrame /\ ~toJpeg)
      /\ mDeviceThread' = IF mImageCapture \/ ~mPreviewing THEN "exited" ELSE "running"
      /\ UNCHANGED <<setupVars, mPreviewing, mImageCapture, mStreamState,
                     mRespondSem, jpegThread>>

\* Mutant: the thread that ends clears mDeviceThread, which its joiner uses.
acquireFailsClearing ==
  /\ mDeviceThread = "running"
  /\ mDeviceThread' = "null"
  /\ UNCHANGED <<setupVars, mPreviewing, mImageCapture, mReceiveFrame,
                 mStreamState, mRespondSem, jpegFrames, jpegThread>>

\* VIDIOC_DQBUF fails and the thread ends; its caller reports the error.
acquireFails ==
  /\ mDeviceThread = "running"
  /\ mDeviceThread' = "exited"
  /\ UNCHANGED <<setupVars, mPreviewing, mImageCapture, mReceiveFrame,
                 mStreamState, mRespondSem, jpegFrames, jpegThread>>

-----------------------------------------------------------------------------
(* The JPEG stream's thread: handleStream and CaptureStream::processFrame *)

takeFrame ==
  /\ jpegThread = "idle"
  /\ jpegFrames > 0
  /\ jpegFrames' = jpegFrames - 1
  /\ jpegThread' = IF mStreamState = "STARTED" THEN "busy" ELSE "idle"
  /\ UNCHANGED <<setupVars, deviceVars, mReceiveFrame, mStreamState, mRespondSem>>

\* processFrame posts mRespondSem whether the picture was made or not.
finishFrame(ok) ==
  /\ jpegThread = "busy"
  /\ mRespondSem' = mRespondSem + 1
  /\ jpegThread' = IF ok THEN "idle" ELSE "report"
  /\ UNCHANGED <<setupVars, deviceVars, mReceiveFrame, mStreamState, jpegFrames>>

\* After handleError, which the caller of this operator adds.
reportFailure(fatal) ==
  /\ jpegThread = "report"
  /\ jpegThread' = "idle"
  /\ mStreamState' = IF fatal THEN "EXITED" ELSE mStreamState
  /\ UNCHANGED <<setupVars, deviceVars, mReceiveFrame, mRespondSem, jpegFrames>>

\* Mutant: a started stream that waits in vain does not answer.
idleTimeoutSilent ==
  /\ jpegThread = "idle"
  /\ jpegFrames = 0
  /\ mStreamState = "STARTED"
  /\ UNCHANGED streamVars

\* A frame is on its way: the sensor needs less than the five seconds.
FrameDue == mDeviceThread = "running" /\ mReceiveFrame

\* waitMessage returns NULL: a started stream answers a request nobody made.
idleTimeout ==
  /\ jpegThread = "idle"
  /\ jpegFrames = 0
  /\ mStreamState = "STARTED"
  /\ ~FrameDue
  /\ mRespondSem < MaxTokens
  /\ mRespondSem' = mRespondSem + 1
  /\ UNCHANGED <<setupVars, deviceVars, mReceiveFrame, mStreamState,
                 jpegFrames, jpegThread>>

-----------------------------------------------------------------------------

StreamsTypeOK ==
  /\ mPrepared \subseteq StreamIds
  /\ mStarted \subseteq mPrepared
  /\ {mPreviewing, mImageCapture, mVideoSnapShot, mReceiveFrame} \subseteq BOOLEAN
  /\ mDeviceThread \in {"null", "running", "exited"}
  /\ mStreamState \in {"INVALID", "STARTED", "EXITED"}
  /\ mRespondSem \in Nat
  /\ jpegFrames \in Nat
  /\ jpegThread \in {"idle", "busy", "report"}

===============================================================================
