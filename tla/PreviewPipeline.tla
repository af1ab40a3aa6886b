---------------------------- MODULE PreviewPipeline ----------------------------
(***************************************************************************)
(* The life of the preview buffers in the camera HAL (mx6/libcamera2):     *)
(* PreviewStream takes them from its window, the DeviceAdapter queues them *)
(* to the V4L2 driver, the device thread hands filled frames to every      *)
(* listening stream, and the last of their threads to release a frame      *)
(* queues it to the driver again.  A frame's mRefCount says who is left.   *)
(*                                                                         *)
(* Three kinds of threads run here: the request thread, which starts and   *)
(* stops the streams, the device thread, and one StreamThread per stream.  *)
(* CMessageQueue is used as module SyncMailbox specifies it.  The window   *)
(* and the driver are outside the repository and modelled from their use.  *)
(***************************************************************************)
EXTENDS Integers, Sequences, FiniteSets

CONSTANTS
  Buffers,     \* mCameraBuffer[0..mTotalBuffers-1]
  MaxProducer, \* mMaxProducerBuffers: how many the stream takes at first
  Consumers,   \* other streams (recorder, callback, JPEG) that copy preview frames
  Jpeg,        \* the one of them, if any, that makes the video snapshots
  Prompt,      \* TRUE: consumers finish their frames before preview restarts
  Failures,    \* what may fail: "render", "request", "acquire"
  MaxStarts,   \* bound on how often preview is started
  NoBuffer

ASSUME PipelineAssumption ==
  /\ IsFiniteSet(Buffers) /\ IsFiniteSet(Consumers)
  /\ MaxProducer \in 1..(Cardinality(Buffers) - 1)
  /\ NoBuffer \notin Buffers
  /\ Prompt \in BOOLEAN
  /\ MaxStarts \in Nat
  /\ Failures \subseteq {"render", "request", "acquire"}
  /\ Consumers \cap {"preview", "device", "none"} = {}
  /\ Jpeg \notin {"preview", "device", "none"}

Streams == {"preview"} \cup Consumers
Threads == {"device"} \cup Streams

VARIABLES
  mRefCount,       \* CameraFrame::mRefCount
  mBufState,       \* CameraFrame::mBufState
  inDriver,        \* buffers queued to the driver
  inWindow,        \* buffers the preview window owns
  displayed,       \* the one of them on display, which it does not give away
  mPreviewing,     \* DeviceAdapter::mPreviewing
  isStreamOn,      \* mVideoInfo->isStreamOn
  mQueued,         \* DeviceAdapter::mQueued
  mFrameListeners, \* CameraFrameProvider::mFrameListeners
  nSize,           \* dispatchCameraFrame's count of listeners
  next,            \* dispatchCameraFrame's index of the next one
  listener,        \* the listener it has read and calls
  pastEnd,         \* what mFrameListeners still holds behind its last item
  mReceiveFrame,   \* streams with StreamAdapter::mReceiveFrame
  mThreadQueue,    \* frames in each stream's queue
  mStreamState,    \* StreamAdapter::mStreamState
  pc,              \* where each thread is
  frame,           \* the frame it works on
  buf,             \* the frame it is releasing
  cont,            \* where it goes on after CameraFrame::release
  control,         \* where the request thread is with the preview stream
  starts,          \* how often it has started preview
  owed,            \* listeners the frame at hand is still to be handed to
  dropped          \* references of messages thrown away since preview started

bufferVars  == <<mRefCount, mBufState, inDriver, inWindow, displayed>>
deviceVars  == <<mPreviewing, isStreamOn, mQueued>>
loopVars    == <<nSize, next, listener, owed>>
dispatchVars == <<mFrameListeners, pastEnd, loopVars>>
streamVars  == <<mReceiveFrame, mThreadQueue, mStreamState, dropped>>
threadVars  == <<pc, frame, buf, cont>>
controlVars == <<control, starts>>
vars == <<bufferVars, deviceVars, dispatchVars, streamVars, threadVars, controlVars>>

\* registerBuffers has run: every buffer is known, in service, with the window.
Init == /\ mRefCount = [b \in Buffers |-> 0]
        /\ mBufState = [b \in Buffers |-> "IN_SERVICE"]
        /\ inDriver = {}
        /\ inWindow = Buffers
        /\ displayed = NoBuffer
        /\ mPreviewing = FALSE /\ isStreamOn = FALSE
        /\ mQueued = 0
        /\ mFrameListeners = <<>>
        /\ nSize = 0 /\ next = 0
        /\ listener = "none" /\ pastEnd = "none"
        /\ mReceiveFrame = Streams
        /\ mThreadQueue = [s \in Streams |-> <<>>]
        /\ mStreamState = [s \in Streams |-> "INVALID"]
        /\ pc = [t \in Threads |-> "none"]
        /\ frame = [t \in Threads |-> NoBuffer]
        /\ buf = [t \in Threads |-> NoBuffer]
        /\ cont = [t \in Threads |-> "none"]
        /\ control = "off"
        /\ starts = 0
        /\ owed = {}
        /\ dropped = [b \in Buffers |-> 0]

-----------------------------------------------------------------------------
(* CameraFrame and DeviceAdapter::handleFrameRelease, on any thread *)

goto(t, p) == pc' = [pc EXCEPT ![t] = p]

\* Thread t calls release() on b and goes on at p.
calls(t, b, p) == /\ goto(t, "release")
                  /\ buf' = [buf EXCEPT ![t] = b]
                  /\ cont' = [cont EXCEPT ![t] = p]

returns(t) == /\ goto(t, cont[t])
              /\ buf' = [buf EXCEPT ![t] = NoBuffer]
              /\ cont' = [cont EXCEPT ![t] = "none"]

addReference(b) == mRefCount' = [mRefCount EXCEPT ![b] = @ + 1]

\* Mutant: the observer is told of every release, not of the last one.
releaseTellsAlways(t) ==
  /\ pc[t] = "release"
  /\ mRefCount[buf[t]] > 0
  /\ mRefCount' = [mRefCount EXCEPT ![buf[t]] = @ - 1]
  /\ goto(t, "refill")
  /\ UNCHANGED <<mBufState, inDriver, inWindow, displayed, deviceVars,
                 dispatchVars, streamVars, frame, buf, cont, controlVars>>

\* release() asserts mRefCount > 0 and aborts otherwise: no step then.
release(t) ==
  /\ pc[t] = "release"
  /\ mRefCount[buf[t]] > 0
  /\ mRefCount' = [mRefCount EXCEPT ![buf[t]] = @ - 1]
  /\ IF mRefCount[buf[t]] = 1 THEN goto(t, "refill") /\ UNCHANGED <<buf, cont>>
                              ELSE returns(t)
  /\ UNCHANGED <<mBufState, inDriver, inWindow, displayed, deviceVars,
                 dispatchVars, streamVars, frame, controlVars>>

\* handleFrameRelease and fillCameraFrame look at two flags without a lock ...
handleFrameRelease(t) ==
  /\ pc[t] = "refill"
  /\ IF mPreviewing /\ isStreamOn THEN goto(t, "qbuf") /\ UNCHANGED <<buf, cont>>
                                  ELSE returns(t)
  /\ UNCHANGED <<bufferVars, deviceVars, dispatchVars, streamVars, frame,
                 controlVars>>

\* ... and then VIDIOC_QBUF, which refuses a buffer that is queued already,
fillCameraFrame(t) ==
  /\ pc[t] = "qbuf"
  /\ inDriver' = inDriver \cup {buf[t]}
  /\ IF buf[t] \in inDriver THEN returns(t)
                            ELSE goto(t, "inc") /\ UNCHANGED <<buf, cont>>
  /\ UNCHANGED <<mRefCount, mBufState, inWindow, displayed, deviceVars,
                 dispatchVars, streamVars, frame, controlVars>>

\* Mutant: the buffer queued again is not counted.
countQueuedNot(t) ==
  /\ pc[t] = "inc"
  /\ returns(t)
  /\ UNCHANGED <<bufferVars, deviceVars, dispatchVars, streamVars, frame,
                 controlVars>>

\* ... and mQueued++ are two more steps.
countQueued(t) ==
  /\ pc[t] = "inc"
  /\ mQueued' = mQueued + 1
  /\ returns(t)
  /\ UNCHANGED <<bufferVars, mPreviewing, isStreamOn, dispatchVars, streamVars,
                 frame, controlVars>>

releasing(t) == \/ release(t) \/ handleFrameRelease(t)
                \/ fillCameraFrame(t) \/ countQueued(t)

-----------------------------------------------------------------------------
(* The device thread: deviceThread and dispatchCameraFrame *)

\* With nothing queued it sleeps and looks again; it ends when preview does.
deviceLoop ==
  /\ pc["device"] = "check"
  /\ ~mPreviewing \/ mQueued > 0
  /\ goto("device", IF mPreviewing THEN "dqbuf" ELSE "exited")
  /\ UNCHANGED <<bufferVars, deviceVars, dispatchVars, streamVars, frame, buf,
                 cont, controlVars>>

acquireCameraFrame ==
  /\ pc["device"] = "dqbuf"
  /\ \E b \in inDriver :
       /\ inDriver' = inDriver \ {b}
       /\ frame' = [frame EXCEPT !["device"] = b]
  /\ mQueued' = mQueued - 1
  /\ goto("device", "dispatch")
  /\ UNCHANGED <<mRefCount, mBufState, inWindow, displayed, mPreviewing,
                 isStreamOn, dispatchVars, streamVars, buf, cont, controlVars>>

\* VIDIOC_DQBUF fails, as it also does after seconds without any buffer: none
\* comes back once preview stops, one does in time while it runs.
acquireFails ==
  /\ pc["device"] = "dqbuf"
  /\ "acquire" \in Failures \/ (inDriver = {} /\ ~mPreviewing)
  /\ goto("device", "exited")
  /\ UNCHANGED <<bufferVars, deviceVars, dispatchVars, streamVars, frame, buf,
                 cont, controlVars>>

\* Mutant: the frame is handed out without a reference of the device thread.
dispatchUnreferenced ==
  /\ pc["device"] = "dispatch"
  /\ nSize' = Len(mFrameListeners)
  /\ next' = 1
  /\ owed' = {mFrameListeners[i] : i \in DOMAIN mFrameListeners}
  /\ goto("device", "each")
  /\ UNCHANGED <<bufferVars, deviceVars, mFrameListeners, pastEnd, listener,
                 streamVars, frame, buf, cont, controlVars>>

\* "add reference here to avoid frame release too early"
dispatchCameraFrame ==
  /\ pc["device"] = "dispatch"
  /\ addReference(frame["device"])
  /\ nSize' = Len(mFrameListeners)
  /\ next' = 1
  /\ owed' = {mFrameListeners[i] : i \in DOMAIN mFrameListeners}
  /\ goto("device", "each")
  /\ UNCHANGED <<mBufState, inDriver, inWindow, displayed, deviceVars,
                 mFrameListeners, pastEnd, listener, streamVars, frame, buf, cont,
                 controlVars>>

\* Mutant: the size of the vector is read again in every turn.
inLoopAnew == next <= Len(mFrameListeners)

inLoop == next <= nSize

\* mFrameListeners[i] is not locked: behind the end of a vector that lost an
\* item meanwhile is what was there before.
listenerAt(i) == IF i <= Len(mFrameListeners) THEN mFrameListeners[i] ELSE pastEnd

readListener ==
  /\ pc["device"] = "each"
  /\ inLoop
  /\ listener' = listenerAt(next)
  /\ next' = next + 1
  /\ goto("device", "call")
  /\ UNCHANGED <<bufferVars, deviceVars, mFrameListeners, pastEnd, nSize, owed,
                 streamVars, frame, buf, cont, controlVars>>

\* The call is over: the listener has had this frame.
called == /\ pc["device"] = "call"
          /\ listener' = "none"
          /\ owed' = owed \ {listener}
          /\ goto("device", "each")
          /\ UNCHANGED <<mBufState, inDriver, inWindow, displayed, deviceVars,
                         mFrameListeners, pastEnd, nSize, next, mStreamState, frame,
                         buf, cont, controlVars>>

\* Mutant: the frame is queued without a reference of the stream.
handleCameraFrameUncounted ==
  /\ called
  /\ listener \in mReceiveFrame
  /\ mReceiveFrame' = mReceiveFrame \ ({Jpeg} \cap {listener})
  /\ mThreadQueue' = [mThreadQueue EXCEPT ![listener] = Append(@, frame["device"])]
  /\ UNCHANGED <<mRefCount, dropped>>

\* The JPEG stream takes one frame per request.  Nobody reads the queue of a
\* stream that has exited: it is cleared when the stream starts again.
handleCameraFrame ==
  /\ called
  /\ listener \in mReceiveFrame
  /\ addReference(frame["device"])
  /\ mReceiveFrame' = mReceiveFrame \ ({Jpeg} \cap {listener})
  /\ IF pc[listener] = "none"
     THEN /\ dropped' = [dropped EXCEPT ![frame["device"]] = @ + 1]
          /\ UNCHANGED mThreadQueue
     ELSE /\ mThreadQueue' = [mThreadQueue EXCEPT ![listener] = Append(@, frame["device"])]
          /\ UNCHANGED dropped

\* "don't need receive camera frame"
frameNotWanted == /\ called
                  /\ listener \notin mReceiveFrame
                  /\ UNCHANGED <<mRefCount, mReceiveFrame, mThreadQueue, dropped>>

dispatchEnds ==
  /\ pc["device"] = "each"
  /\ ~inLoop
  /\ calls("device", frame["device"], "check")
  /\ frame' = [frame EXCEPT !["device"] = NoBuffer]
  /\ nSize' = 0 /\ next' = 0
  /\ owed' = {}
  /\ pastEnd' = "none"
  /\ UNCHANGED <<bufferVars, deviceVars, mFrameListeners, listener, streamVars,
                 controlVars>>

deviceThread == \/ deviceLoop \/ acquireCameraFrame \/ acquireFails
                \/ dispatchCameraFrame \/ readListener \/ handleCameraFrame
                \/ frameNotWanted \/ dispatchEnds
                \/ releasing("device")

-----------------------------------------------------------------------------
(* Stream threads: StreamAdapter::handleStream and the two processFrame *)

\* A frame of the queue: processed, or only released and given back.
takeFrame(s) ==
  /\ pc[s] = "wait"
  /\ mThreadQueue[s] # <<>>
  /\ mThreadQueue' = [mThreadQueue EXCEPT ![s] = Tail(@)]
  /\ frame' = [frame EXCEPT ![s] = Head(mThreadQueue[s])]
  /\ IF mStreamState[s] = "STARTED"
     THEN goto(s, "process") /\ UNCHANGED <<buf, cont>>
     ELSE calls(s, Head(mThreadQueue[s]), "cancel")
  /\ UNCHANGED <<bufferVars, deviceVars, dispatchVars, mReceiveFrame, mStreamState,
                 dropped, controlVars>>

\* processFrame failed: the frame is released, cancelled, and then reported.
fails(s, what) ==
  /\ what \in Failures
  /\ calls(s, frame[s], "fail")
  /\ UNCHANGED <<bufferVars, deviceVars, dispatchVars, streamVars, frame,
                 controlVars>>

\* Preview gives the frame to its window, which shows it from then on.
renderBuffer ==
  /\ pc["preview"] = "process"
  /\ inWindow' = inWindow \cup {frame["preview"]}
  /\ displayed' = frame["preview"]
  /\ goto("preview", "hold")
  /\ UNCHANGED <<mRefCount, mBufState, inDriver, deviceVars, dispatchVars,
                 streamVars, frame, buf, cont, controlVars>>

\* "the frame held in service"
holdFrame ==
  /\ pc["preview"] = "hold"
  /\ addReference(frame["preview"])
  /\ goto("preview", "request")
  /\ UNCHANGED <<mBufState, inDriver, inWindow, displayed, deviceVars,
                 dispatchVars, streamVars, frame, buf, cont, controlVars>>

\* Mutant: the buffer the window returns is not released from service.
requestBufferOnly ==
  /\ pc["preview"] = "request"
  /\ \E b \in inWindow \ {displayed} : inWindow' = inWindow \ {b}
  /\ goto("preview", "finish")
  /\ UNCHANGED <<mRefCount, mBufState, inDriver, displayed, deviceVars,
                 dispatchVars, streamVars, frame, buf, cont, controlVars>>

\* It takes another buffer from the window, waiting for one, and releases it
\* from service.
requestBuffer ==
  /\ pc["preview"] = "request"
  /\ \E b \in inWindow \ {displayed} : /\ inWindow' = inWindow \ {b}
                                       /\ calls("preview", b, "finish")
  /\ UNCHANGED <<mRefCount, mBufState, inDriver, displayed, deviceVars,
                 dispatchVars, streamVars, frame, controlVars>>

processPreview == \/ renderBuffer \/ holdFrame \/ requestBuffer
                  \/ pc["preview"] = "process" /\ fails("preview", "render")
                  \/ pc["preview"] = "request" /\ fails("preview", "request")

\* A consumer copies the frame into a buffer of its own window.
processCopy(s) ==
  /\ pc[s] = "process"
  /\ \/ goto(s, "finish") /\ UNCHANGED <<bufferVars, deviceVars, dispatchVars,
                                streamVars, frame, buf, cont, controlVars>>
     \/ fails(s, "request")

\* "the frame release from StreamThread"
finishFrame(s) ==
  /\ pc[s] = "finish"
  /\ calls(s, frame[s], "wait")
  /\ frame' = [frame EXCEPT ![s] = NoBuffer]
  /\ UNCHANGED <<bufferVars, deviceVars, dispatchVars, streamVars, controlVars>>

\* Mutant: an error ends the thread, not only the stream.
cancelBufferDying(s) ==
  /\ pc[s] \in {"cancel", "fail"}
  /\ inWindow' = IF s = "preview" THEN inWindow \cup {frame[s]} ELSE inWindow
  /\ frame' = [frame EXCEPT ![s] = NoBuffer]
  /\ mStreamState' = [mStreamState EXCEPT ![s] = "EXITED"]
  /\ goto(s, IF pc[s] = "fail" THEN "exited" ELSE "wait")
  /\ UNCHANGED <<mRefCount, mBufState, inDriver, displayed, deviceVars,
                 dispatchVars, mReceiveFrame, mThreadQueue, dropped, buf, cont,
                 controlVars>>

\* cancelBuffer after release(); a consumer's window does not know the buffer.
\* An error that CAMERA2_MSG_ERROR_DEVICE bounds ends the stream.
cancelBuffer(s) ==
  /\ pc[s] \in {"cancel", "fail"}
  /\ inWindow' = IF s = "preview" THEN inWindow \cup {frame[s]} ELSE inWindow
  /\ frame' = [frame EXCEPT ![s] = NoBuffer]
  /\ \/ UNCHANGED mStreamState
     \/ pc[s] = "fail" /\ mStreamState' = [mStreamState EXCEPT ![s] = "EXITED"]
  /\ goto(s, "wait")
  /\ UNCHANGED <<mRefCount, mBufState, inDriver, displayed, deviceVars,
                 dispatchVars, mReceiveFrame, mThreadQueue, dropped, buf, cont,
                 controlVars>>

streamThread(s) == \/ takeFrame(s) \/ finishFrame(s) \/ cancelBuffer(s)
                   \/ s = "preview" /\ processPreview
                   \/ s # "preview" /\ processCopy(s)
                   \/ releasing(s)

-----------------------------------------------------------------------------
(* The request thread: StreamAdapter::start, stop and release *)

Listening(s) == \E i \in DOMAIN mFrameListeners : mFrameListeners[i] = s

\* enableReceiveFrame; a new StreamThread with an empty queue; the stream
\* becomes a listener.  If it takes the slot of one that left during a dispatch,
\* what is in the slots is not what that dispatch counted.
startThread(s) ==
  /\ pc' = [pc EXCEPT ![s] = "wait"]
  /\ mReceiveFrame' = mReceiveFrame \cup {s}
  /\ mThreadQueue' = [mThreadQueue EXCEPT ![s] = <<>>]
  /\ mStreamState' = [mStreamState EXCEPT ![s] = "STARTED"]
  /\ mFrameListeners' = IF Listening(s) THEN mFrameListeners
                        ELSE Append(mFrameListeners, s)
  /\ owed' = IF pastEnd = "none" THEN owed ELSE {}
  /\ UNCHANGED <<pastEnd, nSize, next, listener, dropped>>

place(s) == CHOOSE i \in DOMAIN mFrameListeners : mFrameListeners[i] = s

\* The items behind s move up; the slot of the last one keeps its value, which
\* matters while a loop over nSize listeners runs.
removeFrameListener(s) ==
  /\ IF Listening(s)
     THEN /\ mFrameListeners' = SubSeq(mFrameListeners, 1, place(s) - 1)
               \o SubSeq(mFrameListeners, place(s) + 1, Len(mFrameListeners))
          /\ pastEnd' = IF nSize = 0 THEN "none" ELSE mFrameListeners[Len(mFrameListeners)]
     ELSE UNCHANGED <<mFrameListeners, pastEnd>>
  /\ owed' = owed \ {s}
  /\ UNCHANGED <<nSize, next, listener>>

\* STREAM_STOP is taken before any frame, when the thread is at its queue.
stopThread(s) ==
  /\ pc[s] = "wait"
  /\ mStreamState' = [mStreamState EXCEPT
                        ![s] = IF @ = "EXITED" THEN "EXITED" ELSE "STOPPED"]
  /\ UNCHANGED <<mReceiveFrame, mThreadQueue, dropped>>

\* Mutant: the thread is neither told to exit nor joined.
exitThreadNot(s) ==
  /\ mThreadQueue' = [mThreadQueue EXCEPT ![s] = <<>>]
  /\ mStreamState' = [mStreamState EXCEPT ![s] = "INVALID"]
  /\ UNCHANGED <<pc, mReceiveFrame, dropped>>

\* Likewise STREAM_EXIT; the thread is joined and Clear() drops its frames,
\* which nobody releases then.
exitThread(s) ==
  /\ pc[s] = "wait"
  /\ pc' = [pc EXCEPT ![s] = "none"]
  /\ mThreadQueue' = [mThreadQueue EXCEPT ![s] = <<>>]
  /\ mStreamState' = [mStreamState EXCEPT ![s] = "INVALID"]
  /\ dropped' = [b \in Buffers |->
       dropped[b] + Cardinality({i \in DOMAIN mThreadQueue[s] : mThreadQueue[s][i] = b})]
  /\ UNCHANGED mReceiveFrame

\* The request thread is inside stop() or release() of a consumer.
Leaving == {s \in Consumers : pc[s] # "none" /\ ~Listening(s)}

\* Consumers are started before or after preview.  A snapshot request starts the
\* JPEG stream, before the recorder if none records yet, with preview running.
startConsumer(s) ==
  /\ Leaving = {}
  /\ control = "running" \/ (control = "off" /\ s # Jpeg)
  /\ pc[s] = "none"
  /\ Listening(Jpeg) => place(Jpeg) = Len(mFrameListeners)
  /\ startThread(s)
  /\ UNCHANGED <<bufferVars, deviceVars, frame, buf, cont, controlVars>>

\* The next snapshot request finds the stream prepared and started.
enableReceiveFrame ==
  /\ Leaving = {}
  /\ control = "running"
  /\ Listening(Jpeg)
  /\ mReceiveFrame' = mReceiveFrame \cup {Jpeg}
  /\ UNCHANGED <<bufferVars, deviceVars, dispatchVars, mThreadQueue, mStreamState,
                 dropped, threadVars, controlVars>>

\* They stop after preview, which stopAllStreams and tryRestartStreams stop
\* first, except that a request for preview stops the JPEG stream while preview
\* runs.  No more than its request's answer, which may be a left-over one
\* (RequestManager), is known to have come by then.
StopTime(s) == control = "off" \/ (control = "running" /\ s = Jpeg)

unlistenConsumer(s) ==
  /\ Leaving = {}
  /\ StopTime(s)
  /\ Listening(s)
  /\ removeFrameListener(s)
  /\ UNCHANGED <<bufferVars, deviceVars, streamVars, threadVars, controlVars>>

stopConsumer(s) ==
  /\ s \in Leaving
  /\ mStreamState[s] \in {"STARTED", "EXITED"}
  /\ stopThread(s)
  /\ UNCHANGED <<bufferVars, deviceVars, dispatchVars, threadVars, controlVars>>

releaseConsumer(s) ==
  /\ s \in Leaving
  /\ mStreamState[s] # "STARTED"
  /\ exitThread(s)
  /\ UNCHANGED <<bufferVars, deviceVars, dispatchVars, frame, buf, cont, controlVars>>

consumer(s) == \/ startConsumer(s) \/ unlistenConsumer(s)
               \/ stopConsumer(s) \/ releaseConsumer(s)
               \/ s = Jpeg /\ enableReceiveFrame

-----------------------------------------------------------------------------
(* The request thread: PreviewStream::configure and start *)

\* No consumer still has a frame of the last time preview ran.
ConsumersIdle == \A s \in Consumers : pc[s] \in {"none", "wait"} /\ mThreadQueue[s] = <<>>

\* allocateBuffers forgets all references and takes buffers from the window,
configure ==
  /\ control = "off"
  /\ starts < MaxStarts
  /\ Leaving = {} /\ ~Listening(Jpeg)
  /\ Prompt => ConsumersIdle
  /\ \E free \in SUBSET (inWindow \ {displayed}) :
       /\ Cardinality(free) = MaxProducer
       /\ inWindow' = inWindow \ free
       /\ mBufState' = [b \in Buffers |-> IF b \in free THEN "FREE" ELSE mBufState[b]]
  /\ mRefCount' = [b \in Buffers |-> 0]
  /\ dropped' = [b \in Buffers |-> 0]
  /\ starts' = starts + 1
  /\ control' = "service"
  /\ UNCHANGED <<inDriver, displayed, deviceVars, dispatchVars, mReceiveFrame,
                 mThreadQueue, mStreamState, threadVars>>

\* ... holds the others in service, and has the device request its buffers.
holdInService ==
  /\ control = "service"
  /\ mRefCount' = [b \in Buffers |-> IF mBufState[b] # "FREE" /\ mRefCount[b] = 0
                                     THEN 1 ELSE mRefCount[b]]
  /\ mBufState' = [b \in Buffers |-> IF mBufState[b] # "FREE" THEN "IN_SERVICE"
                                     ELSE "FREE"]
  /\ inDriver' = {}
  /\ control' = "start"
  /\ UNCHANGED <<inWindow, displayed, deviceVars, dispatchVars, streamVars,
                 threadVars, starts>>

startStream ==
  /\ control = "start"
  /\ startThread("preview")
  /\ control' = "flag"
  /\ UNCHANGED <<bufferVars, deviceVars, frame, buf, cont, starts>>

startPreview ==
  /\ control = "flag"
  /\ mPreviewing' = TRUE
  /\ control' = "fill"
  /\ UNCHANGED <<bufferVars, isStreamOn, mQueued, dispatchVars, streamVars,
                 threadVars, starts>>

\* startDeviceLocked queues the free buffers, switches the stream on,
fillDevice ==
  LET free == {b \in Buffers : mBufState[b] = "FREE"} IN
  /\ control = "fill"
  /\ inDriver' = inDriver \cup free
  /\ mBufState' = [b \in Buffers |-> IF b \in free THEN "IN_DRIVER" ELSE mBufState[b]]
  /\ mQueued' = mQueued + Cardinality(free)
  /\ control' = "on"
  /\ UNCHANGED <<mRefCount, inWindow, displayed, mPreviewing, isStreamOn,
                 dispatchVars, streamVars, threadVars, starts>>

\* ... and creates the device thread.
streamOn ==
  /\ control = "on"
  /\ isStreamOn' = TRUE
  /\ goto("device", "check")
  /\ control' = "running"
  /\ UNCHANGED <<bufferVars, mPreviewing, mQueued, dispatchVars, streamVars,
                 frame, buf, cont, starts>>

-----------------------------------------------------------------------------
(* The request thread: PreviewStream::stop and release *)

stopPreview ==
  /\ control = "running"
  /\ Leaving = {}
  /\ mPreviewing' = FALSE
  /\ control' = "join"
  /\ UNCHANGED <<bufferVars, isStreamOn, mQueued, dispatchVars, streamVars,
                 threadVars, starts>>

\* stopDeviceLocked joins the device thread before VIDIOC_STREAMOFF ...
joinDevice ==
  /\ control = "join"
  /\ pc["device"] = "exited"
  /\ goto("device", "none")
  /\ control' = "streamoff"
  /\ UNCHANGED <<bufferVars, deviceVars, dispatchVars, streamVars, frame, buf,
                 cont, starts>>

\* ... which returns every buffer of the driver;
streamOff ==
  /\ control = "streamoff"
  /\ inDriver' = {}
  /\ control' = "clear"
  /\ UNCHANGED <<mRefCount, mBufState, inWindow, displayed, deviceVars,
                 dispatchVars, streamVars, threadVars, starts>>

\* other threads may still be refilling when the flag and the count are reset.
clearDevice ==
  /\ control = "clear"
  /\ isStreamOn' = FALSE
  /\ control' = "zero"
  /\ UNCHANGED <<bufferVars, mPreviewing, mQueued, dispatchVars, streamVars,
                 threadVars, starts>>

zeroQueued ==
  /\ control = "zero"
  /\ mQueued' = 0
  /\ control' = "unlisten"
  /\ UNCHANGED <<bufferVars, mPreviewing, isStreamOn, dispatchVars, streamVars,
                 threadVars, starts>>

unlisten ==
  /\ control = "unlisten"
  /\ removeFrameListener("preview")
  /\ control' = "stop"
  /\ UNCHANGED <<bufferVars, deviceVars, streamVars, threadVars, starts>>

stopStream ==
  /\ control = "stop"
  /\ stopThread("preview")
  /\ control' = "exit"
  /\ UNCHANGED <<bufferVars, deviceVars, dispatchVars, threadVars, starts>>

exitStream ==
  /\ control = "exit"
  /\ exitThread("preview")
  /\ control' = "free"
  /\ UNCHANGED <<bufferVars, deviceVars, dispatchVars, frame, buf, cont, starts>>

\* cancel_buffer of every buffer, whoever has it.
freeBuffers ==
  /\ control = "free"
  /\ inWindow' = Buffers
  /\ control' = "off"
  /\ UNCHANGED <<mRefCount, mBufState, inDriver, displayed, deviceVars,
                 dispatchVars, streamVars, threadVars, starts>>

startSteps == holdInService \/ startStream \/ startPreview \/ fillDevice \/ streamOn
stopSteps == \/ joinDevice \/ streamOff \/ clearDevice \/ zeroQueued \/ unlisten
             \/ stopStream \/ exitStream \/ freeBuffers

-----------------------------------------------------------------------------

Next == \/ deviceThread
        \/ \E s \in Streams : streamThread(s)
        \/ \E s \in Consumers : consumer(s)
        \/ configure \/ startSteps
        \/ stopPreview \/ stopSteps

Spec == Init /\ [][Next]_vars

\* Threads run, the sensor fills what it is given, the window's composer takes
\* what is queued; when streams start and stop is up to the framework.
FairSpec == /\ Spec
            /\ WF_vars(deviceThread)
            /\ \A s \in Streams : WF_vars(streamThread(s))
            /\ WF_vars(startSteps) /\ WF_vars(stopSteps)

-----------------------------------------------------------------------------
(* Properties *)

Where == {"none", "check", "dqbuf", "dispatch", "each", "call", "exited", "wait", "process",
          "hold", "request", "finish", "cancel", "fail", "release", "refill", "qbuf", "inc"}

TypeOK ==
  /\ mRefCount \in [Buffers -> Nat]
  /\ mBufState \in [Buffers -> {"FREE", "IN_DRIVER", "IN_SERVICE"}]
  /\ inDriver \subseteq Buffers /\ inWindow \subseteq Buffers
  /\ displayed \in Buffers \cup {NoBuffer}
  /\ {mPreviewing, isStreamOn} \subseteq BOOLEAN
  /\ mQueued \in Int
  /\ mFrameListeners \in Seq(Streams)
  /\ nSize \in Nat /\ next \in Nat
  /\ {listener, pastEnd} \subseteq Streams \cup {"none"}
  /\ mReceiveFrame \subseteq Streams
  /\ owed \subseteq Streams
  /\ dropped \in [Buffers -> Nat]
  /\ mThreadQueue \in [Streams -> Seq(Buffers)]
  /\ mStreamState \in [Streams -> {"INVALID", "STARTED", "STOPPED", "EXITED"}]
  /\ pc \in [Threads -> Where]
  /\ frame \in [Threads -> Buffers \cup {NoBuffer}]
  /\ buf \in [Threads -> Buffers \cup {NoBuffer}]
  /\ cont \in [Threads -> {"none", "check", "wait", "finish", "cancel", "fail"}]

\* Who needs frame b: the window it is in service with, threads that work on it
\* and do not only give it back, threads about to release it, and messages.
inService(b) == b \in inWindow /\ ~(pc["preview"] = "hold" /\ frame["preview"] = b)
Returning    == {"cancel", "fail"}
workers(b)   == {t \in Threads : /\ frame[t] = b
                                 /\ pc[t] \notin Returning \cup {"dispatch"}
                                 /\ cont[t] \notin Returning}
releasers(b) == {t \in Threads : pc[t] = "release" /\ buf[t] = b}
messagesTo(s, b) == {s} \X {i \in DOMAIN mThreadQueue[s] : mThreadQueue[s][i] = b}
messages(b)  == UNION {messagesTo(s, b) : s \in Streams}
users(b) == Cardinality(workers(b)) + Cardinality(releasers(b)) + Cardinality(messages(b))
needs(b) == users(b) + (IF inService(b) THEN 1 ELSE 0)

\* Buffers are in service from holdInService until the stream's thread is stopped.
Serving == {"start", "flag", "fill", "on", "running", "join", "streamoff", "clear",
            "zero", "unlisten", "stop"}

\* While buffers are in service every reference has exactly one owner: a count
\* too low hands a frame to the driver that is still shown or copied, one too
\* high never hands it back (CameraFrame::addReference and release).
RefExact == control \in Serving =>
              \A b \in Buffers : mRefCount[b] = needs(b) + dropped[b]

\* The driver captures only into buffers nobody else has: not the window, no
\* stream thread, no message (fillCameraFrame, line 413 of DeviceAdapter.cpp).
DriverOwnsAlone == mPreviewing /\ isStreamOn =>
                     \A b \in inDriver : b \notin inWindow /\ needs(b) = 0

\* release() is never called on a frame without references:
\* "fAssert(mRefCount > 0)" (line 176 of CameraUtil.cpp).
AssertHolds == \A t \in Threads : pc[t] = "release" => mRefCount[buf[t]] > 0

\* Every stream that listens throughout a dispatch gets the frame, although
\* dispatchCameraFrame goes by indices over a vector without a lock from which
\* the JPEG stream may leave meanwhile (lines 324 to 332 of CameraUtil.cpp),
\* unless a stream also comes before the frame has been handed out.
NobodySkipped == pc["device"] = "each" /\ ~inLoop => owed = {}

\* While preview runs the driver's buffers are all counted or about to be: the
\* device thread never sleeps on "no buffer in v4l2" with one there for good.
NeverUndercounts ==
  isStreamOn /\ mPreviewing =>
    mQueued + Cardinality({t \in Threads : pc[t] = "inc"}) >= Cardinality(inDriver)

\* The device thread dequeues only if the driver has a buffer, else it logs "no
\* buffer in v4l2, continue" (line 639 of DeviceAdapter.cpp).
DequeueFindsBuffer == pc["device"] = "dqbuf" => inDriver # {}

\* stop() and release() of the preview stream return whatever its threads do and
\* whatever fails, unless the assertion of release() has ended the program: that
\* a frame on which a call failed is in the window without a reference may do so.
StopReturns == control = "join" ~> control = "off" \/ ~AssertHolds

\* A failure has ended the device thread, the preview stream or the program, or
\* given a buffer back, or a JPEG stream was stopped with the frame in its queue.
Impaired == \/ ~AssertHolds
            \/ pc["device"] = "exited" \/ mStreamState["preview"] = "EXITED"
            \/ Cardinality(Buffers \ inWindow) < MaxProducer
            \/ \E b \in Buffers : dropped[b] > 0

\* While preview runs, frames keep reaching the window unless something has
\* failed: no buffer is lost on its way from the window to the driver and back.
FramesFlow == []<>(pc["preview"] = "hold" \/ ~mPreviewing \/ Impaired)

===============================================================================
