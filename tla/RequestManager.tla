---------------------------- MODULE RequestManager ----------------------------
(***************************************************************************)
(* RequestManager (mx6/libcamera2/RequestManager.cpp): requests come from  *)
(* the framework's queue, a RequestHandleThread per burst takes them one   *)
(* by one and drives the streams of HalStreams.                            *)
(*                                                                         *)
(* The framework is not part of the repository.  It is modelled from the   *)
(* calls the HAL makes and receives: a queue whose dequeue returns NULL    *)
(* when empty and which then owes the HAL one notification, and callers    *)
(* that allocate and release streams only when get_in_progress_count is 0. *)
(***************************************************************************)
EXTENDS HalStreams, Sequences

CONSTANTS
  Callers,      \* threads of the framework
  Threads,      \* identities of RequestHandleThreads
  Kinds,        \* kinds of request the framework submits
  Follows,      \* pairs of kinds that may be submitted one after the other
  FailureSets,  \* which FailureKinds may happen together in one execution
  MaxRequests   \* bound on the number of requests submitted

FailureKinds == {"setCurrentRequest", "metadata", "configure", "start",
                 "device", "process"}

\* Type and output streams of each kind of request.
Menu == [preview  |-> [type |-> "PREVIEW", streams |-> {"PREVIEW"}],
         callback |-> [type |-> "PREVIEW", streams |-> {"PREVIEW", "PRVCB"}],
         record   |-> [type |-> "RECORD",  streams |-> {"PREVIEW", "RECORD"}],
         still    |-> [type |-> "CAPTURE", streams |-> {"PREVIEW", "JPEG"}],
         snapshot |-> [type |-> "CAPTURE", streams |-> {"PREVIEW", "RECORD", "JPEG"}]]

ASSUME RequestAssumption == /\ Kinds \subseteq DOMAIN Menu
                            /\ Follows \subseteq (Kinds \cup {"none"}) \X Kinds
                            /\ FailureSets \subseteq SUBSET FailureKinds
                            /\ MaxRequests \in Nat
                            /\ Callers \cap Threads = {}

VARIABLES
  mThreadExitSem,    \* RequestManager::mThreadExitSem
  mPendingRequests,  \* RequestManager::mPendingRequests, a uint8_t
  mRequestThread,    \* RequestManager::mRequestThread is not NULL
  mWorkInProcess,    \* RequestManager::mWorkInProcess
  mStreamAdapter,    \* streams whose mStreamAdapter[id] is not NULL
  pc,                \* where each RequestHandleThread is
  request,           \* the request each thread handles
  todo,              \* streams its loop over the request has left
  caller,            \* where each framework thread is in dispatchRequest
  queue,             \* the framework's request queue
  signalConsumer,    \* the framework owes a notification when it enqueues
  last,              \* the kind of the last request submitted
  submitted,         \* the number of requests submitted
  held,              \* requests dequeued and not freed
  failures,          \* what may fail in this execution
  answered,          \* the JPEG stream processed a frame since setCurrentRequest
  idled              \* it has answered unasked, after five seconds, since allocated

managerVars   == <<mThreadExitSem, mPendingRequests, mRequestThread>>
frameworkVars == <<caller, queue, signalConsumer, last, submitted>>
vars == <<streamVars, managerVars, mWorkInProcess, mStreamAdapter, pc, request,
          todo, frameworkVars, held, answered, idled, failures>>

Phases == {"dead", "created", "loop", "dequeue", "restart", "start", "respond",
           "free", "stop", "quit", "post"}

Init == /\ StreamsInit
        /\ mThreadExitSem = 1
        /\ mPendingRequests = 0
        /\ mRequestThread = FALSE
        /\ mWorkInProcess = TRUE
        /\ mStreamAdapter = {}
        /\ pc = [t \in Threads |-> "dead"]
        /\ request = [t \in Threads |-> "none"]
        /\ todo = [t \in Threads |-> {}]
        /\ caller = [f \in Callers |-> "idle"]
        /\ queue = <<>>
        /\ signalConsumer = TRUE
        /\ last = "none"
        /\ submitted = 0
        /\ held = 0
        /\ answered = FALSE
        /\ idled = FALSE
        /\ failures \in FailureSets

-----------------------------------------------------------------------------
(* The framework *)

\* A request is queued; after an empty-handed dequeue the thread that queues
\* it also calls notify_request_queue_not_empty.
enqueue(f, k) ==
  /\ caller[f] = "idle"
  /\ submitted < MaxRequests
  /\ <<last, k>> \in Follows
  /\ Menu[k].streams \subseteq mStreamAdapter
  /\ queue' = Append(queue, k)
  /\ last' = k
  /\ submitted' = submitted + 1
  /\ signalConsumer' = FALSE
  /\ caller' = IF signalConsumer THEN [caller EXCEPT ![f] = "notify"] ELSE caller
  /\ UNCHANGED <<streamVars, managerVars, mWorkInProcess, mStreamAdapter, pc,
                 request, todo, held, answered, idled, failures>>

\* What the framework checks before it changes the set of streams.
Drained == /\ mPendingRequests = 0
           /\ queue = <<>>
           /\ \A f \in Callers : caller[f] = "idle"

\* The stream a format selects: the second opaque stream is the recorder's.
streamFor(format) == CASE format = "opaque" -> IF "PREVIEW" \in mStreamAdapter
                                               THEN "RECORD" ELSE "PREVIEW"
                       [] format = "blob" -> "JPEG"
                       [] format = "yuv" -> "PRVCB"

allocateStream(format) ==
  /\ Drained
  /\ streamFor(format) \notin mStreamAdapter
  /\ newStream(streamFor(format))
  /\ mStreamAdapter' = mStreamAdapter \cup {streamFor(format)}
  /\ idled' = (idled /\ streamFor(format) # "JPEG")
  /\ UNCHANGED <<managerVars, mWorkInProcess, pc, request, todo, frameworkVars,
                 held, answered, failures>>

\* The next request may be of any kind that may come first.
releaseStream(id) ==
  /\ Drained
  /\ id \in mStreamAdapter
  /\ stopStreams({id})
  /\ mStreamAdapter' = mStreamAdapter \ {id}
  /\ last' = "none"
  /\ UNCHANGED <<managerVars, mWorkInProcess, pc, request, todo, caller, queue,
                 signalConsumer, submitted, held, answered, idled, failures>>

-----------------------------------------------------------------------------
(* dispatchRequest, on a thread of the framework *)

\* Mutant: the wait for the previous thread is dropped.
waitThreadExitNot(f) ==
  /\ caller[f] = "notify"
  /\ caller' = [caller EXCEPT ![f] = "create"]
  /\ UNCHANGED <<streamVars, managerVars, mWorkInProcess, mStreamAdapter, pc,
                 request, todo, queue, signalConsumer, last, submitted, held,
                 answered, idled, failures>>

\* Mutant: no thread is created if one is there to take the request.
waitThreadExitOrSkip(f) ==
  /\ caller[f] = "notify"
  /\ \/ /\ mRequestThread
        /\ caller' = [caller EXCEPT ![f] = "idle"]
        /\ UNCHANGED mThreadExitSem
     \/ /\ ~mRequestThread
        /\ mThreadExitSem > 0
        /\ mThreadExitSem' = mThreadExitSem - 1
        /\ caller' = [caller EXCEPT ![f] = "create"]
  /\ UNCHANGED <<streamVars, mPendingRequests, mRequestThread, mWorkInProcess,
                 mStreamAdapter, pc, request, todo, queue, signalConsumer, last,
                 submitted, held, answered, idled, failures>>

waitThreadExit(f) ==
  /\ caller[f] = "notify"
  /\ mThreadExitSem > 0
  /\ mThreadExitSem' = mThreadExitSem - 1
  /\ caller' = [caller EXCEPT ![f] = "create"]
  /\ UNCHANGED <<streamVars, mPendingRequests, mRequestThread, mWorkInProcess,
                 mStreamAdapter, pc, request, todo, queue, signalConsumer, last,
                 submitted, held, answered, idled, failures>>

\* new RequestHandleThread and mPendingRequests++, before the thread runs.
createThread(f, t) ==
  /\ caller[f] = "create"
  /\ pc[t] = "dead"
  /\ mRequestThread' = TRUE
  /\ mPendingRequests' = (mPendingRequests + 1) % 256
  /\ pc' = [pc EXCEPT ![t] = "created"]
  /\ caller' = [caller EXCEPT ![f] = "run"]
  /\ UNCHANGED <<streamVars, mThreadExitSem, mWorkInProcess, mStreamAdapter,
                 request, todo, queue, signalConsumer, last, submitted, held,
                 answered, idled, failures>>

runThread(f, t) ==
  /\ caller[f] = "run"
  /\ pc[t] = "created"
  /\ pc' = [pc EXCEPT ![t] = "loop"]
  /\ caller' = [caller EXCEPT ![f] = "idle"]
  /\ UNCHANGED <<streamVars, managerVars, mWorkInProcess, mStreamAdapter,
                 request, todo, queue, signalConsumer, last, submitted, held,
                 answered, idled, failures>>

-----------------------------------------------------------------------------
(* handleRequest, on a RequestHandleThread *)

goto(t, phase) == pc' = [pc EXCEPT ![t] = phase]

checkWork(t) ==
  /\ pc[t] = "loop"
  /\ goto(t, IF mWorkInProcess THEN "dequeue" ELSE "stop")
  /\ UNCHANGED <<streamVars, managerVars, mWorkInProcess, mStreamAdapter,
                 request, todo, frameworkVars, held, answered, idled, failures>>

noMoreRequests(t) ==
  /\ pc[t] = "dequeue"
  /\ queue = <<>>
  /\ signalConsumer' = TRUE
  /\ goto(t, "stop")
  /\ UNCHANGED <<streamVars, managerVars, mWorkInProcess, mStreamAdapter,
                 request, todo, caller, queue, last, submitted, held, answered, idled, failures>>

\* dequeue_request and setCurrentRequest, which replaces the metadata that
\* the JPEG thread reads.
dequeueRequest(t) ==
  /\ pc[t] = "dequeue"
  /\ queue # <<>>
  /\ queue' = Tail(queue)
  /\ request' = [request EXCEPT ![t] = Head(queue)]
  /\ held' = held + 1
  /\ answered' = FALSE
  /\ \/ goto(t, "restart")
     \/ "setCurrentRequest" \in failures /\ goto(t, "quit")
  /\ UNCHANGED <<streamVars, managerVars, mWorkInProcess, mStreamAdapter, todo,
                 caller, signalConsumer, last, submitted, idled, failures>>

videoSnapshot(k) == {"RECORD", "JPEG"} \subseteq Menu[k].streams

\* Mutant: a still capture leaves the preview running.
isStreamValidAlways(k, id) == Menu[k].type = "PREVIEW" => id # "JPEG"

isStreamValid(k, id) ==
  \/ videoSnapshot(k)
  \/ /\ Menu[k].type = "CAPTURE" => id \notin {"PREVIEW", "PRVCB"}
     /\ Menu[k].type = "PREVIEW" => id # "JPEG"

\* Streams of the request the loops of tryRestartStreams do not skip.
Active(k) == {id \in Menu[k].streams \cap mStreamAdapter : isStreamValid(k, id)}

\* tryRestartStreams begins: getFrameRate and getRequestStreams may fail;
\* prepared streams the request makes invalid are stopped.
stopInvalid(t) ==
  LET k == request[t] IN
  /\ pc[t] = "restart"
  /\ stopStreams({id \in mStreamAdapter \cap mPrepared : ~isStreamValid(k, id)})
  /\ todo' = [todo EXCEPT ![t] = Active(k)]
  /\ goto(t, "start")
  /\ UNCHANGED <<managerVars, mWorkInProcess, mStreamAdapter, request,
                 frameworkVars, held, answered, idled, failures>>

metadataFails(t) ==
  /\ pc[t] = "restart"
  /\ "metadata" \in failures
  /\ goto(t, "quit")
  /\ UNCHANGED <<streamVars, managerVars, mWorkInProcess, mStreamAdapter,
                 request, todo, frameworkVars, held, answered, idled, failures>>

startStream(t, id) ==
  /\ pc[t] = "start"
  /\ id \in todo[t]
  /\ \/ /\ bringUp(id, videoSnapshot(request[t]), TRUE)
        /\ todo' = [todo EXCEPT ![t] = @ \ {id}]
        /\ UNCHANGED pc
     \/ /\ "start" \in failures
        /\ bringUp(id, videoSnapshot(request[t]), FALSE)
        /\ goto(t, "quit")
        /\ UNCHANGED todo
  /\ UNCHANGED <<managerVars, mWorkInProcess, mStreamAdapter, request,
                 frameworkVars, held, answered, idled, failures>>

\* handleError: the loop of the handler will end.
handleError == mWorkInProcess' = FALSE

configureFails(t, id) ==
  /\ pc[t] = "start"
  /\ id \in todo[t] \ mPrepared
  /\ "configure" \in failures
  /\ Drives(id, snapAfter(id, videoSnapshot(request[t])))
  /\ handleError
  /\ goto(t, "quit")
  /\ UNCHANGED <<streamVars, managerVars, mStreamAdapter, request, todo,
                 frameworkVars, held, answered, idled, failures>>

allStarted(t) ==
  /\ pc[t] = "start"
  /\ todo[t] = {}
  /\ todo' = [todo EXCEPT ![t] = Active(request[t]) \cap mStarted]
  /\ goto(t, "respond")
  /\ UNCHANGED <<streamVars, managerVars, mWorkInProcess, mStreamAdapter,
                 request, frameworkVars, held, answered, idled, failures>>

streamResponds(t, id) ==
  /\ pc[t] = "respond"
  /\ id \in todo[t]
  /\ applyRequest(id)
  /\ todo' = [todo EXCEPT ![t] = @ \ {id}]
  /\ UNCHANGED <<managerVars, mWorkInProcess, mStreamAdapter, pc, request,
                 frameworkVars, held, answered, idled, failures>>

allResponded(t) ==
  /\ pc[t] = "respond"
  /\ todo[t] = {}
  /\ goto(t, "free")
  /\ UNCHANGED <<streamVars, managerVars, mWorkInProcess, mStreamAdapter,
                 request, todo, frameworkVars, held, answered, idled, failures>>

freeRequest(t) ==
  /\ pc[t] = "free"
  /\ held' = held - 1
  /\ goto(t, "loop")
  /\ UNCHANGED <<streamVars, managerVars, mWorkInProcess, mStreamAdapter,
                 request, todo, frameworkVars, answered, idled, failures>>

\* Mutant: the handler ends and leaves the streams running.
stopAllStreamsNot(t) ==
  /\ pc[t] = "stop"
  /\ goto(t, "quit")
  /\ UNCHANGED <<streamVars, managerVars, mWorkInProcess, mStreamAdapter,
                 request, todo, frameworkVars, held, answered, idled, failures>>

stopAllStreams(t) ==
  /\ pc[t] = "stop"
  /\ stopStreams(mStreamAdapter)
  /\ goto(t, "quit")
  /\ UNCHANGED <<managerVars, mWorkInProcess, mStreamAdapter, request, todo,
                 frameworkVars, held, answered, idled, failures>>

\* Mutant: an exit that forgets mPendingRequests--.
quitUncounted(t) ==
  /\ pc[t] = "quit"
  /\ mRequestThread' = FALSE
  /\ goto(t, "post")
  /\ UNCHANGED <<streamVars, mPendingRequests, mThreadExitSem, mWorkInProcess,
                 mStreamAdapter, request, todo, frameworkVars, held, answered, idled, failures>>

\* Mutant: an exit that forgets mRequestThread.clear().
quitStale(t) ==
  /\ pc[t] = "quit"
  /\ mPendingRequests' = (mPendingRequests + 255) % 256
  /\ goto(t, "post")
  /\ UNCHANGED <<streamVars, mRequestThread, mThreadExitSem, mWorkInProcess,
                 mStreamAdapter, request, todo, frameworkVars, held, answered, idled, failures>>

\* mRequestThread.clear() and mPendingRequests--, then sem_post.
quit(t) ==
  /\ pc[t] = "quit"
  /\ mRequestThread' = FALSE
  /\ mPendingRequests' = (mPendingRequests + 255) % 256
  /\ goto(t, "post")
  /\ UNCHANGED <<streamVars, mThreadExitSem, mWorkInProcess, mStreamAdapter,
                 request, todo, frameworkVars, held, answered, idled, failures>>

\* Mutant: an exit that does not post it at all.
postThreadExitNot(t) ==
  /\ pc[t] = "post"
  /\ goto(t, "dead")
  /\ UNCHANGED <<streamVars, managerVars, mWorkInProcess, mStreamAdapter,
                 request, todo, frameworkVars, held, answered, idled, failures>>

postThreadExit(t) ==
  /\ pc[t] = "post"
  /\ mThreadExitSem' = mThreadExitSem + 1
  /\ goto(t, "dead")
  /\ UNCHANGED <<streamVars, mPendingRequests, mRequestThread, mWorkInProcess,
                 mStreamAdapter, request, todo, frameworkVars, held, answered, idled, failures>>

-----------------------------------------------------------------------------
(* The device thread and the JPEG thread, with the errors they report *)

otherVars == <<managerVars, mStreamAdapter, pc, request, todo, frameworkVars, held,
               failures>>

deviceFrame == deliverFrame /\ UNCHANGED <<otherVars, mWorkInProcess, answered, idled>>

deviceError == /\ "device" \in failures
               /\ acquireFails
               /\ handleError
               /\ UNCHANGED <<otherVars, answered, idled>>

jpegTakes == takeFrame /\ UNCHANGED <<otherVars, mWorkInProcess, answered, idled>>

jpegFinishes == /\ \/ finishFrame(TRUE)
                   \/ "process" \in failures /\ finishFrame(FALSE)
                /\ answered' = TRUE
                /\ UNCHANGED <<otherVars, mWorkInProcess, idled>>

jpegReports == /\ \E fatal \in BOOLEAN : reportFailure(fatal)
               /\ handleError
               /\ UNCHANGED <<otherVars, answered, idled>>

jpegTimeout == /\ idleTimeout
               /\ idled' = TRUE
               /\ UNCHANGED <<otherVars, mWorkInProcess, answered>>

-----------------------------------------------------------------------------

framework == \/ \E f \in Callers, k \in Kinds : enqueue(f, k)
             \/ \E format \in {"opaque", "blob", "yuv"} : allocateStream(format)
             \/ \E id \in StreamIds : releaseStream(id)

dispatch(f) == \/ waitThreadExit(f)
               \/ \E t \in Threads : createThread(f, t) \/ runThread(f, t)

handle(t) == \/ checkWork(t) \/ noMoreRequests(t) \/ dequeueRequest(t)
             \/ stopInvalid(t) \/ metadataFails(t)
             \/ \E id \in StreamIds : \/ startStream(t, id)
                                      \/ configureFails(t, id)
                                      \/ streamResponds(t, id)
             \/ allStarted(t) \/ allResponded(t) \/ freeRequest(t)
             \/ stopAllStreams(t) \/ quit(t) \/ postThreadExit(t)

jpeg == jpegTakes \/ jpegFinishes \/ jpegReports

Next == \/ framework
        \/ \E f \in Callers : dispatch(f)
        \/ \E t \in Threads : handle(t)
        \/ deviceFrame \/ deviceError
        \/ jpeg \/ jpegTimeout

Spec == Init /\ [][Next]_vars

\* Every thread that can run does; the sensor keeps producing frames.
FairSpec == /\ Spec
            /\ \A f \in Callers : WF_vars(dispatch(f))
            /\ \A t \in Threads : WF_vars(handle(t))
            /\ WF_vars(deviceFrame)
            /\ WF_vars(jpeg)

\* Time passes as well: waitMessage's five seconds end.
TimedSpec == FairSpec /\ WF_vars(jpegTimeout)

-----------------------------------------------------------------------------
(* Properties *)

TypeOK ==
  /\ StreamsTypeOK
  /\ mThreadExitSem \in Nat
  /\ mPendingRequests \in 0..255
  /\ {mRequestThread, mWorkInProcess, signalConsumer, answered, idled} \subseteq BOOLEAN
  /\ mStreamAdapter \subseteq StreamIds
  /\ mPrepared \subseteq mStreamAdapter
  /\ pc \in [Threads -> Phases]
  /\ request \in [Threads -> Kinds \cup {"none"}]
  /\ todo \in [Threads -> SUBSET StreamIds]
  /\ caller \in [Callers -> {"idle", "notify", "create", "run"}]
  /\ queue \in Seq(Kinds)
  /\ last \in Kinds \cup {"none"}
  /\ submitted \in 0..MaxRequests
  /\ held \in Nat
  /\ failures \in FailureSets

\* Whoever has taken mThreadExitSem and not given it back: a caller between
\* its wait and the creation of the thread, or the thread.
Owners == {f \in Callers : caller[f] = "create"} \cup {t \in Threads : pc[t] # "dead"}

\* At most one RequestHandleThread exists, and the semaphore is free exactly
\* when there is none: bursts of requests never overlap (lines 156, 238).
OneHandler == /\ mThreadExitSem \in 0..1
              /\ \A x, y \in Owners : x = y /\ mThreadExitSem = 0

\* mPendingRequests counts the handler between lines 164 and 237 and nothing
\* else, so the uint8_t never wraps and the framework never sees it busy
\* without a handler or idle with one.
PendingExact ==
  mPendingRequests = Cardinality({t \in Threads : pc[t] \notin {"dead", "post"}})

\* A new burst never finds the previous thread object: requestExit (line 159)
\* would be asked of a thread that no longer looks at it.
NoStaleThread == (\E f \in Callers : caller[f] = "create") => ~mRequestThread

\* When the framework finds the HAL idle no stream runs and no request is
\* left unfreed, so it may release its buffers (Camera2 drains before that).
\* A request whose handling fails before its streams run is never freed.
IdleIsQuiet == Drained /\ failures \subseteq {"device", "process"}
                       => /\ mPrepared = {} /\ mStarted = {}
                          /\ ~mPreviewing /\ ~mImageCapture
                          /\ mDeviceThread = "null"
                          /\ held = 0

\* Preview and still capture never have the device together: startDeviceLocked
\* would replace a thread that still dequeues (line 485 of DeviceAdapter.cpp).
ModesExclusive == ~(mPreviewing /\ mImageCapture)

\* A device in a mode has a thread for stopDeviceLocked to join (line 496 of
\* DeviceAdapter.cpp dereferences it unconditionally), unless STREAMON fails.
DeviceHasThread == "start" \notin failures /\ (mPreviewing \/ mImageCapture)
                   => mDeviceThread # "null"

\* A request with a JPEG stream is answered by a frame of its own: "captureStream
\* should reveive one frame every time" (line 313 of StreamAdapter.cpp).
OneFrameEveryTime ==
  \A t \in Threads :
    pc[t] = "free" /\ "JPEG" \in Active(request[t]) => answered

\* As long as the JPEG stream has not waited five seconds for nothing since it
\* was allocated (lines 213 to 219 of StreamAdapter.cpp), a request is answered
\* by a frame of its own, whatever stills, snapshots and stops came before.
OneFrameUnlessIdle == idled \/ OneFrameEveryTime

\* With the same exception the metadata of a request is not replaced while the
\* JPEG thread reads it to make the picture (setCurrentRequest frees the clone).
MetadataStable ==
  [][held' > held /\ jpegThread = "busy" => idled]_vars

\* No notification is lost: a queued request is taken although it may arrive
\* while the previous handler, which found the queue empty, is still stopping.
RequestsServed == queue # <<>> ~> queue = <<>>

\* No framework thread stays blocked in notify_request_queue_not_empty.
NotifyReturns == \A f \in Callers : caller[f] # "idle" ~> caller[f] = "idle"

\* Every burst ends: the handler cannot hang in a stream or on the device. (After
\* a fatal error of the JPEG stream it may wait for ever for a snapshot.)
HandlerEnds == \A t \in Threads :
  pc[t] # "dead" /\ "process" \notin failures ~> pc[t] = "dead"

===============================================================================
