------------------------- MODULE RequestManagerProofs -------------------------
(***************************************************************************)
(* Proofs about RequestManager, for any sets of framework threads and of   *)
(* thread identities, any kinds of requests and any failures.              *)
(*                                                                         *)
(* The first part is about the control variables only: where the threads   *)
(* are, the semaphore and the counter.  The many steps of handleRequest    *)
(* that move one thread from one live phase to another are therefore one   *)
(* step, Moves, there.  The later parts add the streams and the device,    *)
(* the request at hand, who bears the framework's notification, the order  *)
(* of the requests and the frames on their way to the JPEG stream.         *)
(***************************************************************************)
EXTENDS RequestManager, FiniteSetTheorems, TLAPS

Live == Phases \ {"dead", "post"}

\* The handlers mPendingRequests counts.
Counted == {t \in Threads : pc[t] \notin {"dead", "post"}}

ControlType == /\ pc \in [Threads -> Phases]
               /\ caller \in [Callers -> {"idle", "notify", "create", "run"}]
               /\ mThreadExitSem \in Nat

\* mRequestThread is only set while the thread it points to is counted.
ThreadObject == mRequestThread => \E t \in Threads : pc[t] \notin {"dead", "post"}

controlVars == <<managerVars, pc, caller>>

\* A handler goes from one live phase to another and touches nothing else of
\* the control state.
Moves(t) == /\ pc[t] \in Live
            /\ \E p \in Live : pc' = [pc EXCEPT ![t] = p]
            /\ UNCHANGED <<managerVars, caller>>

\* What a step may do to the control state.
LEMMA ControlSteps ==
  ASSUME ControlType, [Next]_vars
  PROVE  \/ UNCHANGED controlVars
         \/ \E f \in Callers, k \in Kinds : enqueue(f, k)
         \/ \E f \in Callers : waitThreadExit(f)
         \/ \E f \in Callers, t \in Threads : createThread(f, t) \/ runThread(f, t)
         \/ \E t \in Threads : Moves(t) \/ quit(t) \/ postThreadExit(t)
<1> USE DEF controlVars, managerVars, frameworkVars, otherVars
<1>1. ASSUME NEW format, allocateStream(format) PROVE UNCHANGED controlVars
  BY <1>1 DEF allocateStream
<1>2. ASSUME NEW id, releaseStream(id) PROVE UNCHANGED controlVars
  BY <1>2 DEF releaseStream
<1>3. CASE deviceFrame \/ deviceError \/ jpeg \/ jpegTimeout
  BY <1>3 DEF deviceFrame, deviceError, jpeg, jpegTakes, jpegFinishes,
              jpegReports, jpegTimeout
<1>4. CASE UNCHANGED vars
  BY <1>4 DEF vars
<1>5. ASSUME NEW t \in Threads, handle(t)
      PROVE  Moves(t) \/ quit(t) \/ postThreadExit(t)
  <2> USE DEF ControlType, Moves, Live, Phases, goto
  <2>1. CASE checkWork(t)
    <3>1. /\ pc[t] = "loop" /\ UNCHANGED <<managerVars, caller>>
          /\ \E p \in {"dequeue", "stop"} : pc' = [pc EXCEPT ![t] = p]
      BY <2>1 DEF checkWork
    <3> QED
      BY <3>1
  <2>0. CASE noMoreRequests(t)
    BY <2>0 DEF noMoreRequests
  <2>2. CASE dequeueRequest(t)
    BY <2>2 DEF dequeueRequest
  <2>3. CASE stopInvalid(t) \/ metadataFails(t) \/ allStarted(t)
    BY <2>3 DEF stopInvalid, metadataFails, allStarted
  <2>4. ASSUME NEW id \in StreamIds, startStream(t, id) PROVE Moves(t)
    <3>1. /\ pc[t] = "start" /\ UNCHANGED <<managerVars, caller>>
          /\ \/ pc' = pc
             \/ pc' = [pc EXCEPT ![t] = "quit"]
      BY <2>4 DEF startStream
    <3> QED
      BY <3>1
  <2>5. ASSUME NEW id \in StreamIds, configureFails(t, id) PROVE Moves(t)
    BY <2>5 DEF configureFails
  <2>6. ASSUME NEW id \in StreamIds, streamResponds(t, id) PROVE Moves(t)
    BY <2>6 DEF streamResponds
  <2>7. CASE allResponded(t) \/ freeRequest(t) \/ stopAllStreams(t)
    BY <2>7 DEF allResponded, freeRequest, stopAllStreams
  <2> QED
    BY <1>5, <2>0, <2>1, <2>2, <2>3, <2>4, <2>5, <2>6, <2>7 DEF handle
<1> HIDE DEF controlVars
<1>6. CASE framework
  BY <1>1, <1>2, <1>6 DEF framework
<1>7. ASSUME NEW f \in Callers, dispatch(f)
      PROVE  \/ waitThreadExit(f)
             \/ \E t \in Threads : createThread(f, t) \/ runThread(f, t)
  BY <1>7 DEF dispatch
<1> QED
  BY <1>3, <1>4, <1>5, <1>6, <1>7 DEF Next

\* The control variables keep their types.
LEMMA ControlTyped == Spec => []ControlType
<1>1. Init => ControlType
  <2>1. Init => pc \in [Threads -> Phases]
    <3>1. "dead" \in Phases
      BY DEF Phases
    <3> QED
      BY <3>1 DEF Init
  <2>2. Init => caller \in [Callers -> {"idle", "notify", "create", "run"}]
    <3>1. "idle" \in {"idle", "notify", "create", "run"}
      OBVIOUS
    <3> QED
      BY <3>1 DEF Init
  <2>3. Init => mThreadExitSem \in Nat
    BY DEF Init
  <2> QED
    BY <2>1, <2>2, <2>3 DEF ControlType
<1>2. ASSUME ControlType, [Next]_vars PROVE ControlType'
  <2> USE DEF ControlType, Phases, managerVars, controlVars, frameworkVars
  <2>1. CASE UNCHANGED controlVars
    BY <1>2, <2>1
  <2>2. ASSUME NEW f \in Callers, NEW k \in Kinds, enqueue(f, k) PROVE ControlType'
    BY <1>2, <2>2 DEF enqueue
  <2>3. ASSUME NEW f \in Callers, waitThreadExit(f) PROVE ControlType'
    BY <1>2, <2>3 DEF waitThreadExit
  <2>4. ASSUME NEW f \in Callers, NEW t \in Threads, createThread(f, t) PROVE ControlType'
    BY <1>2, <2>4 DEF createThread
  <2>5. ASSUME NEW f \in Callers, NEW t \in Threads, runThread(f, t) PROVE ControlType'
    BY <1>2, <2>5 DEF runThread
  <2>6. ASSUME NEW t \in Threads, Moves(t) PROVE ControlType'
    BY <1>2, <2>6 DEF Moves, Live
  <2>7. ASSUME NEW t \in Threads, quit(t) PROVE ControlType'
    BY <1>2, <2>7 DEF quit, goto
  <2>8. ASSUME NEW t \in Threads, postThreadExit(t) PROVE ControlType'
    BY <1>2, <2>8 DEF postThreadExit, goto
  <2> QED
    BY <1>2, <2>1, <2>2, <2>3, <2>4, <2>5, <2>6, <2>7, <2>8, ControlSteps
<1> QED
  BY <1>1, <1>2, PTL DEF Spec

\* Owners change only by the steps that wait, create, run and post.
LEMMA OwnersKept ==
  ASSUME ControlType,
         \/ UNCHANGED controlVars
         \/ \E f \in Callers, k \in Kinds : enqueue(f, k)
         \/ \E t \in Threads : Moves(t) \/ quit(t)
  PROVE  Owners' = Owners /\ mThreadExitSem' = mThreadExitSem
<1> USE DEF ControlType, Owners, managerVars, controlVars, frameworkVars
<1>1. CASE UNCHANGED controlVars
  BY <1>1
<1>2. ASSUME NEW f \in Callers, NEW k \in Kinds, enqueue(f, k)
      PROVE  Owners' = Owners /\ mThreadExitSem' = mThreadExitSem
  BY <1>2 DEF enqueue
<1>3. ASSUME NEW t \in Threads, Moves(t)
      PROVE  Owners' = Owners /\ mThreadExitSem' = mThreadExitSem
  BY <1>3 DEF Moves, Live, Phases
<1>4. ASSUME NEW t \in Threads, quit(t)
      PROVE  Owners' = Owners /\ mThreadExitSem' = mThreadExitSem
  BY <1>4 DEF quit, goto
<1> QED
  BY <1>1, <1>2, <1>3, <1>4

\* At most one handler thread exists and the semaphore is free only without
\* one, whatever the framework submits and whatever fails.
THEOREM OneHandlerAtATime == Spec => []OneHandler
<1>1. Init => OneHandler
  BY DEF Init, OneHandler, Owners
<1>2. ASSUME ControlType, OneHandler, [Next]_vars PROVE OneHandler'
  <2> USE DEF ControlType, OneHandler
  <2>1. ASSUME Owners' = Owners /\ mThreadExitSem' = mThreadExitSem PROVE OneHandler'
    BY <1>2, <2>1
  <2>2. ASSUME NEW f \in Callers, waitThreadExit(f) PROVE OneHandler'
    <3>1. Owners = {} /\ mThreadExitSem = 1 /\ mThreadExitSem' = 0
      BY <1>2, <2>2 DEF waitThreadExit
    <3>2. Owners' = {f}
      BY <1>2, <2>2, <3>1 DEF waitThreadExit, Owners
    <3> QED
      BY <3>1, <3>2
  <2>3. ASSUME NEW f \in Callers, NEW t \in Threads, createThread(f, t) PROVE OneHandler'
    <3>1. f \in Owners
      BY <2>3 DEF createThread, Owners
    <3>2. Owners' = {t}
      BY <1>2, <2>3, <3>1, RequestAssumption DEF createThread, Owners
    <3> QED
      BY <1>2, <2>3, <3>1, <3>2 DEF createThread
  <2>4. ASSUME NEW f \in Callers, NEW t \in Threads, runThread(f, t) PROVE OneHandler'
    <3>1. Owners' = Owners /\ mThreadExitSem' = mThreadExitSem
      BY <1>2, <2>4 DEF runThread, Owners, managerVars
    <3> QED
      BY <2>1, <3>1
  <2>5. ASSUME NEW t \in Threads, postThreadExit(t) PROVE OneHandler'
    <3>1. t \in Owners /\ mThreadExitSem' = 1
      BY <1>2, <2>5 DEF postThreadExit, Owners
    <3>2. Owners' = {}
      BY <1>2, <2>5, <3>1, RequestAssumption DEF postThreadExit, goto, Owners, frameworkVars
    <3> QED
      BY <3>1, <3>2
  <2> QED
    BY <1>2, <2>1, <2>2, <2>3, <2>4, <2>5, ControlSteps, OwnersKept
<1> QED
  BY <1>1, <1>2, ControlTyped, PTL DEF Spec

\* The handlers the counter counts are among the owners of the semaphore.
LEMMA CountedOwns == Counted \subseteq Owners
BY DEF Counted, Owners

\* mPendingRequests is the number of handlers, 0 or 1; the uint8_t never wraps.
\* That it is decremented from 1 needs OneHandler.
THEOREM CounterExact == Spec => []PendingExact
<1>1. Init => PendingExact
  <2> SUFFICES ASSUME Init PROVE mPendingRequests = Cardinality(Counted)
    BY DEF PendingExact, Counted
  <2>1. Counted = {} /\ mPendingRequests = 0
    BY DEF Init, Counted
  <2> QED
    BY <2>1, FS_EmptySet
<1>2. ASSUME ControlType, OneHandler, PendingExact, [Next]_vars PROVE PendingExact'
  <2> USE DEF ControlType, Phases, frameworkVars
  <2>1. mPendingRequests = Cardinality(Counted)
    BY <1>2 DEF PendingExact, Counted
  <2>2. ASSUME mPendingRequests' = Cardinality(Counted') PROVE PendingExact'
    BY <2>2 DEF PendingExact, Counted
  <2>3. ASSUME Counted' = Counted, mPendingRequests' = mPendingRequests
        PROVE  PendingExact'
    BY <2>1, <2>2, <2>3
  <2>4. CASE UNCHANGED controlVars
    BY <2>3, <2>4 DEF controlVars, managerVars, Counted
  <2>5. ASSUME NEW f \in Callers, NEW k \in Kinds, enqueue(f, k) PROVE PendingExact'
    BY <2>3, <2>5 DEF enqueue, managerVars, Counted
  <2>6. ASSUME NEW f \in Callers, waitThreadExit(f) PROVE PendingExact'
    BY <2>3, <2>6 DEF waitThreadExit, Counted
  <2>7. ASSUME NEW f \in Callers, NEW t \in Threads, createThread(f, t) PROVE PendingExact'
    <3>1. f \in Owners /\ f \notin Threads
      BY <2>7, RequestAssumption DEF createThread, Owners
    <3>2. Counted = {}
      BY <1>2, <3>1, CountedOwns DEF OneHandler, Counted
    <3>3. Counted' = {t}
      BY <1>2, <2>7, <3>2 DEF createThread, Counted
    <3>4. Cardinality({}) = 0 /\ Cardinality({t}) = 1
      BY FS_EmptySet, FS_Singleton
    <3>5. mPendingRequests = 0
      BY <2>1, <3>2, <3>4
    <3>6. mPendingRequests' = 1
      BY <2>7, <3>5 DEF createThread
    <3> QED
      BY <2>2, <3>3, <3>4, <3>6
  <2>8. ASSUME NEW f \in Callers, NEW t \in Threads, runThread(f, t) PROVE PendingExact'
    <3>1. Counted' = Counted
      BY <1>2, <2>8 DEF runThread, Counted
    <3> QED
      BY <2>3, <2>8, <3>1 DEF runThread, managerVars
  <2>9. ASSUME NEW t \in Threads, Moves(t) PROVE PendingExact'
    <3>1. Counted' = Counted
      BY <1>2, <2>9 DEF Moves, Live, Counted
    <3> QED
      BY <2>3, <2>9, <3>1 DEF Moves, managerVars
  <2>10. ASSUME NEW t \in Threads, quit(t) PROVE PendingExact'
    <3>1. t \in Counted
      BY <2>10 DEF quit, Counted
    <3>2. Counted = {t}
      BY <1>2, <3>1, CountedOwns DEF OneHandler
    <3>3. Counted' = {}
      BY <1>2, <2>10, <3>2 DEF quit, goto, Counted
    <3>4. Cardinality({}) = 0 /\ Cardinality({t}) = 1
      BY FS_EmptySet, FS_Singleton
    <3>5. mPendingRequests = 1
      BY <2>1, <3>2, <3>4
    <3>6. mPendingRequests' = 0
      BY <2>10, <3>5 DEF quit
    <3> QED
      BY <2>2, <3>3, <3>4, <3>6
  <2>11. ASSUME NEW t \in Threads, postThreadExit(t) PROVE PendingExact'
    <3>1. Counted' = Counted
      BY <1>2, <2>11 DEF postThreadExit, goto, Counted
    <3> QED
      BY <2>3, <2>11, <3>1 DEF postThreadExit
  <2> QED
    BY <1>2, <2>4, <2>5, <2>6, <2>7, <2>8, <2>9, <2>10, <2>11, ControlSteps
<1> QED
  BY <1>1, <1>2, ControlTyped, OneHandlerAtATime, PTL DEF Spec

\* mRequestThread is set only while its thread is counted.
LEMMA ThreadObjectCounted == Spec => []ThreadObject
<1>1. Init => ThreadObject
  BY DEF Init, ThreadObject
<1>2. ASSUME ControlType, OneHandler, ThreadObject, [Next]_vars PROVE ThreadObject'
  <2> USE DEF ControlType, ThreadObject, Phases, frameworkVars
  <2>1. CASE UNCHANGED controlVars
    BY <1>2, <2>1 DEF controlVars, managerVars
  <2>2. ASSUME NEW f \in Callers, NEW k \in Kinds, enqueue(f, k) PROVE ThreadObject'
    BY <1>2, <2>2 DEF enqueue, managerVars
  <2>3. ASSUME NEW f \in Callers, waitThreadExit(f) PROVE ThreadObject'
    BY <1>2, <2>3 DEF waitThreadExit
  <2>4. ASSUME NEW f \in Callers, NEW t \in Threads, createThread(f, t) PROVE ThreadObject'
    <3>1. pc'[t] = "created"
      BY <1>2, <2>4 DEF createThread
    <3> QED
      BY <3>1
  <2>5. ASSUME NEW f \in Callers, NEW t \in Threads, runThread(f, t) PROVE ThreadObject'
    <3>1. mRequestThread' = mRequestThread /\ pc' = [pc EXCEPT ![t] = "loop"]
      BY <2>5 DEF runThread, managerVars
    <3> QED
      BY <1>2, <3>1
  <2>6. ASSUME NEW t \in Threads, Moves(t) PROVE ThreadObject'
    <3>1. PICK p \in Live : pc' = [pc EXCEPT ![t] = p]
      BY <2>6 DEF Moves
    <3> QED
      BY <1>2, <2>6, <3>1 DEF Moves, Live, managerVars
  <2>7. ASSUME NEW t \in Threads, quit(t) PROVE ThreadObject'
    BY <2>7 DEF quit
  <2>8. ASSUME NEW t \in Threads, postThreadExit(t) PROVE ThreadObject'
    <3>1. mRequestThread' = mRequestThread /\ pc' = [pc EXCEPT ![t] = "dead"]
      BY <2>8 DEF postThreadExit, goto
    <3>2. pc[t] = "post"
      BY <2>8 DEF postThreadExit
    <3> QED
      BY <1>2, <3>1, <3>2
  <2> QED
    BY <1>2, <2>1, <2>2, <2>3, <2>4, <2>5, <2>6, <2>7, <2>8, ControlSteps
<1> QED
  BY <1>1, <1>2, ControlTyped, OneHandlerAtATime, PTL DEF Spec

\* dispatchRequest never meets the thread of an earlier burst.
THEOREM NeverStale == Spec => []NoStaleThread
<1>1. OneHandler /\ ThreadObject => NoStaleThread
  <2> SUFFICES ASSUME OneHandler, ThreadObject,
                      NEW f \in Callers, caller[f] = "create", mRequestThread
               PROVE  FALSE
    BY DEF NoStaleThread
  <2>1. PICK t \in Threads : pc[t] \notin {"dead", "post"}
    BY DEF ThreadObject
  <2>2. t \in Owners /\ f \in Owners
    BY <2>1 DEF Owners
  <2> QED
    BY <2>2, RequestAssumption DEF OneHandler
<1> QED
  BY <1>1, OneHandlerAtATime, ThreadObjectCounted, PTL
-----------------------------------------------------------------------------
(* The streams and the device *)

\* Prepared streams are started; a device mode belongs to the stream that runs
\* it; the device thread exists only in a mode.
DeviceInv == /\ mStarted = mPrepared
             /\ mPreviewing => "PREVIEW" \in mStarted
             /\ mImageCapture => "JPEG" \in mStarted /\ ~mVideoSnapShot
             /\ mDeviceThread # "null" => mPreviewing \/ mImageCapture

StreamInv == StreamsTypeOK /\ DeviceInv

\* The device thread and the JPEG thread at work.
StreamThreads == deviceFrame \/ deviceError \/ jpeg \/ jpegTimeout

\* What a step may do to the streams and the device: streams are stopped, one is
\* brought up or answers, or the threads work.
LEMMA StreamSteps ==
  ASSUME [Next]_vars
  PROVE  \/ UNCHANGED streamVars
         \/ \E id : newStream(id)
         \/ \E S : stopStreams(S)
         \/ \E t \in Threads, id \in StreamIds : startStream(t, id)
         \/ \E id \in StreamIds : applyRequest(id)
         \/ StreamThreads
<1>1. ASSUME NEW f \in Callers, NEW k \in Kinds, enqueue(f, k) PROVE UNCHANGED streamVars
  BY <1>1 DEF enqueue
<1>2. ASSUME NEW format, allocateStream(format) PROVE \E id : newStream(id)
  BY <1>2 DEF allocateStream
<1>3. ASSUME NEW id, releaseStream(id) PROVE \E S : stopStreams(S)
  BY <1>3 DEF releaseStream
<1>4. ASSUME NEW f \in Callers, dispatch(f) PROVE UNCHANGED streamVars
  BY <1>4 DEF dispatch, waitThreadExit, createThread, runThread
<1>5. ASSUME NEW t \in Threads, handle(t)
      PROVE  \/ UNCHANGED streamVars
             \/ \E S : stopStreams(S)
             \/ \E id \in StreamIds : startStream(t, id)
             \/ \E id \in StreamIds : applyRequest(id)
  <2>1. CASE \/ checkWork(t) \/ noMoreRequests(t) \/ dequeueRequest(t) \/ metadataFails(t)
             \/ allStarted(t) \/ allResponded(t) \/ freeRequest(t) \/ quit(t) \/ postThreadExit(t)
    BY <2>1 DEF checkWork, noMoreRequests, dequeueRequest, metadataFails, allStarted,
                allResponded, freeRequest, quit, postThreadExit
  <2>2. CASE stopInvalid(t) \/ stopAllStreams(t)
    BY <2>2 DEF stopInvalid, stopAllStreams
  <2>3. ASSUME NEW id \in StreamIds, configureFails(t, id) PROVE UNCHANGED streamVars
    BY <2>3 DEF configureFails
  <2>4. ASSUME NEW id \in StreamIds, streamResponds(t, id) PROVE applyRequest(id)
    BY <2>4 DEF streamResponds
  <2> QED
    BY <1>5, <2>1, <2>2, <2>3, <2>4 DEF handle
<1>6. CASE UNCHANGED vars
  BY <1>6 DEF vars
<1> QED
  BY <1>1, <1>2, <1>3, <1>4, <1>5, <1>6 DEF Next, framework, StreamThreads

\* A new stream object has its own semaphore and flags; nothing else changes.
LEMMA NewStreamKeeps ==
  ASSUME NEW id, newStream(id)
  PROVE  UNCHANGED <<mPrepared, mStarted, mPreviewing, mImageCapture, mDeviceThread,
                     mStreamState, jpegFrames, jpegThread>>
BY DEF newStream, deviceVars

\* startStream brings a stream up; the device refuses only if STREAMON may fail.
LEMMA StartBringsUp ==
  ASSUME NEW t \in Threads, NEW id \in StreamIds, startStream(t, id)
  PROVE  \E snap \in BOOLEAN, ok \in BOOLEAN :
           /\ snap = videoSnapshot(request[t])
           /\ ok \/ "start" \in failures
           /\ bringUp(id, snap, ok)
<1>1. videoSnapshot(request[t]) \in BOOLEAN
  BY DEF videoSnapshot
<1> QED
  BY <1>1 DEF startStream

\* The threads of the streams leave their setup and the modes alone.
LEMMA ThreadsKeepSetup ==
  ASSUME StreamInv, StreamThreads
  PROVE  /\ UNCHANGED <<setupVars, mPreviewing, mImageCapture, otherVars>>
         /\ mDeviceThread' # "null" <=> mDeviceThread # "null"
         /\ StreamsTypeOK'
<1> USE DEF StreamInv, StreamsTypeOK, setupVars, deviceVars
<1>1. CASE deviceFrame
  BY <1>1 DEF deviceFrame, deliverFrame
<1>2. CASE deviceError
  BY <1>2 DEF deviceError, acquireFails
<1>3. CASE jpegTakes
  BY <1>3 DEF jpegTakes, takeFrame
<1>4. CASE jpegFinishes
  <2>1. PICK ok \in BOOLEAN : finishFrame(ok) /\ UNCHANGED otherVars
    BY <1>4 DEF jpegFinishes
  <2> QED
    BY <2>1 DEF finishFrame
<1>5. CASE jpegReports
  <2>1. PICK fatal \in BOOLEAN : reportFailure(fatal) /\ UNCHANGED otherVars
    BY <1>5 DEF jpegReports
  <2> QED
    BY <2>1 DEF reportFailure
<1>6. CASE jpegTimeout
  BY <1>6 DEF jpegTimeout, idleTimeout
<1> QED
  BY <1>1, <1>2, <1>3, <1>4, <1>5, <1>6 DEF StreamThreads, jpeg

\* Every step keeps the types of the streams and the modes with their streams.
LEMMA StreamInvStep == ASSUME StreamInv, [Next]_vars PROVE StreamInv'
<1> USE DEF StreamInv, StreamsTypeOK, DeviceInv, setupVars, deviceVars
<1>1. CASE UNCHANGED streamVars
  BY <1>1 DEF streamVars
<1>2. ASSUME NEW S, stopStreams(S) PROVE StreamInv'
  <2>1. StreamsTypeOK'
    BY <1>2 DEF stopStreams
  <2>2. DeviceInv'
    BY <1>2 DEF stopStreams
  <2> QED
    BY <2>1, <2>2
<1>3. ASSUME NEW id \in StreamIds, NEW snap \in BOOLEAN, NEW ok \in BOOLEAN, bringUp(id, snap, ok)
      PROVE  StreamInv'
  <2>1. snapAfter(id, snap) \in BOOLEAN
    BY DEF snapAfter
  <2>2. StreamsTypeOK'
    BY <1>3, <2>1 DEF bringUp
  <2>3. DeviceInv'
    BY <1>3 DEF bringUp, Drives, snapAfter, StreamIds
  <2> QED
    BY <2>2, <2>3
<1>4. ASSUME NEW id \in StreamIds, applyRequest(id) PROVE StreamInv'
  BY <1>4 DEF applyRequest
<1>6. ASSUME NEW id, newStream(id) PROVE StreamInv'
  <2>1. CASE id = "JPEG"
    <3>1. mVideoSnapShot' = FALSE /\ mReceiveFrame' = TRUE /\ mRespondSem' = 0
      BY <1>6, <2>1 DEF newStream
    <3>2. {mVideoSnapShot', mReceiveFrame'} \subseteq BOOLEAN
      BY <3>1, Zenon
    <3> QED
      BY <1>6, <3>1, <3>2, NewStreamKeeps
  <2>2. CASE id # "JPEG"
    BY <1>6, <2>2, NewStreamKeeps DEF newStream
  <2> QED
    BY <2>1, <2>2
<1>5. CASE StreamThreads
  <2>1. StreamsTypeOK'
    BY <1>5, ThreadsKeepSetup
  <2>2. DeviceInv'
    BY <1>5, ThreadsKeepSetup
  <2> QED
    BY <2>1, <2>2
<1> QED
  BY <1>1, <1>2, <1>3, <1>4, <1>5, <1>6, StreamSteps, StartBringsUp

\* It is an invariant.
LEMMA StreamsSound == Spec => []StreamInv
<1>1. Init => StreamInv
  <2> SUFFICES ASSUME Init PROVE StreamInv
    OBVIOUS
  <2>1. {mPreviewing, mImageCapture, mVideoSnapShot, mReceiveFrame} \subseteq BOOLEAN
    BY Zenon DEF Init, StreamsInit
  <2>2. StreamsTypeOK
    BY <2>1 DEF Init, StreamsInit, StreamsTypeOK
  <2>3. DeviceInv
    BY DEF Init, StreamsInit, DeviceInv
  <2> QED
    BY <2>2, <2>3 DEF StreamInv
<1>2. StreamInv /\ [Next]_vars => StreamInv'
  BY StreamInvStep
<1> QED
  BY <1>1, <1>2, PTL DEF Spec

-----------------------------------------------------------------------------
(* The handler and its request *)

\* What is known of the control of the handler.
Control == ControlType /\ OneHandler /\ PendingExact

Working == {"restart", "start", "respond", "free"}

RequestType == /\ request \in [Threads -> Kinds \cup {"none"}]
               /\ todo \in [Threads -> SUBSET StreamIds]
               /\ queue \in Seq(Kinds)
               /\ mStreamAdapter \subseteq StreamIds

\* The streams of the request at hand: the loop that starts them has only valid
\* ones left, and after it began no invalid one is prepared.
SetupInv == /\ mPrepared \subseteq mStreamAdapter
            /\ \A t \in Threads :
                 /\ pc[t] \in Working => request[t] \in Kinds
                 /\ pc[t] = "start" => todo[t] \subseteq Active(request[t])
                 /\ pc[t] \in {"start", "respond", "free"} =>
                      \A id \in mPrepared : isStreamValid(request[t], id)

RequestInv == RequestType /\ SetupInv

\* While one handler exists no other does, and no caller is about to create one.
LEMMA HandlerAlone ==
  ASSUME Control, NEW t \in Threads, pc[t] # "dead"
  PROVE  /\ \A u \in Threads : u # t => pc[u] = "dead"
         /\ \A f \in Callers : caller[f] # "create"
         /\ mThreadExitSem = 0
<1>1. t \in Owners
  BY DEF Owners
<1>2. ASSUME NEW x \in Owners PROVE x = t
  BY <1>1, <1>2 DEF Control, OneHandler
<1>3. ASSUME NEW f \in Callers, caller[f] = "create" PROVE FALSE
  <2>1. f \in Owners /\ f \notin Threads
    BY <1>3, RequestAssumption DEF Owners
  <2> QED
    BY <1>2, <2>1
<1>4. ASSUME NEW u \in Threads, u # t PROVE pc[u] = "dead"
  BY <1>2, <1>4 DEF Owners
<1> QED
  BY <1>1, <1>3, <1>4 DEF Control, OneHandler

\* When the framework finds the HAL drained no handler is at work.
LEMMA DrainedMeansDone ==
  ASSUME Control, Drained, NEW t \in Threads
  PROVE  pc[t] \in {"dead", "post"}
<1> SUFFICES ASSUME pc[t] \notin {"dead", "post"} PROVE FALSE
  OBVIOUS
<1>1. \A u \in Threads : u # t => pc[u] = "dead"
  BY HandlerAlone
<1>2. {u \in Threads : pc[u] \notin {"dead", "post"}} = {t}
  BY <1>1
<1>3. mPendingRequests = 1
  BY <1>2, FS_Singleton DEF Control, PendingExact
<1> QED
  BY <1>3 DEF Drained

\* The streams a request makes the loops handle.
LEMMA ActiveValid ==
  ASSUME NEW k \in Kinds
  PROVE  /\ Active(k) \subseteq mStreamAdapter
         /\ \A id \in Active(k) : isStreamValid(k, id)
BY DEF Active

\* What bringing a stream up adds to the prepared ones, and stopping takes away.
LEMMA SetupChanges ==
  /\ \A S : stopStreams(S) => mPrepared' = mPrepared \ S
  /\ \A id, snap, ok : bringUp(id, snap, ok) => mPrepared' = mPrepared \cup {id}
  /\ \A id : applyRequest(id) => UNCHANGED <<setupVars, deviceVars>>
BY DEF stopStreams, bringUp, applyRequest

\* The setup depends on nothing that the other steps change.
LEMMA SetupKept ==
  ASSUME SetupInv, UNCHANGED <<request, mStreamAdapter, mPrepared>>,
         NEW t \in Threads, pc \in [Threads -> Phases],
         NEW p, pc' = [pc EXCEPT ![t] = p],
         \A u \in Threads : u # t => pc[u] = "dead",
         p \in Working => pc[t] \in Working,
         p \in {"start", "respond", "free"} => pc[t] \in {"start", "respond", "free"},
         p = "start" => todo'[t] \subseteq Active(request[t])
  PROVE  SetupInv'
<1>1. pc'[t] = p /\ \A u \in Threads : u # t => pc'[u] = "dead"
  OBVIOUS
<1>2. \A u \in Threads : u # t => /\ pc'[u] \notin Working
                                  /\ pc'[u] \notin {"start", "respond", "free"}
  BY <1>1 DEF Working
<1>3. \A k : Active(k)' = Active(k)
  BY DEF Active
<1>4. \A k, id : isStreamValid(k, id)' = isStreamValid(k, id)
  BY DEF isStreamValid
<1> QED
  BY <1>1, <1>2, <1>3 DEF SetupInv

\* Every step keeps the types of the request, its streams and the queue.
LEMMA RequestTypeStep ==
  ASSUME RequestType, [Next]_vars
  PROVE  RequestType'
<1> USE DEF RequestType, managerVars, frameworkVars
<1>1. ASSUME NEW f \in Callers, NEW k \in Kinds, enqueue(f, k) PROVE RequestType'
  <2>1. queue' \in Seq(Kinds)
    BY <1>1 DEF enqueue
  <2> QED
    BY <1>1, <2>1 DEF enqueue
<1>2. ASSUME NEW format, allocateStream(format), format \in {"opaque", "blob", "yuv"}
      PROVE  RequestType'
  BY <1>2 DEF allocateStream, streamFor, StreamIds
<1>3. ASSUME NEW id \in StreamIds, releaseStream(id) PROVE RequestType'
  BY <1>3 DEF releaseStream
<1>4. ASSUME NEW f \in Callers, dispatch(f) PROVE RequestType'
  BY <1>4 DEF dispatch, waitThreadExit, createThread, runThread
<1>5. ASSUME NEW t \in Threads, handle(t) PROVE RequestType'
  <2>1. CASE \/ checkWork(t) \/ noMoreRequests(t) \/ metadataFails(t)
             \/ allResponded(t) \/ freeRequest(t) \/ quit(t) \/ postThreadExit(t)
             \/ stopAllStreams(t)
    BY <2>1 DEF checkWork, noMoreRequests, metadataFails,
                allResponded, freeRequest, quit, postThreadExit, stopAllStreams
  <2>2. CASE dequeueRequest(t)
    <3>1. Head(queue) \in Kinds /\ Tail(queue) \in Seq(Kinds)
      BY <2>2 DEF dequeueRequest
    <3> QED
      BY <2>2, <3>1 DEF dequeueRequest
  <2>3. CASE stopInvalid(t) \/ allStarted(t)
    <3>1. \A k : Active(k) \subseteq StreamIds
      BY DEF Active
    <3> QED
      BY <2>3, <3>1 DEF stopInvalid, allStarted
  <2>4. ASSUME NEW id \in StreamIds,
               startStream(t, id) \/ configureFails(t, id) \/ streamResponds(t, id)
        PROVE  RequestType'
    BY <2>4 DEF startStream, configureFails, streamResponds
  <2> QED
    BY <1>5, <2>1, <2>2, <2>3, <2>4 DEF handle
<1>6. CASE StreamThreads
  BY <1>6 DEF StreamThreads, deviceFrame, deviceError, jpeg, jpegTakes, jpegFinishes,
              jpegReports, jpegTimeout, otherVars
<1>7. CASE UNCHANGED vars
  BY <1>7 DEF vars
<1> QED
  BY <1>1, <1>2, <1>3, <1>4, <1>5, <1>6, <1>7 DEF Next, framework, StreamThreads

\* Every step keeps the prepared streams within those the request allows.
LEMMA SetupStep ==
  ASSUME Control, StreamInv, RequestInv, [Next]_vars
  PROVE  SetupInv'
<1> USE DEF RequestInv, RequestType, Control, ControlType
<1>0. /\ \A k : UNCHANGED mStreamAdapter => Active(k)' = Active(k)
      /\ \A k, id : isStreamValid(k, id)' = isStreamValid(k, id)
  BY DEF Active, isStreamValid
<1>1. ASSUME UNCHANGED <<mPrepared, request, todo, mStreamAdapter, pc>> PROVE SetupInv'
  BY <1>0, <1>1 DEF SetupInv
<1>2. ASSUME Drained, UNCHANGED <<request, todo, pc>>, mPrepared' \subseteq mStreamAdapter'
      PROVE  SetupInv'
  <2>1. \A t \in Threads : pc'[t] \in {"dead", "post"}
    BY <1>2, DrainedMeansDone
  <2> QED
    BY <1>2, <2>1 DEF SetupInv, Working
<1>3. ASSUME NEW f \in Callers, NEW k \in Kinds, enqueue(f, k) PROVE SetupInv'
  BY <1>1, <1>3 DEF enqueue, streamVars
<1>4. ASSUME NEW format, allocateStream(format) PROVE SetupInv'
  BY <1>2, <1>4, NewStreamKeeps DEF allocateStream, SetupInv
<1>5. ASSUME NEW id \in StreamIds, releaseStream(id) PROVE SetupInv'
  BY <1>2, <1>5, SetupChanges DEF releaseStream, SetupInv
<1>6. ASSUME NEW f \in Callers, waitThreadExit(f) PROVE SetupInv'
  BY <1>1, <1>6 DEF waitThreadExit, streamVars
<1>7. ASSUME NEW f \in Callers, NEW t \in Threads, createThread(f, t) PROVE SetupInv'
  <2>1. \A u \in Threads : pc[u] = "dead"
    BY <1>7, HandlerAlone DEF createThread
  <2>2. \A u \in Threads : pc'[u] \in {"dead", "created"}
    BY <1>7, <2>1 DEF createThread
  <2>3. mPrepared' = mPrepared /\ mStreamAdapter' = mStreamAdapter
    BY <1>7 DEF createThread, streamVars
  <2> QED
    BY <2>2, <2>3 DEF SetupInv, Working
<1>8. ASSUME NEW f \in Callers, NEW t \in Threads, runThread(f, t) PROVE SetupInv'
  <2>1. \A u \in Threads : u # t => pc[u] = "dead"
    BY <1>8, HandlerAlone DEF runThread
  <2>2. /\ UNCHANGED <<request, mStreamAdapter, mPrepared>>
        /\ pc' = [pc EXCEPT ![t] = "loop"]
    BY <1>8 DEF runThread, streamVars
  <2> QED
    BY <2>1, <2>2, SetupKept DEF Working
<1>9. ASSUME NEW t \in Threads, handle(t) PROVE SetupInv'
  <2>1. pc[t] # "dead"
    BY <1>9 DEF handle, checkWork, noMoreRequests, dequeueRequest, stopInvalid,
             metadataFails, startStream, configureFails, streamResponds, allStarted,
             allResponded, freeRequest, stopAllStreams, quit, postThreadExit
  <2>2. \A u \in Threads : u # t => pc[u] = "dead"
    BY <2>1, HandlerAlone
  <2> USE DEF goto, streamVars
  <2>3. ASSUME NEW p, goto(t, p), p \notin Working, UNCHANGED mStreamAdapter,
               mPrepared' \subseteq mPrepared
        PROVE  SetupInv'
    <3>1. \A u \in Threads : pc'[u] \notin Working
      BY <2>2, <2>3 DEF Working
    <3> QED
      BY <2>3, <3>1 DEF SetupInv, Working
  <2>4. CASE checkWork(t) \/ noMoreRequests(t) \/ metadataFails(t) \/ freeRequest(t)
                 \/ quit(t) \/ postThreadExit(t)
    BY <2>3, <2>4 DEF checkWork, noMoreRequests, metadataFails, freeRequest, quit,
                      postThreadExit, Working
  <2>5. CASE dequeueRequest(t)
    <3>1. Head(queue) \in Kinds
      BY <2>5 DEF dequeueRequest
    <3>2. \/ pc' = [pc EXCEPT ![t] = "restart"]
          \/ pc' = [pc EXCEPT ![t] = "quit"]
      BY <2>5 DEF dequeueRequest
    <3>3. /\ \A u \in Threads : u # t => pc'[u] = "dead"
          /\ pc'[t] \in {"restart", "quit"}
          /\ request'[t] \in Kinds
          /\ UNCHANGED <<mPrepared, mStreamAdapter>>
      BY <2>2, <2>5, <3>1, <3>2 DEF dequeueRequest
    <3>4. \A u \in Threads : u = t \/ pc'[u] \notin Working \cup {"start", "respond", "free"}
      BY <3>3 DEF Working
    <3> QED
      BY <3>3, <3>4 DEF SetupInv
  <2>6. CASE stopInvalid(t)
    <3>1. /\ pc[t] = "restart"
          /\ request[t] \in Kinds
          /\ mPrepared' = mPrepared \ {id \in mStreamAdapter \cap mPrepared :
                                           ~isStreamValid(request[t], id)}
          /\ pc' = [pc EXCEPT ![t] = "start"]
          /\ todo'[t] = Active(request[t])
          /\ UNCHANGED <<mStreamAdapter, request>>
      BY <2>6, SetupChanges DEF stopInvalid, SetupInv, Working
    <3>2. \A id \in mPrepared' : isStreamValid(request[t], id)
      BY <3>1 DEF SetupInv
    <3>3. /\ pc'[t] = "start" /\ \A u \in Threads : u # t => pc'[u] = "dead"
      BY <2>2, <3>1
    <3>4. mPrepared' \subseteq mStreamAdapter'
      BY <3>1 DEF SetupInv
    <3>5. \A u \in Threads : u = t \/ pc'[u] \notin Working \cup {"start", "respond", "free"}
      BY <3>3 DEF Working
    <3> QED
      BY <1>0, <3>1, <3>2, <3>3, <3>4, <3>5 DEF SetupInv
  <2>7. ASSUME NEW id \in StreamIds, startStream(t, id) PROVE SetupInv'
    <3>1. /\ pc[t] = "start"
          /\ id \in todo[t]
          /\ mPrepared' = mPrepared \cup {id}
          /\ UNCHANGED <<mStreamAdapter, request>>
          /\ \/ pc' = pc /\ todo' = [todo EXCEPT ![t] = todo[t] \ {id}]
             \/ pc' = [pc EXCEPT ![t] = "quit"] /\ todo' = todo
      BY <2>7, SetupChanges DEF startStream
    <3>2. request[t] \in Kinds /\ todo[t] \subseteq Active(request[t])
      BY <3>1 DEF SetupInv, Working
    <3>3. id \in mStreamAdapter /\ isStreamValid(request[t], id)
      BY <3>1, <3>2, ActiveValid
    <3>4. mPrepared' \subseteq mStreamAdapter'
      BY <3>1, <3>3 DEF SetupInv
    <3>5. \A x \in mPrepared' : isStreamValid(request[t], x)
      BY <3>1, <3>3 DEF SetupInv
    <3>6. pc'[t] = "start" => todo'[t] \subseteq Active(request[t])
      BY <3>1, <3>2
    <3>7. \A u \in Threads : u # t => pc'[u] = "dead"
      BY <2>2, <3>1
    <3>8. \A u \in Threads : u = t \/ pc'[u] \notin Working \cup {"start", "respond", "free"}
      BY <3>7 DEF Working
    <3> QED
      BY <1>0, <3>1, <3>2, <3>4, <3>5, <3>6, <3>8 DEF SetupInv
  <2>8. ASSUME NEW id \in StreamIds, configureFails(t, id) PROVE SetupInv'
    BY <2>3, <2>8 DEF configureFails, Working
  <2>9. ASSUME NEW id \in StreamIds, streamResponds(t, id) PROVE SetupInv'
    <3>1. /\ pc[t] = "respond" /\ pc' = pc
          /\ UNCHANGED <<mPrepared, mStreamAdapter, request>>
      BY <2>9, SetupChanges DEF streamResponds, setupVars
    <3>2. pc' = [pc EXCEPT ![t] = "respond"]
      BY <3>1
    <3> QED
      BY <2>2, <3>1, <3>2, SetupKept DEF Working
  <2>10. CASE allStarted(t)
    <3>1. /\ pc[t] = "start"
          /\ pc' = [pc EXCEPT ![t] = "respond"]
          /\ UNCHANGED <<mPrepared, mStreamAdapter, request>>
      BY <2>10 DEF allStarted
    <3> QED
      BY <2>2, <3>1, SetupKept DEF Working
  <2>11. CASE allResponded(t)
    <3>1. /\ pc[t] = "respond"
          /\ pc' = [pc EXCEPT ![t] = "free"]
          /\ UNCHANGED <<mPrepared, mStreamAdapter, request>>
      BY <2>11 DEF allResponded
    <3> QED
      BY <2>2, <3>1, SetupKept DEF Working
  <2>12. CASE stopAllStreams(t)
    BY <2>3, <2>12, SetupChanges DEF stopAllStreams, Working
  <2> QED
    BY <1>9, <2>4, <2>5, <2>6, <2>7, <2>8, <2>9, <2>10, <2>11, <2>12 DEF handle
<1>10. CASE StreamThreads
  BY <1>1, <1>10, ThreadsKeepSetup DEF setupVars, otherVars
<1>11. CASE UNCHANGED vars
  BY <1>1, <1>11 DEF vars, streamVars
<1> QED
  BY <1>3, <1>4, <1>5, <1>6, <1>7, <1>8, <1>9, <1>10, <1>11
     DEF Next, framework, dispatch, StreamThreads

\* What was proved of the control of the handler.
LEMMA ControlHolds == Spec => []Control
BY ControlTyped, OneHandlerAtATime, CounterExact, PTL DEF Control

\* It is an invariant.
LEMMA RequestsSound == Spec => [](Control /\ StreamInv /\ RequestInv)
<1>1. Init => RequestInv
  <2> SUFFICES ASSUME Init PROVE RequestInv
    OBVIOUS
  <2>1. RequestType
    BY DEF Init, RequestType
  <2>2. \A t \in Threads : pc[t] = "dead"
    BY DEF Init
  <2>3. mPrepared = {}
    BY DEF Init, StreamsInit
  <2> QED
    BY <2>1, <2>2, <2>3 DEF RequestInv, SetupInv, Working
<1>2. Control /\ StreamInv /\ RequestInv /\ [Next]_vars => RequestInv'
  BY RequestTypeStep, SetupStep DEF RequestInv
<1> QED
  BY <1>1, <1>2, ControlHolds, StreamsSound, PTL DEF Spec

-----------------------------------------------------------------------------
(* Nothing is left behind *)

\* Phases in which streams may run unless something fails.
Bursting == {"loop", "dequeue", "stop"} \cup Working

EarlyExits == {"setCurrentRequest", "metadata", "configure", "start"}

\* Without an early exit streams are prepared only during a burst, and the only
\* request that is held is the one at hand.
QuietInv == failures \cap EarlyExits = {} =>
              /\ (\A t \in Threads : pc[t] \notin Bursting) => mPrepared = {}
              /\ (\A t \in Threads : pc[t] \notin Working) => held = 0
              /\ (\E t \in Threads : pc[t] \in Working) => held = 1

\* Whatever fails, the request at hand is held.
HeldInv == /\ held \in Nat
           /\ (\E t \in Threads : pc[t] \in Working) => held > 0

\* A step of one handler that does not dequeue or free keeps what is held.
LEMMA QuietMove ==
  ASSUME QuietInv, HeldInv, ControlType, UNCHANGED <<held, failures>>,
         NEW t \in Threads, NEW p, pc' = [pc EXCEPT ![t] = p],
         \A u \in Threads : u # t => pc[u] = "dead",
         p \in Working => pc[t] \in Working
  PROVE  /\ HeldInv'
         /\ failures \cap EarlyExits = {}
              /\ (p \notin Bursting => mPrepared' = {})
              /\ (pc[t] \in Working => p \in Working)
            => QuietInv'
<1>1. pc'[t] = p /\ \A u \in Threads : u # t => pc'[u] = "dead"
  BY DEF ControlType
<1>2. (\E u \in Threads : pc'[u] \in Working) <=> p \in Working
  BY <1>1 DEF Working
<1>3. (\E u \in Threads : pc'[u] \in Bursting) <=> p \in Bursting
  BY <1>1 DEF Working, Bursting
<1>4. (\E u \in Threads : pc[u] \in Working) <=> pc[t] \in Working
  BY DEF Working
<1>5. HeldInv'
  BY <1>2, <1>4 DEF HeldInv
<1>6. ASSUME failures \cap EarlyExits = {}, p \notin Bursting => mPrepared' = {},
             pc[t] \in Working => p \in Working
      PROVE  QuietInv'
  BY <1>2, <1>3, <1>4, <1>6 DEF QuietInv
<1> QED
  BY <1>5, <1>6

\* Every step keeps both.
LEMMA QuietStep ==
  ASSUME Control, StreamInv, RequestInv, QuietInv, HeldInv, [Next]_vars
  PROVE  QuietInv' /\ HeldInv'
<1> USE DEF managerVars, frameworkVars, streamVars
<1>0. ControlType
  BY DEF Control
<1>1. ASSUME UNCHANGED <<pc, held, failures>>, mPrepared' \subseteq mPrepared
      PROVE  QuietInv' /\ HeldInv'
  <2>1. mPrepared = {} => mPrepared' = {}
    BY <1>1
  <2> QED
    BY <1>1, <2>1 DEF QuietInv, HeldInv
<1>2. ASSUME NEW f \in Callers, NEW k \in Kinds, enqueue(f, k) PROVE QuietInv' /\ HeldInv'
  BY <1>1, <1>2 DEF enqueue
<1>3. ASSUME NEW format, allocateStream(format) PROVE QuietInv' /\ HeldInv'
  BY <1>1, <1>3, NewStreamKeeps DEF allocateStream
<1>4. ASSUME NEW id, releaseStream(id) PROVE QuietInv' /\ HeldInv'
  BY <1>1, <1>4, SetupChanges DEF releaseStream
<1>5. ASSUME NEW f \in Callers, waitThreadExit(f) PROVE QuietInv' /\ HeldInv'
  BY <1>1, <1>5 DEF waitThreadExit
<1>6. ASSUME NEW f \in Callers, NEW t \in Threads, createThread(f, t) PROVE QuietInv' /\ HeldInv'
  <2>1. \A u \in Threads : pc[u] = "dead"
    BY <1>6, HandlerAlone DEF createThread
  <2>2. /\ \A u \in Threads : pc'[u] \in {"dead", "created"}
        /\ UNCHANGED <<mPrepared, held, failures>>
    BY <1>0, <1>6, <2>1 DEF createThread, ControlType
  <2> QED
    BY <2>1, <2>2 DEF QuietInv, HeldInv, Working, Bursting
<1>7. ASSUME NEW f \in Callers, NEW t \in Threads, runThread(f, t) PROVE QuietInv' /\ HeldInv'
  <2>1. /\ \A u \in Threads : u # t => pc[u] = "dead"
        /\ pc[t] = "created" /\ pc' = [pc EXCEPT ![t] = "loop"]
        /\ UNCHANGED <<mPrepared, held, failures>>
    BY <1>7, HandlerAlone DEF runThread
  <2>2. "loop" \notin Working /\ "loop" \in Bursting /\ "created" \notin Working
    BY DEF Working, Bursting
  <2>3. HeldInv' /\ (failures \cap EarlyExits = {} => QuietInv')
    BY <1>0, <2>1, <2>2, QuietMove
  <2> QED
    BY <2>1, <2>3 DEF QuietInv
<1>8. ASSUME NEW t \in Threads, handle(t) PROVE QuietInv' /\ HeldInv'
  <2>1. pc[t] # "dead"
    BY <1>8 DEF handle, checkWork, noMoreRequests, dequeueRequest, stopInvalid,
             metadataFails, startStream, configureFails, streamResponds, allStarted,
             allResponded, freeRequest, stopAllStreams, quit, postThreadExit
  <2>2. \A u \in Threads : u # t => pc[u] = "dead"
    BY <2>1, HandlerAlone
  <2>3. failures' = failures
    BY <1>8 DEF handle, checkWork, noMoreRequests, dequeueRequest, stopInvalid,
             metadataFails, startStream, configureFails, streamResponds, allStarted,
             allResponded, freeRequest, stopAllStreams, quit, postThreadExit
  <2> USE DEF goto
  \* A move within the burst, or within the work on a request.
  <2>4. ASSUME NEW p, pc' = [pc EXCEPT ![t] = p], held' = held,
               \/ pc[t] \notin Working /\ p \in Bursting \ Working
               \/ pc[t] \in Working /\ p \in Working
        PROVE  QuietInv' /\ HeldInv'
    <3>1. p \in Bursting /\ (p \in Working <=> pc[t] \in Working)
      BY <2>4 DEF Bursting
    <3>2. HeldInv' /\ (failures \cap EarlyExits = {} => QuietInv')
      BY <1>0, <2>2, <2>3, <2>4, <3>1, QuietMove
    <3> QED
      BY <2>3, <3>2 DEF QuietInv
  \* An early exit.
  <2>5. ASSUME pc' = [pc EXCEPT ![t] = "quit"], held' \in {held, held + 1},
               failures \cap EarlyExits # {}
        PROVE  QuietInv' /\ HeldInv'
    <3>1. QuietInv'
      BY <2>3, <2>5 DEF QuietInv
    <3>2. \A u \in Threads : pc'[u] \notin Working
      BY <1>0, <2>2, <2>5 DEF ControlType, Working
    <3>3. held' \in Nat
      BY <2>5 DEF HeldInv
    <3> QED
      BY <3>1, <3>2, <3>3 DEF HeldInv
  \* A move after the burst.
  <2>6. ASSUME NEW p, pc' = [pc EXCEPT ![t] = p], held' = held,
               pc[t] \notin Working, p \notin Bursting,
               mPrepared' = {} \/ (pc[t] \notin Bursting /\ mPrepared' = mPrepared)
        PROVE  QuietInv' /\ HeldInv'
    <3>1. p \notin Working
      BY <2>6 DEF Bursting
    <3>2. failures \cap EarlyExits = {} => mPrepared' = {}
      <4>1. pc[t] \notin Bursting => \A u \in Threads : pc[u] \notin Bursting
        BY <2>2 DEF Bursting, Working
      <4> QED
        BY <2>6, <4>1 DEF QuietInv
    <3>3. HeldInv' /\ (failures \cap EarlyExits = {} => QuietInv')
      BY <1>0, <2>2, <2>3, <2>6, <3>1, <3>2, QuietMove
    <3> QED
      BY <2>3, <3>3 DEF QuietInv
  <2>7. CASE checkWork(t) \/ noMoreRequests(t)
    BY <2>4, <2>7 DEF checkWork, noMoreRequests, Bursting, Working
  <2>8. CASE dequeueRequest(t)
    <3>1. /\ pc[t] = "dequeue" /\ held' = held + 1
          /\ \/ pc' = [pc EXCEPT ![t] = "restart"]
             \/ "setCurrentRequest" \in failures /\ pc' = [pc EXCEPT ![t] = "quit"]
      BY <2>8 DEF dequeueRequest
    <3>2. CASE pc' = [pc EXCEPT ![t] = "restart"]
      <4>1. pc'[t] = "restart" /\ \A u \in Threads : pc[u] \notin Working
        BY <1>0, <2>2, <3>1, <3>2 DEF ControlType, Working
      <4>2. failures \cap EarlyExits = {} => held = 0
        BY <4>1 DEF QuietInv
      <4>3. \E u \in Threads : pc'[u] \in Bursting /\ pc'[u] \in Working
        BY <4>1 DEF Bursting, Working
      <4>4. HeldInv'
        BY <3>1 DEF HeldInv
      <4> QED
        BY <2>3, <3>1, <4>2, <4>3, <4>4 DEF QuietInv
    <3>3. CASE "setCurrentRequest" \in failures /\ pc' = [pc EXCEPT ![t] = "quit"]
      BY <2>5, <3>1, <3>3 DEF EarlyExits
    <3> QED
      BY <3>1, <3>2, <3>3
  <2>9. CASE stopInvalid(t)
    BY <2>4, <2>9 DEF stopInvalid, Working
  <2>10. CASE metadataFails(t)
    BY <2>5, <2>10 DEF metadataFails, EarlyExits
  <2>11. ASSUME NEW id \in StreamIds, startStream(t, id) PROVE QuietInv' /\ HeldInv'
    <3>1. /\ pc[t] = "start" /\ held' = held
          /\ \/ pc' = pc
             \/ "start" \in failures /\ pc' = [pc EXCEPT ![t] = "quit"]
      BY <2>11 DEF startStream
    <3>2. CASE pc' = pc
      <4>1. pc' = [pc EXCEPT ![t] = "start"]
        BY <1>0, <3>1, <3>2 DEF ControlType
      <4> QED
        BY <2>4, <3>1, <4>1 DEF Working
    <3>3. CASE "start" \in failures /\ pc' = [pc EXCEPT ![t] = "quit"]
      BY <2>5, <3>1, <3>3 DEF EarlyExits
    <3> QED
      BY <3>1, <3>2, <3>3
  <2>12. ASSUME NEW id \in StreamIds, configureFails(t, id) PROVE QuietInv' /\ HeldInv'
    BY <2>5, <2>12 DEF configureFails, EarlyExits
  <2>13. ASSUME NEW id \in StreamIds, streamResponds(t, id) PROVE QuietInv' /\ HeldInv'
    <3>1. pc[t] = "respond" /\ pc' = [pc EXCEPT ![t] = "respond"] /\ held' = held
      BY <1>0, <2>13 DEF streamResponds, ControlType
    <3> QED
      BY <2>4, <3>1 DEF Working
  <2>14. CASE allStarted(t) \/ allResponded(t)
    BY <2>4, <2>14 DEF allStarted, allResponded, Working
  <2>15. CASE freeRequest(t)
    <3>1. /\ pc[t] = "free" /\ held' = held - 1
          /\ pc' = [pc EXCEPT ![t] = "loop"]
      BY <2>15 DEF freeRequest
    <3>2. held > 0 /\ (failures \cap EarlyExits = {} => held = 1)
      BY <3>1 DEF HeldInv, QuietInv, Working
    <3>3. pc'[t] = "loop" /\ \A u \in Threads : pc'[u] \notin Working
      BY <1>0, <2>2, <3>1 DEF ControlType, Working
    <3>4. \E u \in Threads : pc'[u] \in Bursting
      BY <3>3 DEF Bursting
    <3>5. held' \in Nat
      BY <3>1, <3>2 DEF HeldInv
    <3> QED
      BY <2>3, <3>1, <3>2, <3>3, <3>4, <3>5 DEF HeldInv, QuietInv
  <2>16. CASE stopAllStreams(t)
    <3>1. mPrepared' = {}
      BY <2>16, SetupChanges DEF stopAllStreams, RequestInv, SetupInv
    <3> QED
      BY <2>6, <2>16, <3>1 DEF stopAllStreams, Bursting, Working
  <2>17. CASE quit(t) \/ postThreadExit(t)
    BY <2>6, <2>17 DEF quit, postThreadExit, Bursting, Working
  <2> QED
    BY <1>8, <2>7, <2>8, <2>9, <2>10, <2>11, <2>12, <2>13, <2>14, <2>15, <2>16, <2>17 DEF handle
<1>9. CASE StreamThreads
  <2>1. UNCHANGED <<pc, held, failures, mPrepared>>
    BY <1>9, ThreadsKeepSetup DEF setupVars, otherVars
  <2> QED
    BY <1>1, <2>1
<1>10. CASE UNCHANGED vars
  BY <1>1, <1>10 DEF vars
<1> QED
  BY <1>2, <1>3, <1>4, <1>5, <1>6, <1>7, <1>8, <1>9, <1>10
     DEF Next, framework, dispatch, StreamThreads

\* They are invariants.
LEMMA HeldHolds == Spec => [](QuietInv /\ HeldInv)
<1>1. Init => QuietInv /\ HeldInv
  <2> SUFFICES ASSUME Init PROVE QuietInv /\ HeldInv
    OBVIOUS
  <2>1. \A t \in Threads : pc[t] = "dead"
    BY DEF Init
  <2>2. held = 0 /\ mPrepared = {}
    BY DEF Init, StreamsInit
  <2> QED
    BY <2>1, <2>2 DEF QuietInv, HeldInv, Working
<1>2. Control /\ StreamInv /\ RequestInv /\ QuietInv /\ HeldInv /\ [Next]_vars
        => QuietInv' /\ HeldInv'
  BY QuietStep
<1> QED
  BY <1>1, <1>2, RequestsSound, PTL DEF Spec

\* Whenever the framework finds the HAL drained, and no request was given up
\* before its streams ran, everything is stopped and every request was freed:
\* the framework may take its buffers back.
THEOREM IdleAlwaysQuiet == Spec => []IdleIsQuiet
<1>1. Control /\ StreamInv /\ QuietInv => IdleIsQuiet
  <2> SUFFICES ASSUME Control, StreamInv, QuietInv, Drained, failures \subseteq {"device", "process"}
               PROVE  /\ mPrepared = {} /\ mStarted = {}
                      /\ ~mPreviewing /\ ~mImageCapture
                      /\ mDeviceThread = "null"
                      /\ held = 0
    BY DEF IdleIsQuiet
  <2>1. failures \cap EarlyExits = {}
    BY DEF EarlyExits
  <2>2. \A t \in Threads : pc[t] \notin Bursting /\ pc[t] \notin Working
    BY DrainedMeansDone DEF Bursting, Working
  <2>3. mPrepared = {} /\ held = 0
    BY <2>1, <2>2 DEF QuietInv
  <2> QED
    BY <2>3 DEF StreamInv, DeviceInv
<1> QED
  BY <1>1, RequestsSound, HeldHolds, PTL

-----------------------------------------------------------------------------
(* The order of requests *)

\* Phases of a handler that will look at the queue again.
Serving == {"created", "loop", "dequeue"} \cup Working

\* Whoever acts on the notification the framework owed: the thread that
\* notifies, then the handler.
Bearers == {f \in Callers : caller[f] \in {"notify", "create"}}
             \cup {t \in Threads : pc[t] \in Serving}

\* The notification is there once at most.
TokenInv == /\ \A x, y \in Bearers : x = y
            /\ Bearers # {} => ~signalConsumer

\* A handler that left early took the notification with it: no handler will
\* follow.
Lost == Bearers = {} /\ ~signalConsumer

\* Where the notification goes in a step.
Notifies(f) == signalConsumer /\ ~signalConsumer' /\ Bearers' = {f}
Passes == Bearers # {} /\ Bearers' # {} /\ ~signalConsumer' /\ \A x, y \in Bearers' : x = y
Returns == Bearers # {} /\ Bearers' = {}
Keeps == Bearers' = Bearers /\ (signalConsumer' <=> signalConsumer)

\* A handler's step keeps the notification with it or ends its part.
LEMMA BearerMoves ==
  ASSUME ControlType, TokenInv, NEW t \in Threads, NEW p, pc' = [pc EXCEPT ![t] = p],
         UNCHANGED caller
  PROVE  /\ (p \in Serving <=> pc[t] \in Serving) => Bearers' = Bearers
         /\ pc[t] \in Serving => t \in Bearers /\ ~signalConsumer
         /\ pc[t] \in Serving /\ p \notin Serving => Bearers' = {}
<1>1. pc'[t] = p /\ \A u \in Threads : u # t => pc'[u] = pc[u]
  BY DEF ControlType
<1>2. ASSUME p \in Serving <=> pc[t] \in Serving PROVE Bearers' = Bearers
  BY <1>1, <1>2 DEF Bearers, Serving, Working
<1>3. ASSUME pc[t] \in Serving PROVE t \in Bearers /\ ~signalConsumer
  BY <1>3 DEF Bearers, TokenInv
<1>4. ASSUME pc[t] \in Serving, p \notin Serving PROVE Bearers' = {}
  <2>1. Bearers = {t}
    BY <1>3, <1>4 DEF TokenInv
  <2>2. \A f \in Callers : caller[f] \notin {"notify", "create"}
    <3> SUFFICES ASSUME NEW f \in Callers, caller[f] \in {"notify", "create"} PROVE FALSE
      OBVIOUS
    <3>1. f \in Bearers
      BY DEF Bearers
    <3> QED
      BY <2>1, <3>1, RequestAssumption
  <2>3. \A u \in Threads : u # t => pc[u] \notin Serving
    BY <2>1 DEF Bearers
  <2> QED
    BY <1>1, <1>4, <2>2, <2>3 DEF Bearers
<1> QED
  BY <1>2, <1>3, <1>4

\* What a step does with the notification.
LEMMA TokenSteps ==
  ASSUME Control, TokenInv, [Next]_vars
  PROVE  \/ Keeps
         \/ \E f \in Callers : Notifies(f)
         \/ \E f \in Callers, t \in Threads : createThread(f, t) /\ Passes
         \/ \E t \in Threads : handle(t) /\ Returns
<1> USE DEF managerVars, frameworkVars, Control, ControlType, Keeps
<1>1. ASSUME UNCHANGED <<pc, caller, signalConsumer>> PROVE Keeps
  BY <1>1 DEF Bearers
<1>2. ASSUME NEW f \in Callers, NEW k \in Kinds, enqueue(f, k) PROVE Keeps \/ Notifies(f)
  <2>1. CASE signalConsumer
    <3>1. Bearers = {}
      BY <2>1 DEF TokenInv
    <3>2. Bearers' = {f}
      BY <1>2, <2>1, <3>1 DEF enqueue, Bearers
    <3> QED
      BY <1>2, <2>1, <3>2 DEF enqueue, Notifies
  <2>2. CASE ~signalConsumer
    BY <1>2, <2>2 DEF enqueue, Bearers
  <2> QED
    BY <2>1, <2>2
<1>3. ASSUME NEW format, allocateStream(format) PROVE Keeps
  BY <1>1, <1>3 DEF allocateStream
<1>4. ASSUME NEW id, releaseStream(id) PROVE Keeps
  BY <1>1, <1>4 DEF releaseStream
<1>5. ASSUME NEW f \in Callers, waitThreadExit(f) PROVE Keeps
  BY <1>5 DEF waitThreadExit, Bearers
<1>6. ASSUME NEW f \in Callers, NEW t \in Threads, createThread(f, t) PROVE Passes
  <2>1. f \in Bearers
    BY <1>6 DEF createThread, Bearers
  <2>2. Bearers = {f}
    BY <2>1 DEF TokenInv
  <2>3. f \notin Threads
    BY RequestAssumption
  <2>4. \A u \in Threads : pc[u] \notin Serving
    BY <2>2, <2>3 DEF Bearers
  <2>5. \A g \in Callers : g # f => caller[g] \notin {"notify", "create"}
    BY <2>2 DEF Bearers
  <2>6. Bearers' = {t}
    BY <1>6, <2>4, <2>5, RequestAssumption DEF createThread, Bearers, Serving
  <2>7. ~signalConsumer /\ signalConsumer' = signalConsumer
    BY <1>6, <2>1 DEF createThread, TokenInv
  <2> QED
    BY <2>1, <2>6, <2>7 DEF Passes
<1>7. ASSUME NEW f \in Callers, NEW t \in Threads, runThread(f, t) PROVE Keeps
  <2>1. /\ pc[t] = "created" /\ pc' = [pc EXCEPT ![t] = "loop"]
        /\ caller[f] = "run" /\ caller' = [caller EXCEPT ![f] = "idle"]
        /\ signalConsumer' = signalConsumer
    BY <1>7 DEF runThread
  <2> QED
    BY <2>1 DEF Bearers, Serving
<1>8. ASSUME NEW t \in Threads, handle(t) PROVE Keeps \/ Returns
  <2> USE DEF goto
  <2>1. ASSUME NEW p, pc' = [pc EXCEPT ![t] = p], UNCHANGED <<caller, signalConsumer>>,
               p \notin Serving \/ pc[t] \in Serving
        PROVE  Keeps \/ Returns
    <3>1. CASE p \in Serving <=> pc[t] \in Serving
      BY <2>1, <3>1, BearerMoves
    <3>2. CASE pc[t] \in Serving /\ p \notin Serving
      BY <2>1, <3>2, BearerMoves DEF Returns
    <3> QED
      BY <2>1, <3>1, <3>2
  <2>2. CASE checkWork(t)
    <3>1. \E p : pc' = [pc EXCEPT ![t] = p]
      BY <2>2 DEF checkWork
    <3> QED
      BY <2>1, <2>2, <3>1 DEF checkWork, Serving
  <2>3. CASE noMoreRequests(t)
    <3>1. pc[t] = "dequeue" /\ pc' = [pc EXCEPT ![t] = "stop"] /\ caller' = caller
      BY <2>3 DEF noMoreRequests
    <3>2. pc[t] \in Serving /\ "stop" \notin Serving
      BY <3>1 DEF Serving, Working
    <3> QED
      BY <3>1, <3>2, BearerMoves DEF Returns
  <2>4. CASE dequeueRequest(t)
    BY <2>1, <2>4 DEF dequeueRequest, Serving
  <2>5. CASE \/ stopInvalid(t) \/ metadataFails(t) \/ allStarted(t) \/ allResponded(t)
             \/ freeRequest(t)
    BY <2>1, <2>5 DEF stopInvalid, metadataFails, allStarted, allResponded, freeRequest,
                      Serving, Working
  <2>6. ASSUME NEW id \in StreamIds, startStream(t, id) PROVE Keeps \/ Returns
    <3>1. /\ pc[t] = "start" /\ UNCHANGED <<caller, signalConsumer>>
          /\ pc' = pc \/ pc' = [pc EXCEPT ![t] = "quit"]
      BY <2>6 DEF startStream
    <3> QED
      BY <1>1, <2>1, <3>1 DEF Serving, Working
  <2>7. ASSUME NEW id \in StreamIds, configureFails(t, id) PROVE Keeps \/ Returns
    BY <2>1, <2>7 DEF configureFails, Serving, Working
  <2>8. ASSUME NEW id \in StreamIds, streamResponds(t, id) PROVE Keeps
    BY <1>1, <2>8 DEF streamResponds
  <2>9. CASE stopAllStreams(t) \/ quit(t) \/ postThreadExit(t)
    BY <2>1, <2>9 DEF stopAllStreams, quit, postThreadExit, Serving, Working
  <2> QED
    BY <1>8, <2>2, <2>3, <2>4, <2>5, <2>6, <2>7, <2>8, <2>9 DEF handle
<1>9. CASE StreamThreads
  BY <1>1, <1>9 DEF StreamThreads, deviceFrame, deviceError, jpeg, jpegTakes, jpegFinishes,
                    jpegReports, jpegTimeout, otherVars
<1>10. CASE UNCHANGED vars
  BY <1>1, <1>10 DEF vars
<1> QED
  BY <1>2, <1>3, <1>4, <1>5, <1>6, <1>7, <1>8, <1>9, <1>10
     DEF Next, framework, dispatch, StreamThreads

\* There is one notification, and once it is lost it stays lost.
LEMMA TokenStep ==
  ASSUME Control, TokenInv, [Next]_vars
  PROVE  TokenInv' /\ (Lost => Lost')
<1>1. CASE Keeps
  BY <1>1 DEF Keeps, TokenInv, Lost
<1>2. ASSUME NEW f \in Callers, Notifies(f) PROVE TokenInv' /\ ~Lost
  BY <1>2 DEF Notifies, TokenInv, Lost
<1>3. CASE Passes
  BY <1>3 DEF Passes, TokenInv, Lost
<1>4. CASE Returns
  BY <1>4 DEF Returns, TokenInv, Lost
<1> QED
  BY <1>1, <1>2, <1>3, <1>4, TokenSteps

\* It is an invariant.
LEMMA TokenHolds == Spec => []TokenInv
<1>1. Init => TokenInv
  BY DEF Init, TokenInv, Bearers, Serving, Working
<1>2. Control /\ TokenInv /\ [Next]_vars => TokenInv'
  BY TokenStep
<1> QED
  BY <1>1, <1>2, ControlHolds, PTL DEF Spec

\* Neighbours in the queue, its last request and the one submitted last, and the
\* request at hand and the next one follow one another as the framework may
\* submit them.
Ordered(q, l) == /\ \A i \in 1..(Len(q) - 1) : <<q[i], q[i + 1]>> \in Follows
                 /\ q # <<>> => l = q[Len(q)]
Precedes(k, q, l) == IF q = <<>> THEN l = k ELSE <<k, Head(q)>> \in Follows
ChainInv == /\ Ordered(queue, last)
            /\ \A t \in Threads : pc[t] \in Working => Precedes(request[t], queue, last)

\* A request that is added or taken.
LEMMA QueueGrows ==
  ASSUME NEW q \in Seq(Kinds), NEW l, NEW k \in Kinds, <<l, k>> \in Follows, Ordered(q, l)
  PROVE  /\ Ordered(Append(q, k), k)
         /\ \A x : Precedes(x, q, l) => Precedes(x, Append(q, k), k)
<1> DEFINE r == Append(q, k)
<1>1. /\ Len(r) = Len(q) + 1 /\ Len(q) \in Nat
      /\ \A i \in 1..Len(q) : r[i] = q[i]
      /\ r[Len(q) + 1] = k
      /\ r # <<>>
      /\ Head(r) = IF q = <<>> THEN k ELSE Head(q)
  OBVIOUS
<1> HIDE DEF r
<1>2. \A i \in 1..(Len(r) - 1) : <<r[i], r[i + 1]>> \in Follows
  <2> SUFFICES ASSUME NEW i \in 1..Len(q) PROVE <<r[i], r[i + 1]>> \in Follows
    BY <1>1
  <2>1. CASE i = Len(q)
    <3>1. q # <<>>
      BY <2>1
    <3> QED
      BY <1>1, <2>1, <3>1 DEF Ordered
  <2>2. CASE i # Len(q)
    <3>1. i \in 1..(Len(q) - 1) /\ i + 1 \in 1..Len(q)
      BY <1>1, <2>2
    <3> QED
      BY <1>1, <3>1 DEF Ordered
  <2> QED
    BY <2>1, <2>2
<1>3. Ordered(r, k)
  BY <1>1, <1>2 DEF Ordered
<1>4. \A x : Precedes(x, q, l) => Precedes(x, r, k)
  BY <1>1 DEF Precedes
<1> QED
  BY <1>3, <1>4 DEF r

\* The oldest request is taken.
LEMMA QueueShrinks ==
  ASSUME NEW q \in Seq(Kinds), NEW l, q # <<>>, Ordered(q, l)
  PROVE  Ordered(Tail(q), l) /\ Precedes(Head(q), Tail(q), l)
<1> DEFINE r == Tail(q)
<1>1. /\ Len(r) = Len(q) - 1 /\ Len(q) \in Nat /\ Len(q) > 0
      /\ \A i \in 1..(Len(q) - 1) : r[i] = q[i + 1]
      /\ Head(q) = q[1]
      /\ r \in Seq(Kinds)
  OBVIOUS
<1> HIDE DEF r
<1>2. r = <<>> <=> Len(q) = 1
  BY <1>1
<1>3. r # <<>> => Head(r) = q[2] /\ 1 \in 1..(Len(q) - 1)
  BY <1>1, <1>2
<1>4. CASE r = <<>>
  <2>1. Len(r) = 0 /\ l = q[1]
    BY <1>1, <1>2, <1>4 DEF Ordered
  <2>2. 1..(Len(r) - 1) = {}
    BY <2>1
  <2> QED
    BY <1>1, <1>4, <2>1, <2>2 DEF Ordered, Precedes, r
<1>5. CASE r # <<>>
  <2>1. <<q[1], q[1 + 1]>> \in Follows
    BY <1>3, <1>5 DEF Ordered
  <2>2. Precedes(Head(q), r, l)
    BY <1>1, <1>3, <1>5, <2>1 DEF Precedes
  <2>3. ASSUME NEW i \in 1..(Len(r) - 1) PROVE <<r[i], r[i + 1]>> \in Follows
    <3>1. i \in 1..(Len(q) - 1) /\ i + 1 \in 1..(Len(q) - 1)
      BY <1>1, <2>3
    <3> QED
      BY <1>1, <3>1 DEF Ordered
  <2>4. l = r[Len(r)]
    <3>1. Len(r) \in 1..(Len(q) - 1) /\ Len(r) + 1 = Len(q)
      BY <1>1, <1>2, <1>5
    <3> QED
      BY <1>1, <3>1 DEF Ordered
  <2> QED
    BY <2>2, <2>3, <2>4 DEF Ordered, r
<1> QED
  BY <1>4, <1>5

\* Every step keeps the order.
LEMMA ChainStep ==
  ASSUME Control, RequestInv, ChainInv, [Next]_vars
  PROVE  ChainInv'
<1> USE DEF managerVars, frameworkVars, Control, ControlType, RequestInv, RequestType
<1>1. ASSUME UNCHANGED <<queue, last, request>>,
             \A t \in Threads : pc'[t] \in Working => pc[t] \in Working
      PROVE  ChainInv'
  BY <1>1 DEF ChainInv
<1>2. ASSUME NEW f \in Callers, NEW k \in Kinds, enqueue(f, k) PROVE ChainInv'
  <2>1. /\ queue' = Append(queue, k) /\ last' = k /\ <<last, k>> \in Follows
        /\ UNCHANGED <<pc, request>>
    BY <1>2 DEF enqueue
  <2>2. /\ Ordered(queue', last')
        /\ \A x : Precedes(x, queue, last) => Precedes(x, queue', last')
    BY <2>1, QueueGrows DEF ChainInv
  <2> QED
    BY <2>1, <2>2 DEF ChainInv
<1>3. ASSUME NEW format, allocateStream(format) PROVE ChainInv'
  BY <1>1, <1>3 DEF allocateStream
<1>4. ASSUME NEW id, releaseStream(id) PROVE ChainInv'
  <2>1. Drained /\ UNCHANGED <<pc, queue>>
    BY <1>4 DEF releaseStream
  <2>2. queue' = <<>>
    BY <2>1 DEF Drained
  <2>3. \A t \in Threads : pc'[t] \notin Working
    BY <2>1, DrainedMeansDone DEF Working
  <2> QED
    BY <2>2, <2>3 DEF ChainInv, Ordered
<1>5. ASSUME NEW f \in Callers, dispatch(f) PROVE ChainInv'
  <2>1. UNCHANGED <<queue, last, request>>
    BY <1>5 DEF dispatch, waitThreadExit, createThread, runThread
  <2>2. \A t \in Threads : pc'[t] \in Working => pc[t] \in Working
    BY <1>5 DEF dispatch, waitThreadExit, createThread, runThread, Working
  <2> QED
    BY <1>1, <2>1, <2>2
<1>6. ASSUME NEW t \in Threads, handle(t) PROVE ChainInv'
  <2> USE DEF goto
  <2>1. ASSUME NEW p, pc' = [pc EXCEPT ![t] = p], UNCHANGED <<queue, last, request>>,
               p \in Working => pc[t] \in Working
        PROVE  ChainInv'
    BY <1>1, <2>1
  <2>2. CASE checkWork(t)
    <3>1. \E p \in {"dequeue", "stop"} : pc' = [pc EXCEPT ![t] = p]
      BY <2>2 DEF checkWork
    <3> QED
      BY <2>1, <2>2, <3>1 DEF checkWork, Working
  <2>3. CASE dequeueRequest(t)
    <3>1. /\ pc[t] = "dequeue" /\ queue # <<>> /\ queue' = Tail(queue)
          /\ request' = [request EXCEPT ![t] = Head(queue)] /\ last' = last
          /\ \/ pc' = [pc EXCEPT ![t] = "restart"]
             \/ pc' = [pc EXCEPT ![t] = "quit"]
      BY <2>3 DEF dequeueRequest
    <3>2. \A u \in Threads : u # t => pc[u] = "dead"
      BY <3>1, HandlerAlone
    <3>3. request'[t] = Head(queue) /\ \A u \in Threads : u # t => pc'[u] \notin Working
      BY <3>1, <3>2 DEF Working
    <3>4. Ordered(queue', last') /\ Precedes(Head(queue), queue', last')
      BY <3>1, QueueShrinks DEF ChainInv
    <3> QED
      BY <3>3, <3>4 DEF ChainInv
  <2>4. CASE \/ noMoreRequests(t) \/ stopInvalid(t) \/ metadataFails(t) \/ allStarted(t)
             \/ allResponded(t) \/ freeRequest(t) \/ stopAllStreams(t) \/ quit(t)
             \/ postThreadExit(t)
    BY <2>1, <2>4 DEF noMoreRequests, stopInvalid, metadataFails, allStarted, allResponded,
                      freeRequest, stopAllStreams, quit, postThreadExit, Working
  <2>5. ASSUME NEW id \in StreamIds, startStream(t, id) PROVE ChainInv'
    <3>1. /\ pc[t] = "start" /\ UNCHANGED <<queue, last, request>>
          /\ pc' = pc \/ pc' = [pc EXCEPT ![t] = "quit"]
      BY <2>5 DEF startStream
    <3> QED
      BY <1>1, <2>1, <3>1 DEF Working
  <2>6. ASSUME NEW id \in StreamIds, configureFails(t, id) PROVE ChainInv'
    BY <2>1, <2>6 DEF configureFails, Working
  <2>7. ASSUME NEW id \in StreamIds, streamResponds(t, id) PROVE ChainInv'
    BY <1>1, <2>7 DEF streamResponds
  <2> QED
    BY <1>6, <2>2, <2>3, <2>4, <2>5, <2>6, <2>7 DEF handle
<1>7. CASE StreamThreads
  BY <1>1, <1>7 DEF StreamThreads, deviceFrame, deviceError, jpeg, jpegTakes, jpegFinishes,
                    jpegReports, jpegTimeout, otherVars
<1>8. CASE UNCHANGED vars
  BY <1>1, <1>8 DEF vars
<1> QED
  BY <1>2, <1>3, <1>4, <1>5, <1>6, <1>7, <1>8 DEF Next, framework, StreamThreads

\* It is an invariant.
LEMMA ChainHolds == Spec => []ChainInv
<1>1. Init => ChainInv
  BY DEF Init, ChainInv, Ordered, Working
<1>2. Control /\ RequestInv /\ ChainInv /\ [Next]_vars => ChainInv'
  BY ChainStep
<1> QED
  BY <1>1, <1>2, RequestsSound, PTL DEF Spec

-----------------------------------------------------------------------------
(* Preview and still capture exclude each other *)

\* The framework goes from a still capture back to preview, or to another one.
StillThenPreview == <<"still", "record">> \notin Follows /\ <<"still", "snapshot">> \notin Follows

\* A still capture was the last request the handler worked on.
AfterStill(t) == \/ pc[t] \in {"loop", "dequeue"} /\ Precedes("still", queue, last)
                 \/ pc[t] = "restart" /\ <<"still", request[t]>> \in Follows
                 \/ pc[t] \in {"start", "respond", "free"} /\ request[t] = "still"
                 \/ pc[t] = "stop"

\* The device takes a picture only on behalf of a still capture, and until the
\* next request that stops it is handled.
CaptureInv == mImageCapture => Lost \/ \E t \in Threads : AfterStill(t)

\* What the menu of requests says of them.
LEMMA MenuFacts ==
  ASSUME NEW k \in Kinds
  PROVE  /\ videoSnapshot(k) <=> k = "snapshot"
         /\ "JPEG" \in Menu[k].streams => k \in {"still", "snapshot"}
         /\ isStreamValid(k, "JPEG") <=> k \notin {"preview", "callback"}
         /\ k = "still" => ~isStreamValid(k, "PREVIEW")
         /\ k \in {"preview", "callback", "record", "still", "snapshot"}
<1>1. k \in {"preview", "callback", "record", "still", "snapshot"}
  BY RequestAssumption DEF Menu
<1>2. CASE k = "preview"
  BY <1>2 DEF Menu, videoSnapshot, isStreamValid
<1>3. CASE k = "callback"
  BY <1>3 DEF Menu, videoSnapshot, isStreamValid
<1>4. CASE k = "record"
  BY <1>4 DEF Menu, videoSnapshot, isStreamValid
<1>5. CASE k = "still"
  BY <1>5 DEF Menu, videoSnapshot, isStreamValid
<1>6. CASE k = "snapshot"
  BY <1>6 DEF Menu, videoSnapshot, isStreamValid
<1> QED
  BY <1>1, <1>2, <1>3, <1>4, <1>5, <1>6

\* While the handler has the notification, a picture is taken only if it is the
\* one that came from a still capture.
LEMMA CaptureMeansStill ==
  ASSUME Control, TokenInv, CaptureInv, mImageCapture, NEW t \in Threads, pc[t] # "dead",
         pc[t] \in Serving
  PROVE  AfterStill(t)
<1>1. ~Lost
  BY DEF Lost, Bearers
<1>2. PICK u \in Threads : AfterStill(u)
  BY <1>1 DEF CaptureInv
<1>3. pc[u] # "dead"
  BY <1>2 DEF AfterStill
<1>4. u = t
  BY <1>3, HandlerAlone
<1> QED
  BY <1>2, <1>4

\* Every step keeps it.
LEMMA CaptureStep ==
  ASSUME StillThenPreview, Control, StreamInv, RequestInv, TokenInv, ChainInv,
         CaptureInv, [Next]_vars
  PROVE  CaptureInv'
<1> USE DEF managerVars, frameworkVars, streamVars
<1>0. ControlType /\ (Lost => Lost')
  BY TokenStep DEF Control
<1>1. ASSUME mImageCapture' => mImageCapture, UNCHANGED <<pc, request, queue, last>>
      PROVE  CaptureInv'
  BY <1>0, <1>1 DEF CaptureInv, AfterStill
<1>2. ASSUME NEW f \in Callers, NEW k \in Kinds, enqueue(f, k) PROVE CaptureInv'
  <2>1. /\ queue' = Append(queue, k) /\ last' = k /\ <<last, k>> \in Follows
        /\ UNCHANGED <<pc, request, mImageCapture>>
    BY <1>2 DEF enqueue
  <2>2. Precedes("still", queue, last) => Precedes("still", queue', last')
    BY <2>1, QueueGrows DEF ChainInv, RequestInv, RequestType
  <2> QED
    BY <1>0, <2>1, <2>2 DEF CaptureInv, AfterStill
<1>3. ASSUME NEW format, allocateStream(format) PROVE CaptureInv'
  BY <1>1, <1>3, NewStreamKeeps DEF allocateStream
<1>4. ASSUME NEW id, releaseStream(id) PROVE CaptureInv'
  <2>1. Drained /\ (mImageCapture' => mImageCapture)
    BY <1>4 DEF releaseStream, stopStreams
  <2>2. \A t \in Threads : ~AfterStill(t)
    BY <2>1, DrainedMeansDone DEF AfterStill
  <2> QED
    BY <1>0, <2>1, <2>2 DEF CaptureInv
<1>5. ASSUME NEW f \in Callers, dispatch(f) PROVE CaptureInv'
  <2>1. mImageCapture' = mImageCapture
    BY <1>5 DEF dispatch, waitThreadExit, createThread, runThread
  <2>2. CASE waitThreadExit(f)
    BY <1>1, <2>1, <2>2 DEF waitThreadExit
  <2>3. ASSUME NEW t \in Threads, createThread(f, t) PROVE ~mImageCapture
    <3>1. f \in Bearers
      BY <2>3 DEF createThread, Bearers
    <3>2. \A u \in Threads : pc[u] = "dead"
      BY <2>3, HandlerAlone DEF createThread
    <3> QED
      BY <3>1, <3>2 DEF CaptureInv, Lost, AfterStill
  <2>4. ASSUME NEW t \in Threads, runThread(f, t) PROVE ~mImageCapture
    <3>1. pc[t] = "created" /\ pc[t] \in Serving
      BY <2>4 DEF runThread, Serving
    <3>2. ~AfterStill(t)
      BY <3>1 DEF AfterStill
    <3> QED
      BY <3>1, <3>2, CaptureMeansStill
  <2> QED
    BY <1>5, <2>1, <2>2, <2>3, <2>4 DEF dispatch, CaptureInv
<1>6. ASSUME NEW t \in Threads, handle(t) PROVE CaptureInv'
  <2> USE DEF goto
  \* The handler moves on as one that worked on a still capture.
  <2>1. ASSUME AfterStill(t) => AfterStill(t)', pc[t] \in Serving, mImageCapture' => mImageCapture
        PROVE  CaptureInv'
    <3>1. pc[t] # "dead"
      BY <2>1 DEF Serving, Working
    <3> QED
      BY <2>1, <3>1, CaptureMeansStill DEF CaptureInv
  \* It leaves early, with the notification.
  <2>2. ASSUME pc' = [pc EXCEPT ![t] = "quit"], UNCHANGED <<caller, signalConsumer>>,
               pc[t] \in Serving
        PROVE  CaptureInv'
    <3>1. "quit" \notin Serving
      BY DEF Serving, Working
    <3>2. Bearers' = {} /\ ~signalConsumer'
      BY <1>0, <2>2, <3>1, BearerMoves
    <3> QED
      BY <3>2 DEF CaptureInv, Lost
  <2>3. CASE checkWork(t)
    <3>1. /\ pc[t] = "loop" /\ UNCHANGED <<queue, last, mImageCapture>>
          /\ \E p \in {"dequeue", "stop"} : pc' = [pc EXCEPT ![t] = p]
      BY <2>3 DEF checkWork
    <3>2. pc'[t] \in {"dequeue", "stop"}
      BY <1>0, <3>1 DEF ControlType
    <3> QED
      BY <2>1, <3>1, <3>2 DEF AfterStill, Serving
  <2>4. CASE noMoreRequests(t)
    <3>1. pc[t] = "dequeue" /\ pc' = [pc EXCEPT ![t] = "stop"] /\ mImageCapture' = mImageCapture
      BY <2>4 DEF noMoreRequests
    <3>2. AfterStill(t)'
      BY <1>0, <3>1 DEF ControlType, AfterStill
    <3> QED
      BY <3>2 DEF CaptureInv
  <2>5. CASE dequeueRequest(t)
    <3>1. /\ pc[t] = "dequeue" /\ queue # <<>>
          /\ request' = [request EXCEPT ![t] = Head(queue)]
          /\ UNCHANGED <<caller, signalConsumer, mImageCapture>>
          /\ \/ pc' = [pc EXCEPT ![t] = "restart"]
             \/ pc' = [pc EXCEPT ![t] = "quit"]
      BY <2>5 DEF dequeueRequest
    <3>2. CASE pc' = [pc EXCEPT ![t] = "restart"]
      <4>1. pc'[t] = "restart" /\ request'[t] = Head(queue)
        BY <1>0, <3>1, <3>2 DEF ControlType, RequestInv, RequestType
      <4>2. AfterStill(t) => AfterStill(t)'
        BY <3>1, <4>1 DEF AfterStill, Precedes
      <4> QED
        BY <2>1, <3>1, <4>2 DEF Serving
    <3>3. CASE pc' = [pc EXCEPT ![t] = "quit"]
      BY <2>2, <3>1, <3>3 DEF Serving
    <3> QED
      BY <3>1, <3>2, <3>3
  <2>6. CASE stopInvalid(t)
    <3> DEFINE k == request[t]
               S == {id \in mStreamAdapter \cap mPrepared : ~isStreamValid(k, id)}
    <3>1. /\ pc[t] = "restart" /\ pc' = [pc EXCEPT ![t] = "start"]
          /\ stopStreams(S) /\ request' = request
      BY <2>6 DEF stopInvalid
    <3>2. k \in Kinds
      BY <3>1 DEF RequestInv, SetupInv, Working
    <3>3. mImageCapture' => mImageCapture
      BY <3>1 DEF stopStreams
    <3>4. ASSUME AfterStill(t), mImageCapture PROVE k = "still" \/ ~mImageCapture'
      <4>1. k = "still" \/ ~isStreamValid(k, "JPEG")
        BY <3>1, <3>2, <3>4, MenuFacts DEF AfterStill, StillThenPreview
      <4>2. "JPEG" \in mStarted /\ "JPEG" \in mPrepared /\ ~mVideoSnapShot
            /\ "JPEG" \in mStreamAdapter
        BY <3>4 DEF StreamInv, DeviceInv, RequestInv, SetupInv
      <4> QED
        BY <3>1, <4>1, <4>2 DEF stopStreams
    <3>5. pc'[t] = "start"
      BY <1>0, <3>1 DEF ControlType
    <3>6. mImageCapture => AfterStill(t)
      BY <3>1, CaptureMeansStill DEF Serving, Working
    <3> QED
      BY <3>1, <3>3, <3>4, <3>5, <3>6 DEF CaptureInv, AfterStill
  <2>7. CASE metadataFails(t)
    BY <2>2, <2>7 DEF metadataFails, Serving, Working
  <2>8. ASSUME NEW id \in StreamIds, startStream(t, id) PROVE CaptureInv'
    <3>1. /\ pc[t] = "start" /\ pc[t] \in Serving /\ id \in todo[t]
          /\ UNCHANGED <<caller, signalConsumer, request>>
          /\ \E ok \in BOOLEAN : bringUp(id, videoSnapshot(request[t]), ok)
          /\ pc' = pc \/ pc' = [pc EXCEPT ![t] = "quit"]
      BY <2>8 DEF startStream, Serving, Working
    <3>2. CASE pc' = pc
      <4>1. request[t] \in Kinds /\ id \in Active(request[t])
        BY <3>1 DEF RequestInv, SetupInv, Working
      <4>2. ASSUME mImageCapture', ~mImageCapture PROVE request[t] = "still"
        <5>1. id = "JPEG" /\ id \notin mStarted /\ ~snapAfter(id, videoSnapshot(request[t]))
          BY <3>1, <4>2 DEF bringUp, Drives
        <5>2. ~videoSnapshot(request[t])
          BY <5>1 DEF snapAfter, StreamInv, DeviceInv
        <5> QED
          BY <4>1, <5>1, <5>2, MenuFacts DEF Active
      <4>3. mImageCapture => request[t] = "still"
        BY <3>1, CaptureMeansStill DEF AfterStill
      <4> QED
        BY <3>1, <3>2, <4>2, <4>3 DEF CaptureInv, AfterStill
    <3>3. CASE pc' = [pc EXCEPT ![t] = "quit"]
      BY <2>2, <3>1, <3>3
    <3> QED
      BY <3>1, <3>2, <3>3
  <2>9. ASSUME NEW id \in StreamIds, configureFails(t, id) PROVE CaptureInv'
    BY <2>2, <2>9 DEF configureFails, Serving, Working
  <2>10. ASSUME NEW id \in StreamIds, streamResponds(t, id) PROVE CaptureInv'
    BY <1>1, <2>10, SetupChanges DEF streamResponds, deviceVars
  <2>11. CASE allStarted(t) \/ allResponded(t)
    <3>1. /\ pc[t] \in {"start", "respond"} /\ pc[t] \in Serving
          /\ \E p \in {"respond", "free"} : pc' = [pc EXCEPT ![t] = p]
          /\ UNCHANGED <<request, mImageCapture>>
      BY <2>11 DEF allStarted, allResponded, Serving, Working
    <3>2. pc'[t] \in {"respond", "free"}
      BY <1>0, <3>1 DEF ControlType
    <3> QED
      BY <2>1, <3>1, <3>2 DEF AfterStill
  <2>12. CASE freeRequest(t)
    <3>1. /\ pc[t] = "free" /\ pc[t] \in Serving /\ pc' = [pc EXCEPT ![t] = "loop"]
          /\ UNCHANGED <<queue, last, mImageCapture>>
      BY <2>12 DEF freeRequest, Serving, Working
    <3>2. pc'[t] = "loop" /\ Precedes(request[t], queue, last)
      BY <1>0, <3>1 DEF ControlType, ChainInv, Working
    <3> QED
      BY <2>1, <3>1, <3>2 DEF AfterStill
  <2>13. CASE stopAllStreams(t)
    <3>1. mPrepared' = {}
      BY <2>13, SetupChanges DEF stopAllStreams, RequestInv, SetupInv
    <3>2. StreamInv'
      BY StreamInvStep
    <3> QED
      BY <3>1, <3>2 DEF StreamInv, DeviceInv, CaptureInv
  <2>14. CASE quit(t) \/ postThreadExit(t)
    <3>1. /\ pc[t] \in {"quit", "post"} /\ UNCHANGED mImageCapture
      BY <2>14 DEF quit, postThreadExit
    <3>2. \A u \in Threads : ~AfterStill(u)
      BY <3>1, HandlerAlone DEF AfterStill
    <3> QED
      BY <1>0, <3>1, <3>2 DEF CaptureInv
  <2> QED
    BY <1>6, <2>3, <2>4, <2>5, <2>6, <2>7, <2>8, <2>9, <2>10, <2>11, <2>12, <2>13, <2>14 DEF handle
<1>7. CASE StreamThreads
  BY <1>1, <1>7, ThreadsKeepSetup DEF otherVars
<1>8. CASE UNCHANGED vars
  BY <1>1, <1>8 DEF vars
<1> QED
  BY <1>2, <1>3, <1>4, <1>5, <1>6, <1>7, <1>8 DEF Next, framework, StreamThreads

\* The two modes are entered by startStream only.
LEMMA ModesStep ==
  ASSUME Control, StreamInv, RequestInv, TokenInv, CaptureInv, ModesExclusive, [Next]_vars
  PROVE  ModesExclusive'
<1> USE DEF ModesExclusive
<1>1. ASSUME NEW t \in Threads, NEW id \in StreamIds, startStream(t, id) PROVE ModesExclusive'
  <2>1. /\ pc[t] = "start" /\ id \in todo[t]
        /\ \E ok \in BOOLEAN : bringUp(id, videoSnapshot(request[t]), ok)
    BY <1>1 DEF startStream
  <2>2. /\ request[t] \in Kinds /\ id \in Active(request[t])
        /\ isStreamValid(request[t], id)
        /\ \A x \in mPrepared : isStreamValid(request[t], x)
    BY <2>1, ActiveValid DEF RequestInv, SetupInv, Working
  <2>3. CASE id = "PREVIEW"
    <3>1. request[t] # "still"
      BY <2>2, <2>3, MenuFacts
    <3>2. ~mImageCapture
      BY <2>1, <3>1, CaptureMeansStill DEF AfterStill, Serving, Working
    <3>3. mImageCapture' = mImageCapture
      BY <2>1, <2>3, <3>2 DEF bringUp, StreamInv, StreamsTypeOK
    <3> QED
      BY <3>2, <3>3
  <2>4. ASSUME id = "JPEG", mImageCapture', ~mImageCapture PROVE ~mPreviewing'
    <3>1. id \notin mStarted /\ ~snapAfter(id, videoSnapshot(request[t]))
      BY <2>1, <2>4 DEF bringUp, Drives
    <3>2. ~videoSnapshot(request[t])
      BY <2>4, <3>1 DEF snapAfter, StreamInv, DeviceInv
    <3>3. request[t] = "still"
      BY <2>2, <2>4, <3>2, MenuFacts DEF Active
    <3>4. "PREVIEW" \notin mPrepared
      BY <2>2, <3>3, MenuFacts
    <3>5. ~mPreviewing
      BY <3>4 DEF StreamInv, DeviceInv
    <3> QED
      BY <2>1, <2>4, <3>5 DEF bringUp
  <2>5. (id # "PREVIEW" => (mPreviewing' => mPreviewing))
          /\ (id # "JPEG" => (mImageCapture' => mImageCapture))
    BY <2>1 DEF bringUp
  <2> QED
    BY <2>3, <2>4, <2>5
<1>2. ASSUME NEW S, stopStreams(S) PROVE ModesExclusive'
  BY <1>2 DEF stopStreams
<1>3. CASE StreamThreads
  BY <1>3, ThreadsKeepSetup
<1>4. ASSUME NEW id, applyRequest(id) PROVE ModesExclusive'
  BY <1>4, SetupChanges DEF deviceVars
<1>5. CASE UNCHANGED streamVars
  BY <1>5 DEF streamVars
<1>6. ASSUME NEW id, newStream(id) PROVE ModesExclusive'
  BY <1>6, NewStreamKeeps
<1> QED
  BY <1>1, <1>2, <1>3, <1>4, <1>5, <1>6, StreamSteps

\* The two invariants, together.
LEMMA ModesHold ==
  ASSUME StillThenPreview
  PROVE  Spec => [](CaptureInv /\ ModesExclusive)
<1>1. Init => CaptureInv /\ ModesExclusive
  BY DEF Init, StreamsInit, CaptureInv, ModesExclusive
<1>2. Control /\ StreamInv /\ RequestInv /\ TokenInv /\ ChainInv /\ CaptureInv
        /\ ModesExclusive /\ [Next]_vars => CaptureInv' /\ ModesExclusive'
  BY CaptureStep, ModesStep
<1> QED
  BY <1>1, <1>2, RequestsSound, TokenHolds, ChainHolds, PTL DEF Spec

\* Preview and still capture never have the device together, whatever fails and
\* whatever is submitted in whatever order, except that no recording and no
\* snapshot is asked for directly after a still capture.
THEOREM ModesAlwaysExclusive ==
  ASSUME StillThenPreview
  PROVE  Spec => []ModesExclusive
BY ModesHold, PTL

\* With the modes exclusive, a stop that ends one mode ends the only user of the
\* device thread.
LEMMA DeviceThreadStep ==
  ASSUME StreamInv, ModesExclusive, DeviceHasThread, [Next]_vars
  PROVE  DeviceHasThread'
<1>0. failures' = failures
  BY DEF Next, framework, enqueue, allocateStream, releaseStream, dispatch, waitThreadExit,
         createThread, runThread, handle, checkWork, noMoreRequests, dequeueRequest,
         stopInvalid, metadataFails, startStream, configureFails, streamResponds, allStarted,
         allResponded, freeRequest, stopAllStreams, quit, postThreadExit, deviceFrame,
         deviceError, jpeg, jpegTakes, jpegFinishes, jpegReports, jpegTimeout, otherVars, vars
<1> USE DEF DeviceHasThread, ModesExclusive
<1>1. ASSUME NEW t \in Threads, NEW id \in StreamIds, startStream(t, id) PROVE DeviceHasThread'
  <2>1. PICK snap \in BOOLEAN, ok \in BOOLEAN : bringUp(id, snap, ok) /\ (ok \/ "start" \in failures)
    BY <1>1, StartBringsUp
  <2> QED
    BY <1>0, <2>1 DEF bringUp
<1>2. ASSUME NEW S, stopStreams(S) PROVE DeviceHasThread'
  BY <1>0, <1>2 DEF stopStreams
<1>3. CASE StreamThreads
  BY <1>0, <1>3, ThreadsKeepSetup
<1>4. ASSUME NEW id, applyRequest(id) PROVE DeviceHasThread'
  BY <1>0, <1>4, SetupChanges DEF deviceVars
<1>5. CASE UNCHANGED streamVars
  BY <1>0, <1>5 DEF streamVars
<1>6. ASSUME NEW id, newStream(id) PROVE DeviceHasThread'
  BY <1>0, <1>6, NewStreamKeeps
<1> QED
  BY <1>1, <1>2, <1>3, <1>4, <1>5, <1>6, StreamSteps

\* As long as STREAMON does not fail, stopDeviceLocked finds a thread to join.
THEOREM DeviceAlwaysHasThread ==
  ASSUME StillThenPreview
  PROVE  Spec => []DeviceHasThread
<1>1. Init => DeviceHasThread
  BY DEF Init, StreamsInit, DeviceHasThread
<1>2. StreamInv /\ ModesExclusive /\ DeviceHasThread /\ [Next]_vars => DeviceHasThread'
  BY DeviceThreadStep
<1> QED
  BY <1>1, <1>2, StreamsSound, ModesHold, PTL DEF Spec


-----------------------------------------------------------------------------
(* A frame of its own for every picture *)

\* The JPEG stream will take the next frame.
Expecting == "JPEG" \in mStarted /\ mReceiveFrame

\* Frames for the JPEG stream, from the one it expects to the one it answered.
InFlight == (IF Expecting THEN 1 ELSE 0) + jpegFrames
              + (IF jpegThread = "busy" THEN 1 ELSE 0) + mRespondSem

\* The handler has started the JPEG stream for its request and has not waited
\* for its answer yet.
Waits(t) == \/ pc[t] = "start" /\ "JPEG" \in Active(request[t]) \ todo[t]
            \/ pc[t] = "respond" /\ "JPEG" \in todo[t]

\* There is at most one frame, only for a handler that waits for it, and an
\* answer only if the frame came after the request. (Nothing is said once a
\* handler left early: no other follows.)
FrameInv == \/ InFlight = 0
            \/ /\ InFlight <= 1
               /\ mRespondSem > 0 => answered
               /\ \E t \in Threads : Waits(t)
            \/ Lost

\* A stream that is not prepared has no frame and no picture at hand.
JpegAtRest == "JPEG" \notin mPrepared => jpegFrames = 0 /\ jpegThread = "idle"

\* A handler skips no wait for a JPEG stream it started.
AnswerInv ==
  \A t \in Threads :
    /\ pc[t] = "start" /\ "JPEG" \in Active(request[t]) \ todo[t] => "JPEG" \in mStarted
    /\ pc[t] = "respond" /\ "JPEG" \in Active(request[t]) => "JPEG" \in todo[t] \/ answered
    /\ pc[t] = "free" /\ "JPEG" \in Active(request[t]) => answered

\* What happens to the frames when the threads of the streams work, and when
\* streams are stopped, brought up and answer.
LEMMA FrameSteps ==
  ASSUME StreamInv
  PROVE  /\ InFlight \in Nat /\ (InFlight = 0 => mRespondSem = 0 /\ jpegThread # "busy")
         /\ StreamThreads /\ ~idled' =>
                             /\ InFlight' \in Nat /\ InFlight' <= InFlight
                             /\ mRespondSem' > 0 => mRespondSem > 0 \/ answered'
                             /\ answered => answered'
         /\ \A S : stopStreams(S) => InFlight' \in Nat /\ InFlight' <= InFlight
         /\ \A id, snap, ok : bringUp(id, snap, ok) =>
              /\ InFlight' \in Nat /\ mRespondSem' = mRespondSem
              /\ IF id = "JPEG" THEN InFlight' <= InFlight + 1 ELSE InFlight' = InFlight
         /\ \A id : applyRequest(id) =>
              IF id = "JPEG" THEN mRespondSem > 0 /\ InFlight' = InFlight - 1
              ELSE InFlight' = InFlight /\ mRespondSem' = mRespondSem
<1> USE DEF StreamInv, StreamsTypeOK, InFlight, Expecting, setupVars, deviceVars
<1>1. InFlight \in Nat /\ (InFlight = 0 => mRespondSem = 0 /\ jpegThread # "busy")
  OBVIOUS
<1>2. ASSUME StreamThreads, ~idled'
      PROVE  /\ InFlight' \in Nat /\ InFlight' <= InFlight
             /\ mRespondSem' > 0 => mRespondSem > 0 \/ answered'
             /\ answered => answered'
  <2>1. CASE deviceFrame
    <3>1. deliverFrame /\ answered' = answered
      BY <2>1 DEF deviceFrame
    <3>2. CASE Expecting
      <4>1. /\ mReceiveFrame' = FALSE /\ jpegFrames' = jpegFrames + 1
            /\ UNCHANGED <<mStarted, jpegThread, mRespondSem>>
        BY <3>1, <3>2 DEF deliverFrame
      <4> QED
        BY <3>1, <3>2, <4>1
    <3>3. CASE ~Expecting
      BY <3>1, <3>3 DEF deliverFrame
    <3> QED
      BY <3>2, <3>3
  <2>2. CASE deviceError
    BY <2>2 DEF deviceError, acquireFails
  <2>3. CASE jpegTakes
    BY <2>3 DEF jpegTakes, takeFrame
  <2>4. CASE jpegFinishes
    <3>1. (\E ok \in BOOLEAN : finishFrame(ok)) /\ answered' = TRUE
      BY <2>4 DEF jpegFinishes
    <3> QED
      BY <3>1 DEF finishFrame
  <2>5. CASE jpegReports
    <3>1. (\E fatal \in BOOLEAN : reportFailure(fatal)) /\ answered' = answered
      BY <2>5 DEF jpegReports
    <3> QED
      BY <3>1 DEF reportFailure
  <2>6. ~jpegTimeout
    BY <1>2 DEF jpegTimeout
  <2> QED
    BY <1>2, <2>1, <2>2, <2>3, <2>4, <2>5, <2>6 DEF StreamThreads, jpeg
<1>3. ASSUME NEW S, stopStreams(S) PROVE InFlight' \in Nat /\ InFlight' <= InFlight
  BY <1>3 DEF stopStreams
<1>4. ASSUME NEW id, NEW snap, NEW ok, bringUp(id, snap, ok)
      PROVE  /\ InFlight' \in Nat /\ mRespondSem' = mRespondSem
             /\ IF id = "JPEG" THEN InFlight' <= InFlight + 1 ELSE InFlight' = InFlight
  BY <1>4 DEF bringUp
<1>5. ASSUME NEW id, applyRequest(id)
      PROVE  IF id = "JPEG" THEN mRespondSem > 0 /\ InFlight' = InFlight - 1
             ELSE InFlight' = InFlight /\ mRespondSem' = mRespondSem
  BY <1>5 DEF applyRequest
<1> HIDE DEF InFlight, Expecting
<1> QED
  BY <1>1, <1>2, <1>3, <1>4, <1>5

\* A handler at work has the frames to itself: nobody else waits for one.
LEMMA OwnFrames ==
  ASSUME Control, TokenInv, FrameInv, NEW t \in Threads, pc[t] \in Serving
  PROVE  /\ ~Lost
         /\ \A u \in Threads : u # t => pc[u] = "dead" /\ ~Waits(u)
         /\ Waits(t) \/ InFlight = 0
<1>1. t \in Bearers /\ pc[t] # "dead"
  BY DEF Bearers, Serving, Working
<1>2. \A u \in Threads : u # t => pc[u] = "dead"
  BY <1>1, HandlerAlone
<1>3. \A u \in Threads : u # t => ~Waits(u)
  BY <1>2 DEF Waits
<1> QED
  BY <1>1, <1>2, <1>3 DEF FrameInv, Lost

\* A new stream expects no frame.
LEMMA NewJpegStream ==
  ASSUME StreamInv, mPrepared \subseteq mStreamAdapter, NEW format, allocateStream(format)
  PROVE  /\ InFlight' \in Nat /\ InFlight' <= InFlight
         /\ streamFor(format) = "JPEG" /\ JpegAtRest => InFlight' = 0
<1> USE DEF StreamInv, StreamsTypeOK, DeviceInv, InFlight, Expecting, JpegAtRest
<1>1. newStream(streamFor(format)) /\ streamFor(format) \notin mStreamAdapter
  BY DEF allocateStream
<1>2. UNCHANGED <<mStarted, jpegFrames, jpegThread>>
  BY <1>1, NewStreamKeeps
<1>3. CASE streamFor(format) = "JPEG"
  BY <1>1, <1>2, <1>3 DEF newStream
<1>4. CASE streamFor(format) # "JPEG"
  BY <1>1, <1>2, <1>4 DEF newStream
<1> QED
  BY <1>3, <1>4

\* Every step keeps the stream that is not prepared without frames.
LEMMA JpegAtRestStep == ASSUME StreamInv, JpegAtRest, [Next]_vars PROVE JpegAtRest'
<1> USE DEF StreamInv, StreamsTypeOK, DeviceInv, JpegAtRest, setupVars, deviceVars
<1>1. CASE UNCHANGED streamVars
  BY <1>1 DEF streamVars
<1>2. ASSUME NEW id, newStream(id) PROVE JpegAtRest'
  BY <1>2, NewStreamKeeps
<1>3. ASSUME NEW S, stopStreams(S) PROVE JpegAtRest'
  BY <1>3 DEF stopStreams
<1>4. ASSUME NEW id, NEW snap, NEW ok, bringUp(id, snap, ok) PROVE JpegAtRest'
  BY <1>4 DEF bringUp
<1>5. ASSUME NEW id, applyRequest(id) PROVE JpegAtRest'
  BY <1>5 DEF applyRequest
<1>6. CASE StreamThreads
  <2>1. CASE deviceFrame \/ deviceError \/ jpegTakes \/ jpegTimeout
    BY <2>1 DEF deviceFrame, deliverFrame, deviceError, acquireFails, jpegTakes, takeFrame,
                jpegTimeout, idleTimeout
  <2>2. CASE jpegFinishes
    <3>1. \E ok \in BOOLEAN : finishFrame(ok)
      BY <2>2 DEF jpegFinishes
    <3> QED
      BY <3>1 DEF finishFrame
  <2>3. CASE jpegReports
    <3>1. \E fatal \in BOOLEAN : reportFailure(fatal)
      BY <2>3 DEF jpegReports
    <3> QED
      BY <3>1 DEF reportFailure
  <2> QED
    BY <1>6, <2>1, <2>2, <2>3 DEF StreamThreads, jpeg
<1> QED
  BY <1>1, <1>2, <1>3, <1>4, <1>5, <1>6, StreamSteps, StartBringsUp

\* Every step of a handler keeps both.
LEMMA FrameHandled ==
  ASSUME Control, StreamInv, RequestInv, TokenInv, FrameInv,
         AnswerInv, NEW t \in Threads, handle(t), Lost => Lost'
  PROVE  FrameInv' /\ AnswerInv'
<1> USE DEF goto, managerVars, frameworkVars
<1>0. ControlType /\ RequestType
  BY DEF Control, RequestInv
<1>1. pc[t] # "dead" /\ \A u \in Threads : u # t => pc[u] = "dead"
  <2>1. pc[t] # "dead"
    BY DEF handle, checkWork, noMoreRequests, dequeueRequest, stopInvalid,
           metadataFails, startStream, configureFails, streamResponds, allStarted,
           allResponded, freeRequest, stopAllStreams, quit, postThreadExit
  <2> QED
    BY <2>1, HandlerAlone
<1>2. \A k : UNCHANGED mStreamAdapter => Active(k)' = Active(k)
  BY DEF Active
\* The handler goes to a phase in which it looks for no frame.
<1>3. ASSUME NEW p, pc' = [pc EXCEPT ![t] = p], p \notin {"start", "respond", "free"}
      PROVE  AnswerInv'
  <2>1. \A u \in Threads : pc'[u] \notin {"start", "respond", "free"}
    BY <1>0, <1>1, <1>3 DEF ControlType
  <2> QED
    BY <2>1 DEF AnswerInv
\* It leaves early, with the notification.
<1>4. ASSUME pc' = [pc EXCEPT ![t] = "quit"], UNCHANGED <<caller, signalConsumer>>,
             pc[t] \in Serving
      PROVE  FrameInv' /\ AnswerInv'
  <2>1. "quit" \notin Serving
    BY DEF Serving, Working
  <2>2. Bearers' = {} /\ ~signalConsumer'
    BY <1>0, <1>4, <2>1, BearerMoves
  <2> QED
    BY <1>3, <1>4, <2>2 DEF FrameInv, Lost
\* It looks for no frame, and there is none.
<1>5. ASSUME pc[t] \notin {"start", "respond"}, InFlight' \in Nat, InFlight' <= InFlight
      PROVE  FrameInv'
  <2>1. \A u \in Threads : ~Waits(u)
    BY <1>1, <1>5 DEF Waits
  <2>2. InFlight = 0 \/ Lost
    BY <2>1 DEF FrameInv
  <2>3. InFlight = 0 => InFlight' = 0
    BY <1>5, FrameSteps
  <2> QED
    BY <2>2, <2>3 DEF FrameInv
<1>6. ASSUME UNCHANGED streamVars
      PROVE  InFlight' = InFlight /\ InFlight' \in Nat /\ InFlight' <= InFlight
  <2>1. InFlight' = InFlight
    BY <1>6 DEF streamVars, InFlight, Expecting
  <2>2. InFlight \in Nat
    BY FrameSteps
  <2> QED
    BY <2>1, <2>2
<1>7. CASE checkWork(t)
  <2>1. /\ pc[t] = "loop" /\ UNCHANGED streamVars
        /\ \E p \in {"dequeue", "stop"} : pc' = [pc EXCEPT ![t] = p]
    BY <1>7 DEF checkWork
  <2> QED
    BY <1>3, <1>5, <1>6, <2>1
<1>8. CASE noMoreRequests(t) \/ quit(t) \/ postThreadExit(t)
  BY <1>3, <1>5, <1>6, <1>8 DEF noMoreRequests, quit, postThreadExit
<1>9. CASE dequeueRequest(t)
  <2>1. /\ pc[t] = "dequeue" /\ UNCHANGED streamVars
        /\ \E p \in {"restart", "quit"} : pc' = [pc EXCEPT ![t] = p]
    BY <1>9 DEF dequeueRequest
  <2> QED
    BY <1>3, <1>5, <1>6, <2>1
<1>10. CASE stopInvalid(t)
  <2>1. /\ pc[t] = "restart" /\ pc' = [pc EXCEPT ![t] = "start"]
        /\ UNCHANGED <<request, mStreamAdapter>>
        /\ todo' = [todo EXCEPT ![t] = Active(request[t])]
        /\ \E S : stopStreams(S)
    BY <1>10 DEF stopInvalid
  <2>2. pc'[t] = "start" /\ todo'[t] = Active(request[t])'
    BY <1>0, <1>2, <2>1 DEF ControlType, RequestType
  <2>3. AnswerInv'
    BY <1>1, <2>1, <2>2 DEF AnswerInv
  <2> QED
    BY <1>5, <2>1, <2>3, FrameSteps
<1>11. CASE metadataFails(t)
  BY <1>4, <1>11 DEF metadataFails, Serving, Working
<1>12. ASSUME NEW id \in StreamIds, startStream(t, id) PROVE FrameInv' /\ AnswerInv'
  <2>1. /\ pc[t] = "start" /\ pc[t] \in Serving /\ id \in todo[t]
        /\ UNCHANGED <<caller, signalConsumer, request, mStreamAdapter, answered>>
        /\ \E ok \in BOOLEAN : bringUp(id, videoSnapshot(request[t]), ok)
        /\ \/ pc' = pc /\ todo' = [todo EXCEPT ![t] = todo[t] \ {id}]
           \/ pc' = [pc EXCEPT ![t] = "quit"]
    BY <1>12 DEF startStream, Serving, Working
  <2>2. CASE pc' = pc /\ todo' = [todo EXCEPT ![t] = todo[t] \ {id}]
    <3>1. id \in Active(request[t])
      BY <2>1 DEF RequestInv, SetupInv
    <3>2. todo'[t] = todo[t] \ {id} /\ Active(request[t])' = Active(request[t])
      BY <1>0, <1>2, <2>1, <2>2 DEF RequestType
    <3>3. mStarted' = mStarted \cup {id}
      BY <2>1 DEF bringUp
    <3>4. AnswerInv'
      <4>1. \A u \in Threads : u # t => pc'[u] = "dead"
        BY <1>1, <2>2
      <4>2. pc'[t] = "start"
        BY <2>1, <2>2
      <4>3. "JPEG" \in Active(request[t]) \ todo[t] => "JPEG" \in mStarted
        BY <2>1 DEF AnswerInv
      <4>4. "JPEG" \in Active(request[t])' \ todo'[t] => "JPEG" \in mStarted'
        BY <3>2, <3>3, <4>3
      <4> QED
        BY <4>1, <4>2, <4>4 DEF AnswerInv
    <3>5. CASE id = "JPEG"
      <4>1. ~Waits(t) /\ Waits(t)'
        BY <2>1, <2>2, <3>1, <3>2, <3>5 DEF Waits
      <4>2. InFlight = 0
        BY <2>1, <4>1, OwnFrames
      <4>3. InFlight' <= 1 /\ mRespondSem' = 0
        <5>1. PICK ok \in BOOLEAN : bringUp("JPEG", videoSnapshot(request[t]), ok)
          BY <2>1, <3>5
        <5>2. InFlight' <= InFlight + 1 /\ mRespondSem' = mRespondSem
          BY <5>1, FrameSteps
        <5>3. mRespondSem = 0
          BY <4>2, FrameSteps
        <5> QED
          BY <4>2, <5>2, <5>3
      <4> QED
        BY <3>4, <4>1, <4>3 DEF FrameInv
    <3>6. CASE id # "JPEG"
      <4>1. InFlight' = InFlight /\ mRespondSem' = mRespondSem
        BY <2>1, <3>6, FrameSteps
      <4>2. Waits(t) => Waits(t)'
        BY <2>1, <2>2, <3>2 DEF Waits
      <4>3. \A u \in Threads : Waits(u) => u = t
        BY <2>1, OwnFrames
      <4> QED
        BY <2>1, <3>4, <4>1, <4>2, <4>3 DEF FrameInv
    <3> QED
      BY <3>5, <3>6
  <2>3. CASE pc' = [pc EXCEPT ![t] = "quit"]
    BY <1>4, <2>1, <2>3
  <2> QED
    BY <2>1, <2>2, <2>3
<1>13. ASSUME NEW id \in StreamIds, configureFails(t, id) PROVE FrameInv' /\ AnswerInv'
  BY <1>4, <1>13 DEF configureFails, Serving, Working
<1>14. CASE allStarted(t)
  <2>1. /\ pc[t] = "start" /\ pc[t] \in Serving /\ todo[t] = {}
        /\ pc' = [pc EXCEPT ![t] = "respond"]
        /\ todo' = [todo EXCEPT ![t] = Active(request[t]) \cap mStarted]
        /\ UNCHANGED <<request, mStreamAdapter, answered, streamVars>>
    BY <1>14 DEF allStarted, Serving, Working
  <2>2. /\ pc'[t] = "respond" /\ todo'[t] = Active(request[t]) \cap mStarted
        /\ Active(request[t])' = Active(request[t])
        /\ \A u \in Threads : u # t => pc'[u] = "dead"
    BY <1>0, <1>1, <1>2, <2>1 DEF ControlType, RequestType
  <2>3. "JPEG" \in Active(request[t]) => "JPEG" \in mStarted
    BY <2>1 DEF AnswerInv
  <2>4. AnswerInv'
    BY <2>2, <2>3 DEF AnswerInv
  <2>5. Waits(t) => Waits(t)'
    BY <2>1, <2>2, <2>3 DEF Waits
  <2>6. \A u \in Threads : Waits(u) => u = t
    BY <2>1, OwnFrames
  <2>7. InFlight' = InFlight /\ mRespondSem' = mRespondSem
    BY <1>6, <2>1 DEF streamVars
  <2> QED
    BY <2>1, <2>4, <2>5, <2>6, <2>7 DEF FrameInv
<1>15. ASSUME NEW id \in StreamIds, streamResponds(t, id) PROVE FrameInv' /\ AnswerInv'
  <2>1. /\ pc[t] = "respond" /\ pc[t] \in Serving /\ id \in todo[t] /\ pc' = pc
        /\ applyRequest(id)
        /\ todo' = [todo EXCEPT ![t] = todo[t] \ {id}]
        /\ UNCHANGED <<request, mStreamAdapter, answered>>
    BY <1>15 DEF streamResponds, Serving, Working
  <2>2. /\ todo'[t] = todo[t] \ {id}
        /\ Active(request[t])' = Active(request[t])
        /\ \A u \in Threads : u # t => pc'[u] = "dead"
    BY <1>0, <1>1, <1>2, <2>1 DEF RequestType
  <2>3. \A u \in Threads : Waits(u) => u = t
    BY <2>1, OwnFrames
  <2>4. CASE id = "JPEG"
    <3>1. mRespondSem > 0 /\ InFlight' = InFlight - 1
      BY <2>1, <2>4, FrameSteps
    <3>2. InFlight # 0 /\ ~Lost
      <4>1. InFlight = 0 => mRespondSem = 0
        BY FrameSteps
      <4> QED
        BY <2>1, <3>1, <4>1, OwnFrames
    <3>3. InFlight <= 1 /\ answered /\ InFlight \in Nat
      BY <3>1, <3>2, FrameSteps DEF FrameInv
    <3>4. InFlight' = 0
      BY <3>1, <3>2, <3>3
    <3>5. AnswerInv'
      BY <2>1, <2>2, <3>3 DEF AnswerInv
    <3> QED
      BY <3>4, <3>5 DEF FrameInv
  <2>5. CASE id # "JPEG"
    <3>1. InFlight' = InFlight /\ mRespondSem' = mRespondSem
      BY <2>1, <2>5, FrameSteps
    <3>2. Waits(t) => Waits(t)'
      BY <2>1, <2>2, <2>5 DEF Waits
    <3>3. AnswerInv'
      BY <2>1, <2>2, <2>5 DEF AnswerInv
    <3> QED
      BY <2>1, <2>3, <3>1, <3>2, <3>3 DEF FrameInv
  <2> QED
    BY <2>4, <2>5
<1>16. CASE allResponded(t)
  <2>1. /\ pc[t] = "respond" /\ pc[t] \in Serving /\ todo[t] = {}
        /\ pc' = [pc EXCEPT ![t] = "free"]
        /\ UNCHANGED <<request, mStreamAdapter, answered, streamVars>>
    BY <1>16 DEF allResponded, Serving, Working
  <2>2. /\ pc'[t] = "free" /\ Active(request[t])' = Active(request[t])
        /\ \A u \in Threads : u # t => pc'[u] = "dead"
    BY <1>0, <1>1, <1>2, <2>1 DEF ControlType
  <2>3. AnswerInv'
    BY <2>1, <2>2 DEF AnswerInv
  <2>4. InFlight = 0
    BY <2>1, OwnFrames DEF Waits
  <2> QED
    BY <1>6, <2>1, <2>3, <2>4 DEF FrameInv
<1>17. CASE freeRequest(t)
  BY <1>3, <1>5, <1>6, <1>17 DEF freeRequest
<1>18. CASE stopAllStreams(t)
  BY <1>3, <1>5, <1>18, FrameSteps DEF stopAllStreams
<1> QED
  BY <1>7, <1>8, <1>9, <1>10, <1>11, <1>12, <1>13, <1>14, <1>15, <1>16, <1>17, <1>18 DEF handle

\* Every step but an answer nobody asked for keeps both.
LEMMA FrameStep ==
  ASSUME ~idled', Control, StreamInv, RequestInv, TokenInv, FrameInv,
         AnswerInv, [Next]_vars
  PROVE  FrameInv' /\ AnswerInv'
<1> USE DEF managerVars, frameworkVars
<1>0. Lost => Lost'
  BY TokenStep
<1>1. ASSUME UNCHANGED streamVars
      PROVE  /\ InFlight' = InFlight /\ InFlight' \in Nat /\ InFlight' <= InFlight
             /\ mRespondSem' = mRespondSem
  <2>1. InFlight' = InFlight /\ mRespondSem' = mRespondSem
    BY <1>1 DEF streamVars, InFlight, Expecting
  <2>2. InFlight \in Nat
    BY FrameSteps
  <2> QED
    BY <2>1, <2>2
<1>2. ASSUME UNCHANGED <<streamVars, pc, request, todo, mStreamAdapter, answered>>
      PROVE  FrameInv' /\ AnswerInv'
  <2>1. \A k : Active(k)' = Active(k)
    BY <1>2 DEF Active
  <2>2. \A t : Waits(t)' <=> Waits(t)
    BY <1>2, <2>1 DEF Waits
  <2>3. AnswerInv'
    BY <1>2, <2>1 DEF AnswerInv, streamVars
  <2> QED
    BY <1>0, <1>1, <1>2, <2>2, <2>3 DEF FrameInv
\* While no handler works, nothing waits.
<1>3. ASSUME \A t \in Threads : pc'[t] \notin Working /\ pc[t] \notin Working,
             InFlight' \in Nat, InFlight' <= InFlight
      PROVE  FrameInv' /\ AnswerInv'
  <2>1. AnswerInv'
    BY <1>3 DEF AnswerInv, Working
  <2>2. \A t \in Threads : ~Waits(t)
    BY <1>3 DEF Waits, Working
  <2>3. InFlight = 0 => InFlight' = 0
    BY <1>3, FrameSteps
  <2> QED
    BY <1>0, <2>1, <2>2, <2>3 DEF FrameInv
<1>4. ASSUME NEW f \in Callers, NEW k \in Kinds, enqueue(f, k) PROVE FrameInv' /\ AnswerInv'
  BY <1>2, <1>4 DEF enqueue
<1>5. ASSUME NEW format, allocateStream(format) PROVE FrameInv' /\ AnswerInv'
  <2>1. Drained /\ pc' = pc
    BY <1>5 DEF allocateStream
  <2>2. \A t \in Threads : pc'[t] \notin Working /\ pc[t] \notin Working
    BY <2>1, DrainedMeansDone DEF Working
  <2>3. InFlight' \in Nat /\ InFlight' <= InFlight
    BY <1>5, NewJpegStream DEF RequestInv, SetupInv
  <2> QED
    BY <1>3, <2>2, <2>3
<1>6. ASSUME NEW id, releaseStream(id) PROVE FrameInv' /\ AnswerInv'
  <2>1. Drained /\ pc' = pc /\ \E S : stopStreams(S)
    BY <1>6 DEF releaseStream
  <2>2. \A t \in Threads : pc'[t] \notin Working /\ pc[t] \notin Working
    BY <2>1, DrainedMeansDone DEF Working
  <2> QED
    BY <1>3, <2>1, <2>2, FrameSteps
<1>7. ASSUME NEW f \in Callers, waitThreadExit(f) PROVE FrameInv' /\ AnswerInv'
  BY <1>2, <1>7 DEF waitThreadExit
<1>8. ASSUME NEW f \in Callers, NEW t \in Threads, createThread(f, t) \/ runThread(f, t)
      PROVE  FrameInv' /\ AnswerInv'
  <2>1. /\ UNCHANGED streamVars
        /\ \/ caller[f] = "create" /\ pc' = [pc EXCEPT ![t] = "created"]
           \/ pc[t] = "created" /\ pc' = [pc EXCEPT ![t] = "loop"]
    BY <1>8 DEF createThread, runThread
  <2>2. \A u \in Threads : pc[u] \notin Working
    <3>1. CASE caller[f] = "create"
      <4>1. \A u \in Threads : pc[u] = "dead"
        BY <3>1, HandlerAlone
      <4> QED
        BY <4>1 DEF Working
    <3>2. CASE pc[t] = "created"
      <4>1. \A u \in Threads : u # t => pc[u] = "dead"
        BY <3>2, HandlerAlone
      <4> QED
        BY <3>2, <4>1 DEF Working
    <3> QED
      BY <2>1, <3>1, <3>2
  <2>3. \A u \in Threads : pc'[u] \notin Working
    BY <2>1, <2>2 DEF Working, Control, ControlType
  <2> QED
    BY <1>1, <1>3, <2>1, <2>2, <2>3, FrameSteps
<1>9. ASSUME NEW t \in Threads, handle(t) PROVE FrameInv' /\ AnswerInv'
  BY <1>0, <1>9, FrameHandled
<1>10. CASE StreamThreads
  <2>1. UNCHANGED <<pc, request, todo, mStreamAdapter, mStarted>>
    BY <1>10, ThreadsKeepSetup DEF setupVars, otherVars
  <2>2. \A k : Active(k)' = Active(k)
    BY <2>1 DEF Active
  <2>3. \A t : Waits(t)' <=> Waits(t)
    BY <2>1, <2>2 DEF Waits
  <2>4. /\ InFlight \in Nat /\ InFlight' \in Nat /\ InFlight' <= InFlight
        /\ mRespondSem' > 0 => mRespondSem > 0 \/ answered'
        /\ answered => answered'
    BY <1>10, FrameSteps
  <2>5. AnswerInv'
    BY <2>1, <2>2, <2>4 DEF AnswerInv
  <2>6. (InFlight = 0 => InFlight' = 0) /\ (InFlight <= 1 => InFlight' <= 1)
    BY <2>4
  <2> QED
    BY <1>0, <2>3, <2>4, <2>5, <2>6 DEF FrameInv
<1>11. CASE UNCHANGED vars
  BY <1>2, <1>11 DEF vars
<1> QED
  BY <1>4, <1>5, <1>6, <1>7, <1>8, <1>9, <1>10, <1>11
     DEF Next, framework, dispatch, StreamThreads

\* Both hold from the allocation of the JPEG stream until it has answered unasked.
FramesInv == JpegAtRest /\ (idled \/ (FrameInv /\ AnswerInv))

\* Only the allocation of a new JPEG stream ends the exception, with no frame
\* about and no handler at work.
LEMMA FramesStep ==
  ASSUME Control, StreamInv, RequestInv, TokenInv, FramesInv, [Next]_vars
  PROVE  FramesInv'
<1>1. JpegAtRest'
  BY JpegAtRestStep DEF FramesInv
<1>2. CASE idled'
  BY <1>1, <1>2 DEF FramesInv
<1>3. CASE ~idled /\ ~idled'
  BY <1>1, <1>3, FrameStep DEF FramesInv
<1>4. CASE idled /\ ~idled'
  <2>1. PICK format : allocateStream(format) /\ streamFor(format) = "JPEG"
    <3>1. \/ UNCHANGED idled \/ idled'
          \/ \E format : allocateStream(format)
      BY DEF Next, framework, enqueue, releaseStream, dispatch,
           waitThreadExit, createThread, runThread, handle, checkWork, noMoreRequests,
           dequeueRequest, stopInvalid, metadataFails, startStream, configureFails,
           streamResponds, allStarted, allResponded, freeRequest, stopAllStreams, quit,
           postThreadExit, deviceFrame, deviceError, jpeg, jpegTakes, jpegFinishes,
           jpegReports, jpegTimeout, vars
    <3> QED
      BY <1>4, <3>1 DEF allocateStream
  <2>2. InFlight' = 0
    BY <2>1, NewJpegStream DEF FramesInv, RequestInv, SetupInv
  <2>3. Drained /\ pc' = pc
    BY <2>1 DEF allocateStream
  <2>4. \A t \in Threads : pc'[t] \notin Working
    BY <2>3, DrainedMeansDone DEF Working
  <2> QED
    BY <1>1, <2>2, <2>4 DEF FramesInv, FrameInv, AnswerInv, Working
<1> QED
  BY <1>2, <1>3, <1>4

\* It is an invariant.
LEMMA FramesHold == Spec => []FramesInv
<1>1. Init => FramesInv
  <2> SUFFICES ASSUME Init PROVE FrameInv /\ AnswerInv /\ JpegAtRest
    BY DEF FramesInv
  <2>1. InFlight = 0
    BY DEF Init, StreamsInit, InFlight, Expecting
  <2>2. \A t \in Threads : pc[t] = "dead"
    BY DEF Init
  <2>3. JpegAtRest
    BY DEF Init, StreamsInit, JpegAtRest
  <2> QED
    BY <2>1, <2>2, <2>3 DEF FrameInv, AnswerInv
<1>2. Control /\ StreamInv /\ RequestInv /\ TokenInv /\ FramesInv /\ [Next]_vars
        => FramesInv'
  BY FramesStep
<1> QED
  BY <1>1, <1>2, RequestsSound, TokenHolds, PTL DEF Spec

\* Until the JPEG stream has waited five seconds in vain since it was allocated,
\* every request for a picture is answered by a frame that came after it, in
\* whatever order the requests come and whatever fails.
THEOREM OneFrameAlways == Spec => []OneFrameUnlessIdle
<1>1. FramesInv => OneFrameUnlessIdle
  BY DEF FramesInv, AnswerInv, OneFrameUnlessIdle, OneFrameEveryTime
<1> QED
  BY <1>1, FramesHold, PTL

\* With the same exception no request replaces the metadata from which the JPEG
\* thread makes a picture: a handler dequeues only when no frame is about.
THEOREM MetadataAlwaysStable == Spec => MetadataStable
<1>1. ASSUME Control, StreamInv, TokenInv, HeldInv, FramesInv, [Next]_vars
      PROVE  [held' > held /\ jpegThread = "busy" => idled]_vars
  <2> SUFFICES ASSUME held' > held, ~idled PROVE jpegThread # "busy"
    OBVIOUS
  <2>1. held \in Nat
    BY <1>1 DEF HeldInv
  <2>2. \E t \in Threads : dequeueRequest(t)
    <3>1. ASSUME UNCHANGED held PROVE FALSE
      BY <2>1, <3>1
    <3>2. \/ UNCHANGED held
          \/ \E t \in Threads : dequeueRequest(t) \/ freeRequest(t)
      BY <1>1 DEF Next, framework, enqueue, allocateStream, releaseStream, dispatch,
           waitThreadExit, createThread, runThread, handle, checkWork, noMoreRequests,
           stopInvalid, metadataFails, startStream, configureFails, streamResponds, allStarted,
           allResponded, stopAllStreams, quit, postThreadExit, deviceFrame,
           deviceError, jpeg, jpegTakes, jpegFinishes, jpegReports, jpegTimeout, otherVars, vars
    <3>3. ASSUME NEW t \in Threads, freeRequest(t) PROVE FALSE
      BY <2>1, <3>3 DEF freeRequest
    <3> QED
      BY <3>1, <3>2, <3>3
  <2>3. PICK t \in Threads : dequeueRequest(t)
    BY <2>2
  <2>4. pc[t] = "dequeue" /\ pc[t] \in Serving
    BY <2>3 DEF dequeueRequest, Serving
  <2>5. InFlight = 0
    BY <1>1, <2>4, OwnFrames DEF Waits, FramesInv
  <2> QED
    BY <1>1, <2>5, FrameSteps
<1> QED
  BY <1>1, RequestsSound, TokenHolds, HeldHolds, FramesHold, PTL DEF Spec, MetadataStable

-----------------------------------------------------------------------------
(* Types *)

\* The types the proofs above had no use for.
RestType == /\ mPendingRequests \in 0..255
            /\ mRequestThread \in BOOLEAN /\ mWorkInProcess \in BOOLEAN
            /\ signalConsumer \in BOOLEAN /\ answered \in BOOLEAN
            /\ idled \in BOOLEAN
            /\ last \in Kinds \cup {"none"}
            /\ submitted \in 0..MaxRequests
            /\ failures \in FailureSets

\* Every step keeps them.
LEMMA RestTypeStep == ASSUME RestType, [Next]_vars PROVE RestType'
<1> USE DEF RestType, managerVars, frameworkVars
<1>0. ASSUME UNCHANGED <<mPendingRequests, mRequestThread, last, submitted, failures>>,
             mWorkInProcess' = mWorkInProcess \/ mWorkInProcess' = FALSE,
             signalConsumer' = signalConsumer \/ signalConsumer' = TRUE,
             answered' = answered \/ answered' = TRUE \/ answered' = FALSE,
             idled' = idled \/ idled' = TRUE
      PROVE  RestType'
  <2>1. /\ mWorkInProcess' \in BOOLEAN /\ signalConsumer' \in BOOLEAN
        /\ answered' \in BOOLEAN /\ idled' \in BOOLEAN
    BY <1>0, Zenon
  <2> QED
    BY <1>0, <2>1
<1>1. ASSUME NEW f \in Callers, NEW k \in Kinds, enqueue(f, k) PROVE RestType'
  <2>1. submitted' \in 0..MaxRequests
    BY <1>1, RequestAssumption DEF enqueue
  <2> QED
    BY <1>1, <2>1 DEF enqueue
<1>2. ASSUME NEW format, allocateStream(format) PROVE RestType'
  <2>1. idled' \in BOOLEAN
    BY <1>2, Zenon DEF allocateStream
  <2> QED
    BY <1>2, <2>1 DEF allocateStream
<1>3. ASSUME NEW id, releaseStream(id) PROVE RestType'
  BY <1>3 DEF releaseStream
<1>4. ASSUME NEW f \in Callers, dispatch(f) PROVE RestType'
  <2>1. mPendingRequests' \in 0..255
    BY <1>4 DEF dispatch, waitThreadExit, createThread, runThread
  <2>2. mRequestThread' = mRequestThread \/ mRequestThread' = TRUE
    BY <1>4 DEF dispatch, waitThreadExit, createThread, runThread
  <2>3. UNCHANGED <<mWorkInProcess, signalConsumer, answered, idled, last, submitted, failures>>
    BY <1>4 DEF dispatch, waitThreadExit, createThread, runThread
  <2>4. mRequestThread' \in BOOLEAN
    BY <2>2, Zenon
  <2> QED
    BY <2>1, <2>3, <2>4
<1>5. ASSUME NEW t \in Threads, handle(t) PROVE RestType'
  <2>1. CASE quit(t)
    <3>1. mPendingRequests' \in 0..255
      BY <2>1 DEF quit
    <3> QED
      BY <2>1, <3>1, Zenon DEF quit
  <2>2. ASSUME NEW id, configureFails(t, id) PROVE RestType'
    BY <2>2 DEF configureFails, handleError
  <2>3. ASSUME NEW id, startStream(t, id) \/ streamResponds(t, id) PROVE RestType'
    BY <1>0, <2>3 DEF startStream, streamResponds
  <2>4. CASE \/ checkWork(t) \/ noMoreRequests(t) \/ dequeueRequest(t) \/ stopInvalid(t)
             \/ metadataFails(t) \/ allStarted(t) \/ allResponded(t) \/ freeRequest(t)
             \/ stopAllStreams(t) \/ postThreadExit(t)
    BY <1>0, <2>4 DEF checkWork, noMoreRequests, dequeueRequest, stopInvalid, metadataFails,
                allStarted, allResponded, freeRequest, stopAllStreams, postThreadExit
  <2> QED
    BY <1>5, <2>1, <2>2, <2>3, <2>4 DEF handle
<1>6. CASE StreamThreads
  BY <1>0, <1>6 DEF StreamThreads, deviceFrame, deviceError, jpeg, jpegTakes, jpegFinishes,
              jpegReports, jpegTimeout, otherVars, handleError
<1>7. CASE UNCHANGED vars
  BY <1>7 DEF vars
<1> QED
  BY <1>1, <1>2, <1>3, <1>4, <1>5, <1>6, <1>7 DEF Next, framework, StreamThreads

\* Every variable keeps its type, and only streams that exist are prepared.
THEOREM Typed == Spec => []TypeOK
<1>1. Init => RestType
  <2> SUFFICES ASSUME Init PROVE RestType
    OBVIOUS
  <2>1. submitted \in 0..MaxRequests
    BY RequestAssumption DEF Init
  <2>2. /\ mRequestThread \in BOOLEAN /\ mWorkInProcess \in BOOLEAN
        /\ signalConsumer \in BOOLEAN /\ answered \in BOOLEAN
            /\ idled \in BOOLEAN
    BY Zenon DEF Init
  <2> QED
    BY <2>1, <2>2 DEF Init, RestType
<1>2. RestType /\ [Next]_vars => RestType'
  BY RestTypeStep
<1>3. Control /\ StreamInv /\ RequestInv /\ HeldInv /\ RestType => TypeOK
  <2> SUFFICES ASSUME Control, StreamInv, RequestInv, HeldInv, RestType PROVE TypeOK
    OBVIOUS
  <2>1. {mRequestThread, mWorkInProcess, signalConsumer, answered} \subseteq BOOLEAN
    BY Zenon DEF RestType
  <2>2. StreamsTypeOK /\ ControlType /\ RequestType /\ mPrepared \subseteq mStreamAdapter
    BY DEF StreamInv, Control, RequestInv, SetupInv
  <2> QED
    BY <2>1, <2>2 DEF TypeOK, ControlType, RequestType, RestType, HeldInv
<1> QED
  BY <1>1, <1>2, <1>3, RequestsSound, HeldHolds, PTL DEF Spec

===============================================================================
