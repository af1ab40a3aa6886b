------------------------- MODULE PreviewPipelineProofs -------------------------
(***************************************************************************)
(* Proofs about PreviewPipeline, for any buffers and consumer streams and  *)
(* any number of starts of preview.                                        *)
(***************************************************************************)
EXTENDS PreviewPipeline, FiniteSetTheorems, SequenceTheorems, TLAPS

-----------------------------------------------------------------------------
(* Types and phases: where each thread can be, with which frames. *)

Outside   == {"off", "service", "exit", "free"}
Releasing == {"release", "refill", "qbuf", "inc"}
Idling    == {"none", "wait", "check", "dqbuf", "exited"}
DeviceAt  == {"none", "check", "dqbuf", "dispatch", "each", "call", "exited"}
StreamAt  == {"none", "wait", "process", "finish", "cancel", "fail"}
PreviewAt == StreamAt \cup {"hold", "request"}

Places(t) == IF t = "device" THEN DeviceAt ELSE IF t = "preview" THEN PreviewAt ELSE StreamAt
Resumes(t) == IF t = "device" THEN {"check"} ELSE IF t = "preview"
              THEN {"wait", "finish", "cancel", "fail"} ELSE {"wait", "cancel", "fail"}

\* A thread in release() has a frame to release; it also holds the frame it
\* works on unless that was the one it let go of.
ThreadShape(t) ==
  /\ pc[t] \in Places(t) \cup Releasing
  /\ pc[t] \in Releasing => /\ buf[t] \in Buffers /\ cont[t] \in Resumes(t)
                            /\ (frame[t] \in Buffers) <=> (cont[t] \notin Idling)
  /\ pc[t] \notin Releasing => /\ buf[t] = NoBuffer /\ cont[t] = "none"
                               /\ (frame[t] \in Buffers) <=> (pc[t] \notin Idling)

\* The device thread lives while preview runs, the preview stream's thread from
\* its start to its release.
Phases ==
  /\ control \in Serving \cup Outside
  /\ pc["device"] # "none" => control \in {"running", "join"}
  /\ control \in {"off", "service", "start", "free"} => pc["preview"] = "none"

\* What the device thread reads by index is a listener, or was one: behind the
\* end of the vector something is left if the vector has become shorter.
Slots ==
  /\ pc["device"] \in {"each", "call"} => next >= 1
  /\ pc["device"] \notin {"each", "call"} => nSize = 0
  /\ pc["device"] = "call" => listener \in Streams
  /\ pastEnd = "none" => nSize <= Len(mFrameListeners)

TypeInv == TypeOK /\ Phases /\ Slots /\ \A t \in Threads : ThreadShape(t)

Back == {"none", "check", "wait", "finish", "cancel", "fail"}

ThreadTypes == /\ pc \in [Threads -> Where] /\ cont \in [Threads -> Back]
               /\ frame \in [Threads -> Buffers \cup {NoBuffer}]
               /\ buf \in [Threads -> Buffers \cup {NoBuffer}]

\* A step of thread t alone, after which it is in good shape again.
Moved(t) == /\ ThreadTypes'
            /\ \A u \in Threads \ {t} : /\ pc'[u] = pc[u] /\ frame'[u] = frame[u]
                                        /\ buf'[u] = buf[u] /\ cont'[u] = cont[u]
            /\ ThreadShape(t)'

\* Where threads go on after release() they do not release.
LEMMA ResumePlaces ==
  ASSUME NEW t \in Threads, NEW p \in Resumes(t)
  PROVE  p \in Places(t) /\ p \notin Releasing /\ p \in Back /\ p \in Where
BY DEF Resumes, Places, DeviceAt, StreamAt, PreviewAt, Releasing, Back, Where

\* A thread that returns from release() goes on where it was to.
LEMMA Resuming ==
  ASSUME ThreadTypes, NEW t \in Threads, ThreadShape(t), pc[t] \in Releasing,
         returns(t), UNCHANGED frame
  PROVE  Moved(t)
<1>1. cont[t] \in Resumes(t) /\ (frame[t] \in Buffers <=> cont[t] \notin Idling)
  BY DEF ThreadShape
<1>2. cont[t] \in Places(t) /\ cont[t] \notin Releasing /\ cont[t] \in Where
  BY <1>1, ResumePlaces
<1>3. pc' = [pc EXCEPT ![t] = cont[t]] /\ buf' = [buf EXCEPT ![t] = NoBuffer]
      /\ cont' = [cont EXCEPT ![t] = "none"] /\ frame' = frame
  BY DEF returns, goto
<1>4. ThreadTypes'
  BY <1>2, <1>3 DEF ThreadTypes, Back
<1>5. pc'[t] = cont[t] /\ buf'[t] = NoBuffer /\ cont'[t] = "none" /\ frame'[t] = frame[t]
  BY <1>3 DEF ThreadTypes
<1>6. ThreadShape(t)'
  BY <1>1, <1>2, <1>5 DEF ThreadShape
<1> QED
  BY <1>3, <1>4, <1>6 DEF Moved, ThreadTypes

\* A thread stays in release() and what it calls.
LEMMA Staying ==
  ASSUME ThreadTypes, NEW t \in Threads, ThreadShape(t), pc[t] \in Releasing,
         NEW p \in Releasing, goto(t, p), UNCHANGED <<frame, buf, cont>>
  PROVE  Moved(t)
<1>1. pc' = [pc EXCEPT ![t] = p] /\ p \in Where
  BY DEF goto, Releasing, Where
<1>2. ThreadTypes' /\ pc'[t] = p
  BY <1>1 DEF ThreadTypes
<1>3. ThreadShape(t)'
  BY <1>2 DEF ThreadShape
<1> QED
  BY <1>1, <1>2, <1>3 DEF Moved, ThreadTypes

\* Thread t calls release() on a frame and is to go on at p.
LEMMA Calling ==
  ASSUME ThreadTypes, NEW t \in Threads, NEW b \in Buffers, NEW p \in Resumes(t),
         calls(t, b, p), frame' \in [Threads -> Buffers \cup {NoBuffer}],
         \A u \in Threads \ {t} : frame'[u] = frame[u],
         frame'[t] \in Buffers <=> p \notin Idling
  PROVE  Moved(t)
<1>1. /\ pc' = [pc EXCEPT ![t] = "release"] /\ buf' = [buf EXCEPT ![t] = b]
      /\ cont' = [cont EXCEPT ![t] = p]
  BY DEF calls, goto
<1>2. p \in Back /\ "release" \in Where /\ "release" \in Releasing
  BY ResumePlaces DEF Where, Releasing
<1>3. ThreadTypes'
  BY <1>1, <1>2 DEF ThreadTypes
<1>4. pc'[t] = "release" /\ buf'[t] = b /\ cont'[t] = p
  BY <1>1 DEF ThreadTypes
<1>5. ThreadShape(t)'
  BY <1>2, <1>4 DEF ThreadShape
<1> QED
  BY <1>1, <1>3, <1>5 DEF Moved, ThreadTypes

\* A thread outside release() goes to p, perhaps with another frame.
LEMMA Going ==
  ASSUME ThreadTypes, NEW t \in Threads, ThreadShape(t), pc[t] \notin Releasing,
         NEW p \in Places(t), p \notin Releasing, p \in Where,
         goto(t, p), UNCHANGED <<buf, cont>>,
         frame' \in [Threads -> Buffers \cup {NoBuffer}],
         \A u \in Threads \ {t} : frame'[u] = frame[u],
         frame'[t] \in Buffers <=> p \notin Idling
  PROVE  Moved(t)
<1>1. pc' = [pc EXCEPT ![t] = p]
  BY DEF goto
<1>2. ThreadTypes' /\ pc'[t] = p
  BY <1>1 DEF ThreadTypes
<1>3. ThreadShape(t)'
  BY <1>2 DEF ThreadShape
<1> QED
  BY <1>1, <1>2, <1>3 DEF Moved, ThreadTypes

\* The steps of release() and of the observer it calls.
LEMMA ReleasingMoves ==
  ASSUME ThreadTypes, NEW t \in Threads, ThreadShape(t), releasing(t)
  PROVE  Moved(t)
<1> USE DEF Releasing
<1>1. CASE release(t)
  BY <1>1, Resuming, Staying DEF release
<1>2. CASE handleFrameRelease(t)
  BY <1>2, Resuming, Staying DEF handleFrameRelease
<1>3. CASE fillCameraFrame(t)
  BY <1>3, Resuming, Staying DEF fillCameraFrame
<1>4. CASE countQueued(t)
  BY <1>4, Resuming DEF countQueued
<1> QED
  BY <1>1, <1>2, <1>3, <1>4 DEF releasing

\* Who the threads are, and which of them are streams.
LEMMA ThreadNames == "device" \in Threads /\ "preview" \in Threads /\ Streams \subseteq Threads
                    /\ "preview" \in Streams /\ Consumers \subseteq Streams
                    /\ "device" \notin Streams /\ "preview" \notin Consumers
BY PipelineAssumption DEF Threads, Streams

\* The first frame of a queue is a frame, and so are the others.
LEMMA HeadOfQueue ==
  ASSUME mThreadQueue \in [Streams -> Seq(Buffers)], NEW s \in Streams, mThreadQueue[s] # <<>>
  PROVE  Head(mThreadQueue[s]) \in Buffers /\ Tail(mThreadQueue[s]) \in Seq(Buffers)
<1>1. mThreadQueue[s] \in Seq(Buffers)
  OBVIOUS
<1> QED
  BY <1>1, HeadTailProperties

\* The device thread's steps.
LEMMA DeviceMoves ==
  ASSUME TypeInv, deviceThread
  PROVE  Moved("device")
<1>1. "device" \in Threads /\ ThreadTypes /\ ThreadShape("device") /\ inDriver \subseteq Buffers
  BY ThreadNames DEF TypeInv, TypeOK, ThreadTypes, Back
<1>2. /\ \A p \in DeviceAt : p \in Places("device") /\ p \notin Releasing /\ p \in Where
      /\ "check" \in Resumes("device")
  BY DEF Places, Releasing, DeviceAt, Where, Resumes
<1>3. ASSUME pc["device"] \in DeviceAt, NEW p \in DeviceAt, goto("device", p),
             UNCHANGED <<buf, cont>>, frame' \in [Threads -> Buffers \cup {NoBuffer}],
             \A u \in Threads \ {"device"} : frame'[u] = frame[u],
             frame'["device"] \in Buffers <=> p \notin Idling
      PROVE  Moved("device")
  BY <1>1, <1>2, <1>3, Going
<1>4. pc["device"] \in DeviceAt => (frame["device"] \in Buffers <=> pc["device"] \notin Idling)
  BY <1>1, <1>2 DEF ThreadShape
<1> USE DEF DeviceAt, Idling
<1>5. CASE deviceLoop
  BY <1>1, <1>3, <1>4, <1>5 DEF deviceLoop, ThreadTypes
<1>6. CASE acquireCameraFrame
  BY <1>1, <1>3, <1>6 DEF acquireCameraFrame, ThreadTypes
<1>7. CASE acquireFails
  BY <1>1, <1>3, <1>4, <1>7 DEF acquireFails, ThreadTypes
<1>8. CASE dispatchCameraFrame
  BY <1>1, <1>3, <1>4, <1>8 DEF dispatchCameraFrame, ThreadTypes
<1>9. CASE readListener \/ handleCameraFrame \/ frameNotWanted
  BY <1>1, <1>3, <1>4, <1>9 DEF readListener, handleCameraFrame, frameNotWanted, called, ThreadTypes
<1>10. CASE dispatchEnds
  <2>1. /\ frame["device"] \in Buffers /\ calls("device", frame["device"], "check")
        /\ frame' = [frame EXCEPT !["device"] = NoBuffer]
    BY <1>4, <1>10 DEF dispatchEnds
  <2>2. /\ frame' \in [Threads -> Buffers \cup {NoBuffer}] /\ frame'["device"] \notin Buffers
        /\ \A u \in Threads \ {"device"} : frame'[u] = frame[u]
    BY <1>1, <2>1, PipelineAssumption DEF ThreadTypes
  <2> QED
    BY <1>1, <1>2, <2>1, <2>2, Calling
<1>11. CASE releasing("device")
  BY <1>1, <1>11, ReleasingMoves
<1> QED
  BY <1>5, <1>6, <1>7, <1>8, <1>9, <1>10, <1>11 DEF deviceThread

\* A stream thread's steps.
LEMMA StreamMoves ==
  ASSUME TypeInv, NEW s \in Streams, streamThread(s)
  PROVE  Moved(s)
<1>1. s \in Threads /\ ThreadTypes /\ ThreadShape(s) /\ inWindow \subseteq Buffers
      /\ s # "device" /\ mThreadQueue \in [Streams -> Seq(Buffers)]
  BY ThreadNames DEF TypeInv, TypeOK, ThreadTypes, Back
<1>2. /\ \A p \in StreamAt : p \in Places(s) /\ p \notin Releasing /\ p \in Where
      /\ {"wait", "cancel", "fail"} \subseteq Resumes(s)
  BY <1>1 DEF Places, Releasing, StreamAt, PreviewAt, Where, Resumes
<1>3. ASSUME pc[s] \in StreamAt, NEW p \in StreamAt, goto(s, p),
             UNCHANGED <<buf, cont>>, frame' \in [Threads -> Buffers \cup {NoBuffer}],
             \A u \in Threads \ {s} : frame'[u] = frame[u],
             frame'[s] \in Buffers <=> p \notin Idling
      PROVE  Moved(s)
  BY <1>1, <1>2, <1>3, Going
<1>4. pc[s] \in StreamAt => (frame[s] \in Buffers <=> pc[s] \notin Idling)
  BY <1>1, <1>2 DEF ThreadShape
<1>5. CASE takeFrame(s)
  <2> DEFINE b == Head(mThreadQueue[s])
  <2>1. b \in Buffers /\ frame' = [frame EXCEPT ![s] = b]
    BY <1>1, <1>5, HeadOfQueue DEF takeFrame
  <2>2. /\ frame' \in [Threads -> Buffers \cup {NoBuffer}] /\ frame'[s] \in Buffers
        /\ \A u \in Threads \ {s} : frame'[u] = frame[u]
    BY <1>1, <2>1 DEF ThreadTypes
  <2>3. CASE calls(s, b, "cancel")
    BY <1>1, <1>2, <2>1, <2>2, <2>3, Calling DEF Idling
  <2>4. CASE goto(s, "process") /\ UNCHANGED <<buf, cont>>
    BY <1>3, <1>5, <2>2, <2>4 DEF StreamAt, Idling, takeFrame
  <2> QED
    BY <1>5, <2>3, <2>4 DEF takeFrame
<1>6. CASE finishFrame(s)
  <2>1. /\ frame[s] \in Buffers /\ calls(s, frame[s], "wait")
        /\ frame' = [frame EXCEPT ![s] = NoBuffer]
    BY <1>4, <1>6 DEF finishFrame, StreamAt, Idling
  <2>2. /\ frame' \in [Threads -> Buffers \cup {NoBuffer}] /\ frame'[s] \notin Buffers
        /\ \A u \in Threads \ {s} : frame'[u] = frame[u]
    BY <1>1, <2>1, PipelineAssumption DEF ThreadTypes
  <2> QED
    BY <1>1, <1>2, <2>1, <2>2, Calling DEF Idling
<1>7. CASE cancelBuffer(s)
  <2>1. /\ frame' = [frame EXCEPT ![s] = NoBuffer] /\ goto(s, "wait")
        /\ UNCHANGED <<buf, cont>> /\ pc[s] \in StreamAt
    BY <1>7 DEF cancelBuffer, StreamAt
  <2>2. /\ frame' \in [Threads -> Buffers \cup {NoBuffer}] /\ frame'[s] \notin Buffers
        /\ \A u \in Threads \ {s} : frame'[u] = frame[u]
    BY <1>1, <2>1, PipelineAssumption DEF ThreadTypes
  <2> QED
    BY <1>3, <2>1, <2>2 DEF StreamAt, Idling
<1>8. ASSUME NEW what, pc[s] \notin Idling \cup Releasing, fails(s, what)
      PROVE  Moved(s)
  <2>1. frame[s] \in Buffers /\ calls(s, frame[s], "fail") /\ frame' = frame
    BY <1>1, <1>8 DEF fails, ThreadShape
  <2> QED
    BY <1>1, <1>2, <2>1, Calling DEF Idling, ThreadTypes
<1>9. CASE s = "preview" /\ processPreview
  <2>1. \A p \in PreviewAt : p \in Places(s) /\ p \notin Releasing /\ p \in Where
    BY <1>9 DEF Places, Releasing, StreamAt, PreviewAt, Where
  <2>2. pc[s] \in {"process", "hold", "request"} => frame[s] \in Buffers
    BY <1>1, <2>1 DEF ThreadShape, Releasing, Idling
  <2>3. CASE renderBuffer
    BY <1>1, <1>9, <2>1, <2>2, <2>3, Going
    DEF renderBuffer, PreviewAt, StreamAt, Idling, ThreadTypes
  <2>4. CASE holdFrame
    BY <1>1, <1>9, <2>1, <2>2, <2>4, Going
    DEF holdFrame, PreviewAt, StreamAt, Idling, ThreadTypes
  <2>5. CASE requestBuffer
    <3>1. PICK b \in inWindow : calls("preview", b, "finish")
      BY <2>5 DEF requestBuffer
    <3>2. frame' = frame /\ frame[s] \in Buffers /\ "finish" \in Resumes(s)
      BY <1>9, <2>2, <2>5 DEF requestBuffer, Resumes
    <3> QED
      BY <1>1, <1>9, <3>1, <3>2, Calling DEF Idling, ThreadTypes
  <2>6. CASE pc["preview"] = "process" /\ fails("preview", "render")
    BY <1>8, <1>9, <2>6 DEF Idling, Releasing
  <2>7. CASE pc["preview"] = "request" /\ fails("preview", "request")
    BY <1>8, <1>9, <2>7 DEF Idling, Releasing
  <2> QED
    BY <1>9, <2>3, <2>4, <2>5, <2>6, <2>7 DEF processPreview
<1>10. CASE processCopy(s)
  <2>1. CASE fails(s, "request")
    BY <1>8, <1>10, <2>1 DEF Idling, Releasing, processCopy
  <2>2. CASE goto(s, "finish") /\ UNCHANGED <<frame, buf, cont>>
    BY <1>1, <1>3, <1>4, <1>10, <2>2 DEF StreamAt, Idling, processCopy, ThreadTypes
  <2> QED
    BY <1>10, <2>1, <2>2 DEF processCopy
<1>11. CASE releasing(s)
  BY <1>1, <1>11, ReleasingMoves
<1> QED
  BY <1>5, <1>6, <1>7, <1>9, <1>10, <1>11 DEF streamThread

-----------------------------------------------------------------------------
(* The listeners: their vector without one of them. *)

\* What removing the element at p does to a sequence (Vector::removeAt).
LEMMA RemovedAt ==
  ASSUME NEW S, NEW q \in Seq(S), NEW p \in 1..Len(q),
         NEW r, r = SubSeq(q, 1, p - 1) \o SubSeq(q, p + 1, Len(q))
  PROVE  /\ r \in Seq(S) /\ Len(r) = Len(q) - 1 /\ DOMAIN r = 1..(Len(q) - 1)
         /\ \A i \in 1..(Len(q) - 1) : r[i] = IF i < p THEN q[i] ELSE q[i + 1]
<1> DEFINE n == Len(q)
           a == SubSeq(q, 1, p - 1)
           b == SubSeq(q, p + 1, n)
<1>1. n \in Nat /\ DOMAIN q = 1..n /\ p \in 1..n /\ \A i \in 1..n : q[i] \in S
  BY LenProperties, ElementOfSeq
<1>2. a \in Seq(S) /\ Len(a) = p - 1 /\ \A i \in 1..(p - 1) : a[i] = q[i]
  <2>1. \A i \in 1..(p - 1) : q[i] \in S
    BY <1>1
  <2>2. /\ a \in Seq(S) /\ Len(a) = (IF 1 <= p - 1 THEN p - 1 - 1 + 1 ELSE 0)
        /\ \A i \in 1..(p - 1 - 1 + 1) : a[i] = q[1 + i - 1]
    <3>1. p - 1 \in Int
      BY <1>1
    <3> QED
      BY <2>1, <3>1, SubSeqProperties
  <2> HIDE DEF a, n
  <2>3. p - 1 - 1 + 1 = p - 1 /\ (IF 1 <= p - 1 THEN p - 1 - 1 + 1 ELSE 0) = p - 1
    BY <1>1
  <2>4. \A i \in 1..(p - 1) : 1 + i - 1 = i
    BY <1>1
  <2> QED
    BY <2>2, <2>3, <2>4
<1>3. b \in Seq(S) /\ Len(b) = n - p /\ \A i \in 1..(n - p) : b[i] = q[p + i]
  <2>1. \A i \in (p + 1)..n : q[i] \in S
    BY <1>1
  <2>2. /\ b \in Seq(S) /\ Len(b) = (IF p + 1 <= n THEN n - (p + 1) + 1 ELSE 0)
        /\ \A i \in 1..(n - (p + 1) + 1) : b[i] = q[p + 1 + i - 1]
    <3> HIDE DEF n
    <3>1. p + 1 \in Int /\ n \in Int
      BY <1>1
    <3> QED
      BY <2>1, <3>1, SubSeqProperties
  <2> HIDE DEF n, b
  <2>3. n - (p + 1) + 1 = n - p /\ (IF p + 1 <= n THEN n - (p + 1) + 1 ELSE 0) = n - p
    BY <1>1
  <2>4. \A i \in 1..(n - p) : p + 1 + i - 1 = p + i
    BY <1>1
  <2> QED
    BY <2>2, <2>3, <2>4
<1>4. r = a \o b
  OBVIOUS
<1> HIDE DEF n, a, b
<1>5. /\ r \in Seq(S) /\ Len(r) = n - 1
      /\ \A i \in 1..(n - 1) : r[i] = IF i <= p - 1 THEN a[i] ELSE b[i - (p - 1)]
  <2>1. /\ a \o b \in Seq(S) /\ Len(a \o b) = Len(a) + Len(b)
        /\ \A i \in 1..(Len(a) + Len(b)) :
             (a \o b)[i] = IF i <= Len(a) THEN a[i] ELSE b[i - Len(a)]
    BY <1>2, <1>3, ConcatProperties
  <2>2. Len(a) + Len(b) = n - 1
    BY <1>1, <1>2, <1>3
  <2> QED
    BY <1>2, <1>4, <2>1, <2>2
<1>6. DOMAIN r = 1..(n - 1)
  BY <1>5, LenProperties
<1>7. \A i \in 1..(n - 1) : r[i] = IF i < p THEN q[i] ELSE q[i + 1]
  <2> SUFFICES ASSUME NEW i \in 1..(n - 1)
               PROVE  r[i] = IF i < p THEN q[i] ELSE q[i + 1]
    OBVIOUS
  <2> DEFINE j == i - (p - 1)
  <2>1. r[i] = IF i <= p - 1 THEN a[i] ELSE b[j]
    BY <1>5
  <2>2. CASE i < p
    <3>1. i <= p - 1 /\ i \in 1..(p - 1)
      BY <1>1, <2>2
    <3> QED
      BY <1>2, <2>1, <2>2, <3>1
  <2>3. CASE ~(i < p)
    <3>1. j \in 1..(n - p) /\ p + j = i + 1 /\ ~(i <= p - 1)
      BY <1>1, <2>3
    <3>2. b[j] = q[p + j]
      BY <1>3, <3>1
    <3> QED
      BY <2>1, <2>3, <3>1, <3>2
  <2> QED
    BY <2>2, <2>3
<1> QED
  BY <1>5, <1>6, <1>7 DEF n

\* A listening stream has a place.
LEMMA PlaceOfListener ==
  ASSUME mFrameListeners \in Seq(Streams), NEW s \in Streams, Listening(s)
  PROVE  place(s) \in 1..Len(mFrameListeners) /\ mFrameListeners[place(s)] = s
BY LenProperties DEF Listening, place

\* A stream that stops listening leaves the vector a vector of streams, one
\* shorter, and what was last behind it if a dispatch is under way.
LEMMA UnlistenedTyped ==
  ASSUME mFrameListeners \in Seq(Streams), nSize \in Nat, NEW s \in Streams, removeFrameListener(s)
  PROVE  /\ mFrameListeners' \in Seq(Streams)
         /\ pastEnd \in Streams \cup {"none"} => pastEnd' \in Streams \cup {"none"}
         /\ (pastEnd = "none" => nSize <= Len(mFrameListeners))
              => (pastEnd' = "none" => nSize <= Len(mFrameListeners'))
         /\ owed' \subseteq owed /\ UNCHANGED <<nSize, next, listener>>
<1>1. CASE Listening(s)
  <2>1. place(s) \in 1..Len(mFrameListeners) /\ Len(mFrameListeners) \in Nat
    BY <1>1, PlaceOfListener, LenProperties
  <2>2. mFrameListeners' \in Seq(Streams) /\ Len(mFrameListeners') = Len(mFrameListeners) - 1
    BY <1>1, <2>1, RemovedAt DEF removeFrameListener
  <2>3. mFrameListeners[Len(mFrameListeners)] \in Streams
    BY <2>1, ElementOfSeq
  <2>4. pastEnd' = IF nSize = 0 THEN "none" ELSE mFrameListeners[Len(mFrameListeners)]
    BY <1>1 DEF removeFrameListener
  <2>5. "none" \notin Streams
    BY ThreadNames, PipelineAssumption DEF Streams
  <2> QED
    BY <2>1, <2>2, <2>3, <2>4, <2>5 DEF removeFrameListener
<1>2. CASE ~Listening(s)
  BY <1>2 DEF removeFrameListener
<1> QED
  BY <1>1, <1>2

-----------------------------------------------------------------------------
(* TypeInv is kept. *)

\* What starts and stops the threads.
LEMMA ControlMoves ==
  ASSUME TypeInv, NEW s \in Streams,
         \/ consumer(s) \/ configure \/ startSteps \/ stopPreview \/ stopSteps
  PROVE  (\E t \in Threads : Moved(t)) \/ UNCHANGED threadVars
<1>1. s \in Threads /\ ThreadTypes /\ \A t \in Threads : ThreadShape(t)
  BY ThreadNames DEF TypeInv, TypeOK, ThreadTypes, Back
<1>2. ASSUME NEW t \in Threads, NEW p \in {"none", "wait", "check"}, p \in Places(t),
             pc[t] \in Idling, goto(t, p), UNCHANGED <<frame, buf, cont>>
      PROVE  Moved(t)
  <2>1. pc[t] \notin Releasing /\ (frame[t] \in Buffers <=> p \notin Idling)
    BY <1>1, <1>2 DEF ThreadShape, Idling, Releasing
  <2> QED
    BY <1>1, <1>2, <2>1, Going DEF Releasing, Where, ThreadTypes
<1>3. \A t \in Streams : {"none", "wait"} \subseteq Places(t)
  BY ThreadNames DEF Places, StreamAt, PreviewAt
<1>4. {"none", "check"} \subseteq Places("device") /\ "device" \in Threads /\ "preview" \in Threads
  BY ThreadNames DEF Places, DeviceAt
<1>5. CASE startConsumer(s)
  BY <1>1, <1>2, <1>3, <1>5 DEF startConsumer, startThread, goto, Idling
<1>6. CASE stopConsumer(s) \/ unlistenConsumer(s) \/ enableReceiveFrame
  BY <1>6 DEF stopConsumer, unlistenConsumer, enableReceiveFrame
<1>7. CASE releaseConsumer(s)
  BY <1>1, <1>2, <1>3, <1>7 DEF releaseConsumer, exitThread, goto, Idling
<1>8. CASE startStream
  <2>1. pc["preview"] = "none"
    BY <1>8 DEF TypeInv, Phases, startStream
  <2> QED
    BY <1>2, <1>3, <1>4, <1>8, <2>1, ThreadNames DEF startStream, startThread, goto, Idling
<1>9. CASE streamOn
  <2>1. pc["device"] = "none"
    BY <1>9 DEF TypeInv, Phases, streamOn
  <2> QED
    BY <1>2, <1>4, <1>9, <2>1 DEF streamOn, Idling
<1>10. CASE joinDevice
  BY <1>2, <1>4, <1>10 DEF joinDevice, Idling
<1>11. CASE exitStream
  BY <1>2, <1>3, <1>4, <1>11, ThreadNames DEF exitStream, exitThread, goto, Idling
<1>12. CASE \/ configure \/ holdInService \/ startPreview \/ fillDevice \/ stopPreview \/ streamOff
            \/ clearDevice \/ zeroQueued \/ unlisten \/ stopStream \/ freeBuffers
  BY <1>12 DEF configure, holdInService, startPreview, fillDevice, stopPreview, streamOff,
               clearDevice, zeroQueued, unlisten, stopStream, freeBuffers
<1> QED
  BY <1>5, <1>6, <1>7, <1>8, <1>9, <1>10, <1>11, <1>12 DEF consumer, startSteps, stopSteps

\* The types of what the threads share.
Shared == /\ mRefCount \in [Buffers -> Nat]
          /\ mBufState \in [Buffers -> {"FREE", "IN_DRIVER", "IN_SERVICE"}]
          /\ inDriver \subseteq Buffers /\ inWindow \subseteq Buffers
          /\ displayed \in Buffers \cup {NoBuffer}
          /\ mPreviewing \in BOOLEAN /\ isStreamOn \in BOOLEAN
          /\ mQueued \in Int
          /\ mFrameListeners \in Seq(Streams) /\ nSize \in Nat /\ next \in Nat
          /\ listener \in Streams \cup {"none"} /\ pastEnd \in Streams \cup {"none"}
          /\ mReceiveFrame \subseteq Streams /\ owed \subseteq Streams
          /\ dropped \in [Buffers -> Nat]
          /\ mThreadQueue \in [Streams -> Seq(Buffers)]
          /\ mStreamState \in [Streams -> {"INVALID", "STARTED", "STOPPED", "EXITED"}]

\* The types are those of the shared state and those of the threads.
LEMMA TypeParts == TypeOK <=> Shared /\ ThreadTypes
BY DEF TypeOK, Shared, ThreadTypes, Back

\* What release() and the observer do to it.
LEMMA ReleasingTyped ==
  ASSUME Shared, NEW t \in Threads, ThreadShape(t), releasing(t)
  PROVE  Shared'
<1>1. pc[t] \in Releasing /\ buf[t] \in Buffers
  BY DEF releasing, release, handleFrameRelease, fillCameraFrame, countQueued,
         ThreadShape, Releasing
<1> USE DEF bufferVars, deviceVars, loopVars, dispatchVars, streamVars, Shared
<1>2. CASE release(t)
  <2>1. mRefCount' \in [Buffers -> Nat]
    BY <1>1, <1>2 DEF release
  <2> QED
    BY <1>2, <2>1 DEF release
<1>3. CASE handleFrameRelease(t)
  BY <1>3 DEF handleFrameRelease
<1>4. CASE fillCameraFrame(t)
  BY <1>1, <1>4 DEF fillCameraFrame
<1>5. CASE countQueued(t)
  BY <1>5 DEF countQueued
<1> QED
  BY <1>2, <1>3, <1>4, <1>5 DEF releasing

\* What the vector holds at an index of the loop is a stream.
LEMMA SlotsAreStreams ==
  ASSUME Shared, Slots, pc["device"] = "each", inLoop
  PROVE  listenerAt(next) \in Streams
<1>1. next \in Nat /\ next >= 1 /\ nSize \in Nat /\ next <= nSize /\ Len(mFrameListeners) \in Nat
  BY LenProperties DEF Shared, Slots, inLoop
<1>2. CASE next <= Len(mFrameListeners)
  BY <1>1, <1>2, ElementOfSeq DEF Shared, listenerAt
<1>3. CASE ~(next <= Len(mFrameListeners))
  BY <1>1, <1>3 DEF Shared, Slots, listenerAt
<1> QED
  BY <1>2, <1>3

\* What the device thread does to it.
LEMMA DeviceTyped ==
  ASSUME Shared, Slots, ThreadShape("device"), deviceThread
  PROVE  Shared'
<1> USE DEF bufferVars, deviceVars, loopVars, dispatchVars, streamVars, Shared
<1>1. pc["device"] \in {"dispatch", "call"} => frame["device"] \in Buffers
  BY DEF ThreadShape, Releasing, Idling
<1>2. Len(mFrameListeners) \in Nat /\ {mFrameListeners[i] : i \in DOMAIN mFrameListeners} \subseteq Streams
  <2>1. \A i \in DOMAIN mFrameListeners : mFrameListeners[i] \in Streams
    BY ElementOfSeq, LenProperties
  <2> QED
    BY <2>1, LenProperties
<1>3. CASE deviceLoop \/ acquireFails
  BY <1>3 DEF deviceLoop, acquireFails
<1>4. CASE acquireCameraFrame
  BY <1>4 DEF acquireCameraFrame
<1>5. CASE dispatchCameraFrame
  BY <1>1, <1>2, <1>5 DEF dispatchCameraFrame, addReference
<1>6. CASE readListener
  <2>1. next' \in Nat /\ listener' \in Streams
    BY <1>6, SlotsAreStreams DEF readListener
  <2> QED
    BY <1>6, <2>1 DEF readListener
<1>7. CASE handleCameraFrame
  <2>1. frame["device"] \in Buffers /\ listener \in Streams
    BY <1>1, <1>7 DEF handleCameraFrame, called, Slots
  <2>2. Append(mThreadQueue[listener], frame["device"]) \in Seq(Buffers)
    BY <2>1, AppendProperties
  <2>3. mThreadQueue' \in [Streams -> Seq(Buffers)] /\ dropped' \in [Buffers -> Nat]
    <3>1. CASE pc[listener] = "none"
      BY <1>7, <2>1, <3>1 DEF handleCameraFrame
    <3>2. CASE pc[listener] # "none"
      BY <1>7, <2>1, <2>2, <3>2 DEF handleCameraFrame
    <3> QED
      BY <3>1, <3>2
  <2>4. mRefCount' \in [Buffers -> Nat]
    BY <1>7, <2>1 DEF handleCameraFrame, addReference
  <2> QED
    BY <1>7, <2>3, <2>4 DEF handleCameraFrame, called
<1>8. CASE frameNotWanted
  BY <1>8 DEF frameNotWanted, called
<1>9. CASE dispatchEnds
  BY <1>9 DEF dispatchEnds
<1>10. CASE releasing("device")
  BY <1>10, ReleasingTyped, ThreadNames
<1> QED
  BY <1>3, <1>4, <1>5, <1>6, <1>7, <1>8, <1>9, <1>10 DEF deviceThread

\* What a stream thread does to it.
LEMMA StreamTyped ==
  ASSUME Shared, NEW s \in Streams, ThreadShape(s), streamThread(s)
  PROVE  Shared'
<1> USE DEF bufferVars, deviceVars, loopVars, dispatchVars, streamVars, Shared
<1>1. pc[s] \in {"process", "hold", "request", "finish", "cancel", "fail"} => frame[s] \in Buffers
  BY DEF ThreadShape, Releasing, Idling
<1>2. CASE takeFrame(s)
  <2>1. mThreadQueue' \in [Streams -> Seq(Buffers)]
    BY <1>2, HeadOfQueue DEF takeFrame
  <2> QED
    BY <1>2, <2>1 DEF takeFrame
<1>3. CASE finishFrame(s)
  BY <1>3 DEF finishFrame
<1>4. CASE cancelBuffer(s)
  BY <1>1, <1>4 DEF cancelBuffer
<1>5. CASE s = "preview" /\ processPreview
  <2>1. CASE renderBuffer
    BY <1>1, <1>5, <2>1 DEF renderBuffer
  <2>2. CASE holdFrame
    BY <1>1, <1>5, <2>2 DEF holdFrame, addReference
  <2>3. CASE requestBuffer
    BY <2>3 DEF requestBuffer
  <2>4. CASE fails("preview", "render") \/ fails("preview", "request")
    BY <2>4 DEF fails
  <2> QED
    BY <1>5, <2>1, <2>2, <2>3, <2>4 DEF processPreview
<1>6. CASE processCopy(s)
  BY <1>6 DEF processCopy, fails
<1>7. CASE releasing(s)
  BY <1>7, ReleasingTyped, ThreadNames
<1> QED
  BY <1>2, <1>3, <1>4, <1>5, <1>6, <1>7 DEF streamThread

\* What starting and stopping does to it.
LEMMA ControlTyped ==
  ASSUME Shared, NEW s \in Streams,
         \/ consumer(s) \/ configure \/ startSteps \/ stopPreview \/ stopSteps
  PROVE  Shared'
<1> USE DEF bufferVars, deviceVars, loopVars, dispatchVars, streamVars, Shared
<1>1. ASSUME NEW u \in Streams, startThread(u)
      PROVE  /\ mThreadQueue' \in [Streams -> Seq(Buffers)] /\ mFrameListeners' \in Seq(Streams)
             /\ mStreamState' \in [Streams -> {"INVALID", "STARTED", "STOPPED", "EXITED"}]
             /\ mReceiveFrame' \subseteq Streams /\ owed' \subseteq Streams
             /\ UNCHANGED <<pastEnd, nSize, next, listener, dropped>>
  <2>1. Append(mFrameListeners, u) \in Seq(Streams) /\ <<>> \in Seq(Buffers)
    BY <1>1, AppendProperties, EmptySeq
  <2> QED
    BY <1>1, <2>1 DEF startThread
<1>2. ASSUME NEW u \in Streams, exitThread(u)
      PROVE  /\ mThreadQueue' \in [Streams -> Seq(Buffers)]
             /\ mStreamState' \in [Streams -> {"INVALID", "STARTED", "STOPPED", "EXITED"}]
             /\ dropped' \in [Buffers -> Nat] /\ UNCHANGED mReceiveFrame
  <2> DEFINE lost(b) == Cardinality({i \in DOMAIN mThreadQueue[u] : mThreadQueue[u][i] = b})
  <2>1. <<>> \in Seq(Buffers)
    BY EmptySeq
  <2>2. ASSUME NEW b \in Buffers
        PROVE  lost(b) \in Nat
    <3>1. DOMAIN mThreadQueue[u] = 1..Len(mThreadQueue[u]) /\ Len(mThreadQueue[u]) \in Nat
      BY <1>2, LenProperties
    <3>2. IsFiniteSet(DOMAIN mThreadQueue[u])
      BY <3>1, FS_Interval
    <3> QED
      BY <3>2, FS_Subset, FS_CardinalityType
  <2>3. dropped' = [b \in Buffers |-> dropped[b] + lost(b)]
    BY <1>2 DEF exitThread
  <2> HIDE DEF lost
  <2>4. dropped' \in [Buffers -> Nat]
    BY <2>2, <2>3
  <2> QED
    BY <1>2, <2>1, <2>4 DEF exitThread
<1>3. ASSUME NEW u \in Streams, stopThread(u)
      PROVE  mStreamState' \in [Streams -> {"INVALID", "STARTED", "STOPPED", "EXITED"}]
  BY <1>3 DEF stopThread
<1>4. CASE startConsumer(s)
  BY <1>1, <1>4 DEF startConsumer
<1>16. CASE enableReceiveFrame
  <2>1. Jpeg \in Streams
    BY <1>16, PlaceOfListener, ElementOfSeq, LenProperties DEF enableReceiveFrame, Listening
  <2> QED
    BY <1>16, <2>1 DEF enableReceiveFrame
<1>17. CASE unlistenConsumer(s)
  BY <1>17, UnlistenedTyped DEF unlistenConsumer
<1>5. CASE stopConsumer(s)
  BY <1>3, <1>5 DEF stopConsumer, stopThread
<1>6. CASE releaseConsumer(s)
  BY <1>2, <1>6 DEF releaseConsumer
<1>7. CASE configure
  BY <1>7 DEF configure
<1>8. CASE holdInService
  BY <1>8 DEF holdInService
<1>9. CASE startStream
  BY <1>1, <1>9, ThreadNames DEF startStream
<1>10. CASE fillDevice
  <2> DEFINE free == {b \in Buffers : mBufState[b] = "FREE"}
  <2>1. Cardinality(free) \in Nat
    <3>1. free \subseteq Buffers /\ IsFiniteSet(Buffers)
      BY PipelineAssumption
    <3> QED
      BY <3>1, FS_Subset, FS_CardinalityType
  <2>2. mQueued' \in Int
    BY <1>10, <2>1 DEF fillDevice
  <2> QED
    BY <1>10, <2>2 DEF fillDevice
<1>11. CASE startPreview \/ streamOn \/ stopPreview \/ joinDevice \/ streamOff
  BY <1>11 DEF startPreview, streamOn, stopPreview, joinDevice, streamOff
<1>12. CASE clearDevice \/ zeroQueued \/ freeBuffers
  <2>1. CASE clearDevice
    BY <2>1 DEF clearDevice
  <2>2. CASE zeroQueued
    BY <2>2 DEF zeroQueued
  <2>3. CASE freeBuffers
    BY <2>3 DEF freeBuffers
  <2> QED
    BY <1>12, <2>1, <2>2, <2>3
<1>13. CASE unlisten
  BY <1>13, UnlistenedTyped, ThreadNames DEF unlisten
<1>14. CASE stopStream
  BY <1>3, <1>14, ThreadNames DEF stopStream, stopThread
<1>15. CASE exitStream
  BY <1>2, <1>15, ThreadNames DEF exitStream
<1> QED
  BY <1>4, <1>5, <1>6, <1>7, <1>8, <1>9, <1>10, <1>11, <1>12, <1>13, <1>14, <1>15, <1>16, <1>17
  DEF consumer, startSteps, stopSteps

\* What the threads leave to the request thread.
LEMMA ReleasingLeaves ==
  ASSUME NEW t, releasing(t)
  PROVE  UNCHANGED <<controlVars, dispatchVars, streamVars, mPreviewing, isStreamOn, mBufState,
                     inWindow, displayed, frame>>
BY DEF releasing, release, handleFrameRelease, fillCameraFrame, countQueued, deviceVars, bufferVars

\* What a step of the device's thread leaves alone.
LEMMA DeviceLeaves ==
  ASSUME deviceThread
  PROVE  UNCHANGED <<controlVars, mFrameListeners, mPreviewing, isStreamOn, mBufState, inWindow,
                     displayed, mStreamState>>
BY ReleasingLeaves
DEF deviceThread, deviceLoop, acquireCameraFrame, acquireFails, dispatchCameraFrame, readListener,
    handleCameraFrame, frameNotWanted, called, dispatchEnds, deviceVars, bufferVars, dispatchVars,
    streamVars

\* What a step of a stream's thread leaves alone.
LEMMA StreamLeaves ==
  ASSUME NEW s \in Streams, streamThread(s)
  PROVE  UNCHANGED <<controlVars, dispatchVars, mPreviewing, isStreamOn, mBufState>>
<1> USE DEF deviceVars, bufferVars, streamVars
<1>1. CASE takeFrame(s) \/ finishFrame(s) \/ cancelBuffer(s)
  BY <1>1 DEF takeFrame, finishFrame, cancelBuffer
<1>2. CASE processPreview
  BY <1>2 DEF processPreview, renderBuffer, holdFrame, requestBuffer, fails
<1>3. CASE processCopy(s)
  BY <1>3 DEF processCopy, fails
<1>4. CASE releasing(s)
  BY <1>4, ReleasingLeaves
<1> QED
  BY <1>1, <1>2, <1>3, <1>4 DEF streamThread

\* A thread that takes a step exists.
LEMMA StreamRuns ==
  ASSUME NEW s \in Streams, streamThread(s)
  PROVE  pc[s] # "none"
BY DEF streamThread, takeFrame, finishFrame, cancelBuffer, processPreview, renderBuffer, holdFrame,
       requestBuffer, fails, processCopy, releasing, release, handleFrameRelease,
       fillCameraFrame, countQueued

\* The device's thread takes steps only while it exists.
LEMMA DeviceRuns ==
  ASSUME deviceThread
  PROVE  pc["device"] # "none"
BY DEF deviceThread, deviceLoop, acquireCameraFrame, acquireFails, dispatchCameraFrame,
       readListener, handleCameraFrame, frameNotWanted, called, dispatchEnds, releasing, release, handleFrameRelease,
       fillCameraFrame, countQueued

\* The phases are kept.
LEMMA PhasesKept ==
  ASSUME TypeInv, Next
  PROVE  Phases'
<1>0. /\ "device" \in Threads /\ "preview" \in Threads /\ "preview" # "device"
      /\ ThreadTypes /\ Shared /\ Phases /\ ThreadShape("device")
  BY ThreadNames, TypeParts DEF TypeInv, Streams, Threads
<1>1. CASE deviceThread
  <2>1. /\ Moved("device") /\ UNCHANGED control
        /\ pc["device"] # "none" /\ pc'["preview"] = pc["preview"]
    BY <1>0, <1>1, DeviceMoves, DeviceLeaves, DeviceRuns DEF controlVars, Moved
  <2> QED
    BY <1>0, <2>1 DEF Phases
<1>2. ASSUME NEW s \in Streams, streamThread(s)
      PROVE  Phases'
  <2>1. Moved(s) /\ UNCHANGED control /\ s # "device" /\ pc[s] # "none"
    BY <1>0, <1>2, StreamMoves, StreamLeaves, StreamRuns, ThreadNames DEF controlVars
  <2>2. pc'["device"] = pc["device"] /\ (s # "preview" => pc'["preview"] = pc["preview"])
    BY <1>0, <2>1 DEF Moved
  <2> QED
    BY <1>0, <2>1, <2>2 DEF Phases
<1>3. ASSUME NEW s \in Consumers, consumer(s)
      PROVE  Phases'
  <2>1. UNCHANGED control /\ s # "device" /\ s # "preview" /\ s \in Streams
    BY <1>3, ThreadNames
    DEF consumer, startConsumer, unlistenConsumer, stopConsumer, releaseConsumer, enableReceiveFrame,
        controlVars
  <2>2. pc'["device"] = pc["device"] /\ pc'["preview"] = pc["preview"]
    BY <1>0, <1>3, <2>1
    DEF consumer, startConsumer, unlistenConsumer, stopConsumer, releaseConsumer, enableReceiveFrame,
        startThread, exitThread, threadVars, ThreadTypes
  <2> QED
    BY <1>0, <2>1, <2>2 DEF Phases
<1>4. CASE configure \/ startSteps
  <2>1. pc["device"] = "none" /\ control' \in {"service", "start", "flag", "fill", "on", "running"}
    BY <1>0, <1>4
    DEF configure, startSteps, holdInService, startStream, startPreview, fillDevice, streamOn, Phases
  <2>2. CASE configure \/ holdInService
    BY <1>0, <2>1, <2>2 DEF configure, holdInService, Phases, threadVars, Serving, Outside
  <2>3. CASE startStream
    BY <1>0, <2>1, <2>3 DEF startStream, startThread, Phases, Serving, Outside, ThreadTypes
  <2>4. CASE startPreview \/ fillDevice
    BY <1>0, <2>1, <2>4 DEF startPreview, fillDevice, Phases, Serving, Outside, threadVars
  <2>5. CASE streamOn
    BY <1>0, <2>1, <2>5 DEF streamOn, goto, Phases, Serving, Outside, ThreadTypes
  <2> QED
    BY <1>4, <2>2, <2>3, <2>4, <2>5 DEF startSteps
<1>5. CASE stopPreview
  BY <1>0, <1>5 DEF stopPreview, Phases, Serving, Outside, threadVars
<1>6. CASE stopSteps
  <2>1. control' # "running" /\ control' # "join" /\ control' \in Serving \cup Outside
    BY <1>6
    DEF stopSteps, joinDevice, streamOff, clearDevice, zeroQueued, unlisten, stopStream, exitStream,
        freeBuffers, Serving, Outside
  <2>2. pc'["device"] = "none"
    <3>1. CASE joinDevice
      BY <1>0, <3>1 DEF joinDevice, goto, ThreadTypes
    <3>2. CASE exitStream
      BY <1>0, <3>2 DEF exitStream, exitThread, ThreadTypes, Phases
    <3>3. CASE streamOff \/ clearDevice \/ zeroQueued \/ unlisten \/ stopStream \/ freeBuffers
      BY <1>0, <3>3
      DEF streamOff, clearDevice, zeroQueued, unlisten, stopStream, freeBuffers, threadVars, Phases
    <3> QED
      BY <1>6, <3>1, <3>2, <3>3 DEF stopSteps
  <2>3. control' \in {"off", "service", "start", "free"} => pc'["preview"] = "none"
    <3>1. CASE exitStream
      BY <1>0, <3>1 DEF exitStream, exitThread, ThreadTypes
    <3>2. CASE freeBuffers
      BY <1>0, <3>2 DEF freeBuffers, threadVars, Phases
    <3>3. CASE joinDevice \/ streamOff \/ clearDevice \/ zeroQueued \/ unlisten \/ stopStream
      BY <3>3 DEF joinDevice, streamOff, clearDevice, zeroQueued, unlisten, stopStream
    <3> QED
      BY <1>6, <3>1, <3>2, <3>3 DEF stopSteps
  <2> QED
    BY <2>1, <2>2, <2>3 DEF Phases
<1> QED
  BY <1>1, <1>2, <1>3, <1>4, <1>5, <1>6 DEF Next

\* What the device thread reads of the listeners is kept readable.
LEMMA SlotsKept ==
  ASSUME TypeInv, Next
  PROVE  Slots'
<1>0. /\ "device" \in Threads /\ ThreadTypes /\ Shared /\ Phases /\ Slots /\ ThreadShape("device")
      /\ Len(mFrameListeners) \in Nat
  BY ThreadNames, TypeParts, LenProperties DEF TypeInv, Shared
<1>1. CASE deviceThread
  <2>1. CASE deviceLoop \/ acquireCameraFrame \/ acquireFails
    BY <1>0, <2>1
    DEF deviceLoop, acquireCameraFrame, acquireFails, goto, ThreadTypes, Slots, dispatchVars, loopVars
  <2>2. CASE dispatchCameraFrame
    BY <1>0, <2>2 DEF dispatchCameraFrame, goto, ThreadTypes, Slots
  <2>3. CASE readListener
    <3>1. listener' \in Streams /\ next' >= 1
      BY <1>0, <2>3, SlotsAreStreams DEF readListener, Slots, Shared
    <3> QED
      BY <1>0, <2>3, <3>1 DEF readListener, goto, ThreadTypes, Slots
  <2>4. CASE handleCameraFrame \/ frameNotWanted
    BY <1>0, <2>4 DEF handleCameraFrame, frameNotWanted, called, goto, ThreadTypes, Slots
  <2>5. CASE dispatchEnds
    BY <1>0, <2>5 DEF dispatchEnds, calls, goto, ThreadTypes, Slots
  <2>6. CASE releasing("device")
    <3>1. pc["device"] \in Releasing /\ pc'["device"] \in Releasing \cup {"check"}
      BY <1>0, <2>6
      DEF releasing, release, handleFrameRelease, fillCameraFrame, countQueued, goto, returns,
          ThreadTypes, ThreadShape, Resumes, Releasing
    <3> QED
      BY <1>0, <2>6, <3>1, ReleasingLeaves DEF Releasing, Slots, dispatchVars, loopVars
  <2> QED
    BY <1>1, <2>1, <2>2, <2>3, <2>4, <2>5, <2>6 DEF deviceThread
<1>2. ASSUME NEW s \in Streams, streamThread(s)
      PROVE  Slots'
  <2>1. UNCHANGED dispatchVars /\ pc'["device"] = pc["device"]
    BY <1>0, <1>2, StreamMoves, StreamLeaves, ThreadNames DEF Moved
  <2> QED
    BY <1>0, <2>1 DEF Slots, dispatchVars, loopVars
<1>3. ASSUME UNCHANGED <<nSize, next, listener>>, pc'["device"] = pc["device"],
             (pastEnd = "none" => nSize <= Len(mFrameListeners))
                => (pastEnd' = "none" => nSize <= Len(mFrameListeners'))
      PROVE  Slots'
  BY <1>0, <1>3 DEF Slots
<1>4. ASSUME NEW s \in Streams, startThread(s)
      PROVE  /\ UNCHANGED <<nSize, next, listener>> /\ pc'["device"] = pc["device"]
             /\ (pastEnd = "none" => nSize <= Len(mFrameListeners))
                   => (pastEnd' = "none" => nSize <= Len(mFrameListeners'))
  <2>1. Len(mFrameListeners') \in Nat /\ Len(mFrameListeners') >= Len(mFrameListeners)
    BY <1>0, <1>4, AppendProperties, LenProperties DEF startThread, Shared
  <2> QED
    BY <1>0, <1>4, <2>1, ThreadNames DEF startThread, ThreadTypes, Shared
<1>5. ASSUME NEW s \in Consumers, consumer(s)
      PROVE  Slots'
  <2>1. s \in Streams /\ s # "device"
    BY ThreadNames
  <2>2. CASE startConsumer(s)
    BY <1>3, <1>4, <2>1, <2>2 DEF startConsumer
  <2>3. CASE unlistenConsumer(s)
    BY <1>0, <1>3, <2>1, <2>3, UnlistenedTyped DEF unlistenConsumer, threadVars, Shared
  <2>4. CASE stopConsumer(s) \/ enableReceiveFrame
    BY <1>3, <2>4 DEF stopConsumer, enableReceiveFrame, threadVars, dispatchVars, loopVars
  <2>5. CASE releaseConsumer(s)
    BY <1>0, <1>3, <2>1, <2>5 DEF releaseConsumer, exitThread, ThreadTypes, dispatchVars, loopVars
  <2> QED
    BY <1>5, <2>2, <2>3, <2>4, <2>5 DEF consumer
<1>6. CASE configure \/ startSteps
  <2>1. CASE configure \/ holdInService \/ startPreview \/ fillDevice
    BY <1>3, <2>1
    DEF configure, holdInService, startPreview, fillDevice, threadVars, dispatchVars, loopVars
  <2>2. CASE startStream
    BY <1>3, <1>4, <2>2, ThreadNames DEF startStream
  <2>3. CASE streamOn
    BY <1>0, <2>3 DEF streamOn, goto, ThreadTypes, Slots, Phases, dispatchVars, loopVars
  <2> QED
    BY <1>6, <2>1, <2>2, <2>3 DEF startSteps
<1>7. CASE stopPreview \/ stopSteps
  <2>1. CASE stopPreview \/ streamOff \/ clearDevice \/ zeroQueued \/ stopStream \/ freeBuffers
    BY <1>3, <2>1
    DEF stopPreview, streamOff, clearDevice, zeroQueued, stopStream, freeBuffers, threadVars,
        dispatchVars, loopVars
  <2>2. CASE joinDevice
    BY <1>0, <2>2 DEF joinDevice, goto, ThreadTypes, Slots, dispatchVars, loopVars
  <2>3. CASE unlisten
    BY <1>0, <1>3, <2>3, UnlistenedTyped, ThreadNames DEF unlisten, threadVars, Shared
  <2>4. CASE exitStream
    BY <1>0, <1>3, <2>4, ThreadNames DEF exitStream, exitThread, ThreadTypes, dispatchVars, loopVars
  <2> QED
    BY <1>7, <2>1, <2>2, <2>3, <2>4 DEF stopSteps
<1> QED
  BY <1>1, <1>2, <1>5, <1>6, <1>7 DEF Next

\* The initial states and every step keep TypeInv.
LEMMA TypeInit == Init => TypeInv
<1> SUFFICES ASSUME Init
             PROVE  TypeInv
  OBVIOUS
<1>1. Shared
  <2>1. <<>> \in Seq(Buffers) /\ <<>> \in Seq(Streams)
    BY EmptySeq
  <2>2. mThreadQueue \in [Streams -> Seq(Buffers)] /\ mFrameListeners \in Seq(Streams)
    BY <2>1 DEF Init
  <2>3. /\ mRefCount \in [Buffers -> Nat]
        /\ mBufState \in [Buffers -> {"FREE", "IN_DRIVER", "IN_SERVICE"}]
        /\ mStreamState \in [Streams -> {"INVALID", "STARTED", "STOPPED", "EXITED"}]
    BY DEF Init
  <2>4. /\ inDriver \subseteq Buffers /\ inWindow \subseteq Buffers
        /\ displayed \in Buffers \cup {NoBuffer} /\ mQueued \in Int /\ nSize \in Nat /\ next \in Nat
    BY DEF Init
  <2>6. /\ listener \in Streams \cup {"none"} /\ pastEnd \in Streams \cup {"none"}
        /\ mReceiveFrame \subseteq Streams /\ owed \subseteq Streams /\ dropped \in [Buffers -> Nat]
    BY DEF Init
  <2>5. mPreviewing \in BOOLEAN /\ isStreamOn \in BOOLEAN
    BY DEF Init
  <2> QED
    BY <2>2, <2>3, <2>4, <2>5, <2>6 DEF Shared
<1>2. ThreadTypes /\ Phases
  BY ThreadNames DEF Init, ThreadTypes, Phases, Where, Back, Outside
<1>4. Slots
  <2>1. Len(mFrameListeners) \in Nat /\ nSize = 0 /\ pc["device"] = "none"
    BY ThreadNames, LenProperties, <1>1 DEF Init, Shared
  <2> QED
    BY <2>1 DEF Slots
<1>3. \A t \in Threads : ThreadShape(t)
  BY PipelineAssumption
  DEF Init, ThreadShape, Places, DeviceAt, StreamAt, PreviewAt, Releasing, Idling
<1> QED
  BY <1>1, <1>2, <1>3, <1>4, TypeParts DEF TypeInv

\* Every step keeps the types, the phases and the shape of each thread.
LEMMA TypeStep == TypeInv /\ [Next]_vars => TypeInv'
<1> SUFFICES ASSUME TypeInv, [Next]_vars
             PROVE  TypeInv'
  OBVIOUS
<1>0. ThreadTypes /\ Shared /\ Phases /\ Slots /\ \A t \in Threads : ThreadShape(t)
  BY TypeParts DEF TypeInv
<1>1. CASE Next
  <2>1. (\E t \in Threads : Moved(t)) \/ UNCHANGED threadVars
    BY <1>1, DeviceMoves, StreamMoves, ControlMoves, ThreadNames DEF Next
  <2>2. ThreadTypes' /\ \A t \in Threads : ThreadShape(t)'
    BY <1>0, <2>1 DEF Moved, ThreadTypes, threadVars, ThreadShape
  <2>3. Shared'
    BY <1>0, <1>1, DeviceTyped, StreamTyped, ControlTyped, ThreadNames DEF Next
  <2>4. Phases' /\ Slots'
    BY <1>1, PhasesKept, SlotsKept
  <2>5. TypeOK'
    BY <2>2, <2>3 DEF TypeOK, Shared, ThreadTypes, Back
  <2> QED
    BY <2>2, <2>4, <2>5 DEF TypeInv
<1>2. CASE UNCHANGED vars
  BY <1>0, <1>2
  DEF vars, bufferVars, deviceVars, loopVars, dispatchVars, streamVars, threadVars, controlVars, TypeInv,
      TypeOK, Phases, Slots, ThreadShape
<1> QED
  BY <1>1, <1>2

\* The types, the phases and the shape of each thread hold in all states,
\* whatever of the driver, the window and the threads fails.
THEOREM TypeInvariant == Spec => []TypeInv
BY TypeInit, TypeStep, PTL DEF Spec

\* Every variable of the pipeline keeps its type whatever fails: in particular no
\* reference count falls below zero and every queue holds frames, never NULL.
THEOREM PipelineTyped == Spec => []TypeOK
<1>1. TypeInv => TypeOK
  BY DEF TypeInv
<1> QED
  BY <1>1, TypeInvariant, PTL

-----------------------------------------------------------------------------
(* The device's count of queued buffers. *)

counters == {t \in Threads : pc[t] = "inc"}
Balance  == mQueued + Cardinality(counters) - Cardinality(inDriver)

\* From zeroQueued on nothing counts down; from holdInService on, buffers and
\* counts start from nothing and go up and down together.
QueuedInv ==
  /\ mPreviewing => control \in {"fill", "on", "running"}
  /\ control \in {"unlisten", "stop", "exit", "free", "off", "service"} => mQueued >= 0
  /\ control \in {"start", "flag", "fill", "on", "running"} => Balance >= 0

\* The sets that are counted are finite.
LEMMA FiniteSets ==
  /\ IsFiniteSet(Buffers) /\ IsFiniteSet(Streams) /\ IsFiniteSet(Threads)
  /\ \A S \in SUBSET Threads : IsFiniteSet(S) /\ Cardinality(S) \in Nat
  /\ \A S \in SUBSET Buffers : IsFiniteSet(S) /\ Cardinality(S) \in Nat
<1>1. IsFiniteSet({"preview"} \cup Consumers)
  BY PipelineAssumption, FS_AddElement
<1>2. IsFiniteSet({"device"} \cup Streams)
  BY <1>1, FS_AddElement DEF Streams
<1>3. IsFiniteSet(Buffers) /\ IsFiniteSet(Streams) /\ IsFiniteSet(Threads)
  BY <1>1, <1>2, PipelineAssumption DEF Streams, Threads
<1> QED
  BY <1>3, FS_Subset, FS_CardinalityType

\* A frame queued to the driver again is counted in two steps, once.
LEMMA ReleasingBalanced ==
  ASSUME TypeInv, NEW t \in Threads, releasing(t)
  PROVE  Balance' = Balance /\ mQueued' >= mQueued
<1>0. /\ pc \in [Threads -> Where] /\ (pc[t] \in Releasing => cont[t] # "inc")
      /\ inDriver \subseteq Buffers /\ mQueued \in Int
  BY DEF TypeInv, TypeOK, ThreadShape, Resumes
<1>1. /\ IsFiniteSet(counters) /\ Cardinality(counters) \in Nat
      /\ IsFiniteSet(inDriver) /\ Cardinality(inDriver) \in Nat
  BY <1>0, FiniteSets DEF counters
<1>2. ASSUME pc[t] # "inc", pc' = [pc EXCEPT ![t] = "inc"]
      PROVE  Cardinality(counters') = Cardinality(counters) + 1
  <2>1. t \notin counters
    BY <1>2 DEF counters
  <2>2. pc'[t] = "inc" /\ \A u \in Threads \ {t} : pc'[u] = pc[u]
    BY <1>0, <1>2
  <2>3. counters' = counters \cup {t}
    BY <2>2 DEF counters
  <2> QED
    BY <1>1, <2>1, <2>3, FS_AddElement
<1>3. ASSUME NEW p, p # "inc", pc[t] # "inc", pc' = [pc EXCEPT ![t] = p]
      PROVE  counters' = counters
  BY <1>0, <1>3 DEF counters
<1>4. CASE release(t) \/ handleFrameRelease(t)
  <2>1. counters' = counters
    BY <1>0, <1>3, <1>4 DEF release, handleFrameRelease, goto, returns, Releasing
  <2>2. inDriver' = inDriver /\ mQueued' = mQueued
    BY <1>4 DEF release, handleFrameRelease, bufferVars, deviceVars
  <2> QED
    BY <1>0, <2>1, <2>2 DEF Balance
<1>5. CASE fillCameraFrame(t)
  <2>1. mQueued' = mQueued
    BY <1>5 DEF fillCameraFrame, deviceVars
  <2>2. CASE buf[t] \in inDriver
    <3>1. counters' = counters /\ inDriver' = inDriver
      BY <1>0, <1>3, <1>5, <2>2 DEF fillCameraFrame, goto, returns, Releasing
    <3> QED
      BY <1>0, <2>1, <3>1 DEF Balance
  <2>3. CASE buf[t] \notin inDriver
    <3>1. Cardinality(counters') = Cardinality(counters) + 1
      BY <1>2, <1>5, <2>3 DEF fillCameraFrame, goto
    <3>2. Cardinality(inDriver') = Cardinality(inDriver) + 1
      BY <1>1, <1>5, <2>3, FS_AddElement DEF fillCameraFrame
    <3> QED
      BY <1>0, <1>1, <2>1, <3>1, <3>2 DEF Balance
  <2> QED
    BY <2>2, <2>3
<1>6. CASE countQueued(t)
  <2>1. counters' = counters \ {t} /\ t \in counters
    BY <1>0, <1>6 DEF countQueued, counters, goto, returns, Releasing
  <2>2. Cardinality(counters') = Cardinality(counters) - 1
    BY <1>1, <2>1, FS_RemoveElement
  <2>3. inDriver' = inDriver /\ mQueued' = mQueued + 1
    BY <1>6 DEF countQueued, bufferVars
  <2> QED
    BY <1>0, <1>1, <2>2, <2>3 DEF Balance
<1> QED
  BY <1>4, <1>5, <1>6 DEF releasing

\* No other step of a thread begins or ends a count.
LEMMA CountersKept ==
  ASSUME pc \in [Threads -> Where], NEW t \in Threads, pc[t] # "inc",
         NEW p, p # "inc", goto(t, p)
  PROVE  counters' = counters
BY DEF counters, goto

\* The device's thread keeps the balance of counted and queued buffers.
LEMMA DeviceBalanced ==
  ASSUME TypeInv, deviceThread
  PROVE  Balance' = Balance
<1>0. pc \in [Threads -> Where] /\ "device" \in Threads /\ inDriver \subseteq Buffers /\ mQueued \in Int
  BY ThreadNames DEF TypeInv, TypeOK
<1>1. CASE releasing("device")
  BY <1>0, <1>1, ReleasingBalanced
<1>2. CASE acquireCameraFrame
  <2>1. counters' = counters
    BY <1>0, <1>2, CountersKept DEF acquireCameraFrame
  <2>2. PICK b \in inDriver : inDriver' = inDriver \ {b}
    BY <1>2 DEF acquireCameraFrame
  <2>3. IsFiniteSet(inDriver) /\ Cardinality(inDriver) \in Nat /\ Cardinality(counters) \in Nat
    BY <1>0, FiniteSets DEF counters
  <2>4. Cardinality(inDriver') = Cardinality(inDriver) - 1
    BY <2>2, <2>3, FS_RemoveElement
  <2> QED
    BY <1>0, <1>2, <2>1, <2>3, <2>4 DEF Balance, acquireCameraFrame
<1>3. CASE \/ deviceLoop \/ acquireFails \/ dispatchCameraFrame \/ readListener \/ handleCameraFrame
           \/ frameNotWanted \/ dispatchEnds
  <2>1. inDriver' = inDriver /\ mQueued' = mQueued
    BY <1>3
    DEF deviceLoop, acquireFails, dispatchCameraFrame, readListener, handleCameraFrame, frameNotWanted,
        called, dispatchEnds, bufferVars, deviceVars
  <2>2. counters' = counters
    BY <1>0, <1>3, CountersKept
    DEF deviceLoop, acquireFails, dispatchCameraFrame, readListener, handleCameraFrame, frameNotWanted,
        called, dispatchEnds, calls
  <2> QED
    BY <2>1, <2>2 DEF Balance
<1> QED
  BY <1>1, <1>2, <1>3 DEF deviceThread

\* So does a stream's thread, which only counts up.
LEMMA StreamBalanced ==
  ASSUME TypeInv, NEW s \in Streams, streamThread(s)
  PROVE  Balance' = Balance /\ mQueued' >= mQueued
<1>0. pc \in [Threads -> Where] /\ s \in Threads /\ mQueued \in Int
  BY ThreadNames DEF TypeInv, TypeOK
<1>1. CASE releasing(s)
  BY <1>0, <1>1, ReleasingBalanced
<1>2. ASSUME UNCHANGED <<mQueued, inDriver>>, pc[s] # "inc",
             NEW p, p # "inc", goto(s, p)
      PROVE  Balance' = Balance /\ mQueued' >= mQueued
  BY <1>0, <1>2, CountersKept DEF Balance
<1> USE DEF bufferVars, deviceVars, calls
<1>3. CASE takeFrame(s)
  BY <1>2, <1>3 DEF takeFrame
<1>4. CASE finishFrame(s)
  BY <1>2, <1>4 DEF finishFrame
<1>5. CASE cancelBuffer(s)
  BY <1>2, <1>5 DEF cancelBuffer
<1>6. CASE s = "preview" /\ processPreview
  BY <1>2, <1>6 DEF processPreview, renderBuffer, holdFrame, requestBuffer, fails
<1>7. CASE processCopy(s)
  BY <1>2, <1>7 DEF processCopy, fails
<1> QED
  BY <1>1, <1>3, <1>4, <1>5, <1>6, <1>7 DEF streamThread

\* Every step keeps the count of queued buffers from falling behind.
LEMMA QueuedStep == TypeInv /\ QueuedInv /\ [Next]_vars => QueuedInv'
<1> SUFFICES ASSUME TypeInv, QueuedInv, [Next]_vars
             PROVE  QueuedInv'
  OBVIOUS
<1>0. /\ pc \in [Threads -> Where] /\ inDriver \subseteq Buffers /\ mQueued \in Int
      /\ IsFiniteSet(inDriver) /\ Cardinality(inDriver) \in Nat
      /\ IsFiniteSet(counters) /\ Cardinality(counters) \in Nat
  BY FiniteSets DEF TypeInv, TypeOK, counters
<1>1. CASE deviceThread
  <2>1. control' = control /\ mPreviewing' = mPreviewing /\ control \in {"running", "join"}
    BY <1>1, DeviceLeaves, DeviceRuns DEF controlVars, TypeInv, Phases
  <2> QED
    BY <1>1, <2>1, DeviceBalanced DEF QueuedInv
<1>2. ASSUME NEW s \in Streams, streamThread(s)
      PROVE  QueuedInv'
  <2>1. mQueued' \in Int
    BY <1>2, TypeStep DEF TypeInv, TypeOK, Next
  <2> QED
    BY <1>0, <1>2, <2>1, StreamLeaves, StreamBalanced DEF QueuedInv, controlVars
<1>3. ASSUME NEW s \in Consumers, consumer(s)
      PROVE  QueuedInv'
  <2>1. UNCHANGED <<control, mQueued, inDriver, mPreviewing>> /\ s \in Threads
    BY <1>3, ThreadNames
    DEF consumer, startConsumer, unlistenConsumer, stopConsumer, releaseConsumer, enableReceiveFrame,
        controlVars, bufferVars, deviceVars
  <2>2. counters' = counters
    BY <1>0, <1>3, <2>1
    DEF consumer, startConsumer, unlistenConsumer, stopConsumer, releaseConsumer, enableReceiveFrame,
        startThread, exitThread, threadVars, counters
  <2> QED
    BY <2>1, <2>2 DEF QueuedInv, Balance
<1> USE DEF bufferVars, deviceVars, threadVars
<1>4. CASE configure
  BY <1>4 DEF configure, QueuedInv
<1>5. CASE holdInService
  <2>1. inDriver' = {} /\ mQueued' = mQueued /\ counters' = counters /\ mQueued >= 0
        /\ mPreviewing' = mPreviewing /\ control' = "start" /\ control = "service"
    BY <1>5 DEF holdInService, counters, QueuedInv
  <2>2. Balance' >= 0
    BY <1>0, <2>1, FS_EmptySet DEF Balance
  <2> QED
    BY <2>1, <2>2 DEF QueuedInv
<1>6. CASE startStream
  <2>1. counters' = counters /\ UNCHANGED <<mQueued, inDriver, mPreviewing>>
        /\ control = "start" /\ control' = "flag"
    BY <1>0, <1>6, ThreadNames DEF startStream, startThread, counters, TypeInv, Phases
  <2> QED
    BY <2>1 DEF QueuedInv, Balance
<1>7. CASE startPreview
  BY <1>7 DEF startPreview, QueuedInv, Balance, counters
<1>8. CASE fillDevice
  <2> DEFINE free == {b \in Buffers : mBufState[b] = "FREE"}
  <2>1. IsFiniteSet(free) /\ Cardinality(free) \in Nat
    BY FiniteSets
  <2>2. /\ inDriver' = inDriver \cup free /\ mQueued' = mQueued + Cardinality(free)
        /\ counters' = counters /\ mPreviewing' = mPreviewing
        /\ control = "fill" /\ control' = "on"
    BY <1>8 DEF fillDevice, counters
  <2> HIDE DEF free
  <2>3. Cardinality(inDriver \cup free) <= Cardinality(inDriver) + Cardinality(free)
    <3>1. /\ Cardinality(inDriver \cup free)
             = Cardinality(inDriver) + Cardinality(free) - Cardinality(inDriver \cap free)
          /\ Cardinality(inDriver \cap free) \in Nat
      BY <1>0, <2>1, FS_Union, FS_Intersection, FS_CardinalityType
    <3> QED
      BY <1>0, <2>1, <3>1
  <2>4. Cardinality(inDriver \cup free) \in Nat
    BY <1>0, <2>1, FS_Union, FS_CardinalityType
  <2>5. Balance >= 0
    BY <2>2 DEF QueuedInv
  <2>6. Balance' >= 0
    BY <1>0, <2>1, <2>2, <2>3, <2>4, <2>5 DEF Balance
  <2> QED
    BY <2>2, <2>6 DEF QueuedInv
<1>9. CASE streamOn
  <2>1. counters' = counters /\ UNCHANGED <<mQueued, inDriver, mPreviewing>>
        /\ control = "on" /\ control' = "running"
    BY <1>0, <1>9, ThreadNames DEF streamOn, goto, counters, TypeInv, Phases
  <2> QED
    BY <2>1 DEF QueuedInv, Balance
<1>10. CASE stopPreview \/ joinDevice \/ streamOff \/ clearDevice
  BY <1>10 DEF stopPreview, joinDevice, streamOff, clearDevice, QueuedInv
<1>11. CASE zeroQueued
  BY <1>11 DEF zeroQueued, QueuedInv
<1>12. CASE unlisten \/ stopStream \/ exitStream \/ freeBuffers
  BY <1>12 DEF unlisten, stopStream, exitStream, freeBuffers, QueuedInv
<1>13. CASE UNCHANGED vars
  BY <1>13 DEF vars, controlVars, QueuedInv, Balance, counters
<1> QED
  BY <1>1, <1>2, <1>3, <1>4, <1>5, <1>6, <1>7, <1>8, <1>9, <1>10, <1>11, <1>12, <1>13
  DEF Next, startSteps, stopSteps

\* While preview runs the device thread is never asleep for good with a buffer in
\* the driver: mQueued and the counts under way cover all of them, whatever
\* order release(), the driver and the request thread's resets come in.
THEOREM NothingUncounted == Spec => []NeverUndercounts
<1>1. Init => QueuedInv
  BY DEF Init, QueuedInv
<1>2. TypeInv /\ QueuedInv => NeverUndercounts
  <2> SUFFICES ASSUME TypeInv, QueuedInv
               PROVE  NeverUndercounts
    OBVIOUS
  <2>1. Cardinality(counters) \in Nat /\ Cardinality(inDriver) \in Nat /\ mQueued \in Int
    BY FiniteSets DEF TypeInv, TypeOK, counters
  <2> QED
    BY <2>1 DEF NeverUndercounts, QueuedInv, Balance, counters
<1> QED
  BY <1>1, <1>2, TypeInvariant, QueuedStep, PTL DEF Spec

-----------------------------------------------------------------------------
(* The dispatch of a frame while the JPEG stream leaves. *)

\* The JPEG stream listens once at most, and one stream at most behind it; it
\* does not while preview starts.
JpegNearEnd ==
  /\ \A i, j \in DOMAIN mFrameListeners :
        mFrameListeners[i] = Jpeg /\ mFrameListeners[j] = Jpeg => i = j
  /\ \A i \in DOMAIN mFrameListeners : mFrameListeners[i] = Jpeg => Len(mFrameListeners) <= i + 1
  /\ control \in {"service", "start"} => ~Listening(Jpeg)

\* The loop calls s now or finds it in one of the slots it still reads.
StillReached(s) == \/ pc["device"] = "call" /\ listener = s
                   \/ \E i \in next..nSize : listenerAt(i) = s

\* Who is owed the frame is still reached; nothing else leaves before the next
\* dispatch once the JPEG stream has left and nobody has come.
DispatchInv ==
  /\ JpegNearEnd
  /\ nSize = 0 => pastEnd = "none"
  /\ owed # {} /\ pastEnd # "none" => ~Listening(Jpeg)
  /\ \A s \in owed : pc["device"] \in {"each", "call"} /\ StillReached(s)

\* A stream that stops listening leaves the JPEG stream near the end.
LEMMA JpegNearEndUnlistened ==
  ASSUME TypeInv, JpegNearEnd, NEW s \in Streams, removeFrameListener(s)
  PROVE  /\ \A i, j \in DOMAIN mFrameListeners' :
              mFrameListeners'[i] = Jpeg /\ mFrameListeners'[j] = Jpeg => i = j
         /\ \A i \in DOMAIN mFrameListeners' :
              mFrameListeners'[i] = Jpeg => Len(mFrameListeners') <= i + 1
         /\ Listening(Jpeg)' => Listening(Jpeg) /\ s # Jpeg
<1> DEFINE n == Len(mFrameListeners)
           p == place(s)
<1>0. mFrameListeners \in Seq(Streams) /\ n \in Nat /\ DOMAIN mFrameListeners = 1..n
  BY LenProperties DEF TypeInv, TypeOK
<1>1. CASE Listening(s)
  <2>1. p \in 1..n /\ mFrameListeners[p] = s
    BY <1>0, <1>1, PlaceOfListener
  <2>2. mFrameListeners' = SubSeq(mFrameListeners, 1, p - 1) \o SubSeq(mFrameListeners, p + 1, n)
    BY <1>1 DEF removeFrameListener
  <2>3. /\ Len(mFrameListeners') = n - 1 /\ DOMAIN mFrameListeners' = 1..(n - 1)
        /\ \A i \in 1..(n - 1) :
             mFrameListeners'[i] = IF i < p THEN mFrameListeners[i] ELSE mFrameListeners[i + 1]
    BY <1>0, <2>1, <2>2, RemovedAt
  <2> HIDE DEF n, p
  <2>4. ASSUME NEW i \in 1..(n - 1), mFrameListeners'[i] = Jpeg
        PROVE  \/ i < p /\ i \in 1..n /\ mFrameListeners[i] = Jpeg
               \/ ~(i < p) /\ i + 1 \in 1..n /\ mFrameListeners[i + 1] = Jpeg
    BY <1>0, <2>1, <2>3, <2>4
  <2>5. ASSUME NEW i \in 1..(n - 1), NEW j \in 1..(n - 1),
               mFrameListeners'[i] = Jpeg, mFrameListeners'[j] = Jpeg
        PROVE  i = j
    BY <1>0, <2>1, <2>4, <2>5 DEF JpegNearEnd
  <2>6. ASSUME NEW i \in 1..(n - 1), mFrameListeners'[i] = Jpeg
        PROVE  n - 1 <= i + 1
    BY <1>0, <2>1, <2>4, <2>6 DEF JpegNearEnd, n
  <2>7. ASSUME NEW i \in 1..(n - 1), mFrameListeners'[i] = Jpeg
        PROVE  Listening(Jpeg) /\ s # Jpeg
    BY <1>0, <2>1, <2>4, <2>7 DEF JpegNearEnd, Listening
  <2> QED
    BY <2>3, <2>5, <2>6, <2>7 DEF Listening
<1>2. CASE ~Listening(s)
  BY <1>2 DEF removeFrameListener, JpegNearEnd, Listening
<1> QED
  BY <1>1, <1>2

\* A stream that starts is put behind a JPEG stream that is last, or none listens.
LEMMA JpegNearEndStarted ==
  ASSUME TypeInv, JpegNearEnd, NEW s \in Streams, startThread(s),
         Listening(Jpeg) => place(Jpeg) = Len(mFrameListeners)
  PROVE  /\ \A i, j \in DOMAIN mFrameListeners' :
              mFrameListeners'[i] = Jpeg /\ mFrameListeners'[j] = Jpeg => i = j
         /\ \A i \in DOMAIN mFrameListeners' :
              mFrameListeners'[i] = Jpeg => Len(mFrameListeners') <= i + 1
         /\ s # Jpeg /\ ~Listening(Jpeg) => ~Listening(Jpeg)'
<1> DEFINE n == Len(mFrameListeners)
<1>0. mFrameListeners \in Seq(Streams) /\ n \in Nat /\ DOMAIN mFrameListeners = 1..n
  BY LenProperties DEF TypeInv, TypeOK
<1>1. CASE Listening(s)
  BY <1>1 DEF startThread, JpegNearEnd, Listening
<1>2. CASE ~Listening(s)
  <2>1. mFrameListeners' = Append(mFrameListeners, s)
    BY <1>2 DEF startThread
  <2>2. /\ Len(mFrameListeners') = n + 1 /\ DOMAIN mFrameListeners' = 1..(n + 1)
        /\ \A i \in 1..n : mFrameListeners'[i] = mFrameListeners[i]
        /\ mFrameListeners'[n + 1] = s
    BY <1>0, <2>1, AppendProperties, LenProperties
  <2>3. \A i \in 1..n : mFrameListeners[i] = Jpeg => i = n /\ s # Jpeg
    <3> SUFFICES ASSUME NEW i \in 1..n, mFrameListeners[i] = Jpeg
                 PROVE  i = n /\ s # Jpeg
      OBVIOUS
    <3>1. Listening(Jpeg) /\ s # Jpeg
      BY <1>0, <1>2 DEF Listening
    <3>2. place(Jpeg) \in DOMAIN mFrameListeners /\ mFrameListeners[place(Jpeg)] = Jpeg
      BY <3>1 DEF Listening, place
    <3> QED
      BY <1>0, <3>1, <3>2 DEF JpegNearEnd
  <2> HIDE DEF n
  <2>4. \A i \in 1..(n + 1) : i \in 1..n \/ i = n + 1
    BY <1>0
  <2>5. ASSUME NEW i \in 1..(n + 1), mFrameListeners'[i] = Jpeg
        PROVE  n <= i /\ (i = n + 1 \/ (i = n /\ mFrameListeners[i] = Jpeg /\ s # Jpeg))
    BY <1>0, <2>2, <2>3, <2>4, <2>5
  <2>6. \A i, j \in 1..(n + 1) :
          mFrameListeners'[i] = Jpeg /\ mFrameListeners'[j] = Jpeg => i = j
    BY <1>0, <2>2, <2>5
  <2>7. \A i \in 1..(n + 1) : mFrameListeners'[i] = Jpeg => n + 1 <= i + 1
    BY <1>0, <2>5
  <2>8. s # Jpeg /\ ~Listening(Jpeg) => \A i \in 1..(n + 1) : mFrameListeners'[i] # Jpeg
    BY <1>0, <2>2, <2>4 DEF Listening
  <2> QED
    BY <2>2, <2>6, <2>7, <2>8 DEF Listening
<1> QED
  BY <1>1, <1>2

\* Nobody who is still owed the frame falls out of the loop when the JPEG stream
\* leaves: one stream is behind it at most, and stays readable where it was.
LEMMA OthersStillReached ==
  ASSUME TypeInv, DispatchInv, Jpeg \in Streams, Listening(Jpeg), removeFrameListener(Jpeg),
         UNCHANGED pc, NEW u \in owed'
  PROVE  pc'["device"] \in {"each", "call"} /\ StillReached(u)'
<1> DEFINE n == Len(mFrameListeners)
           p == place(Jpeg)
<1>0. /\ mFrameListeners \in Seq(Streams) /\ n \in Nat /\ DOMAIN mFrameListeners = 1..n
      /\ next \in Nat /\ nSize \in Nat
  BY LenProperties DEF TypeInv, TypeOK
<1>1. /\ u \in owed /\ u # Jpeg /\ StillReached(u) /\ pc["device"] \in {"each", "call"}
      /\ UNCHANGED <<nSize, next, listener>>
  BY DEF removeFrameListener, DispatchInv
<1>2. next >= 1 /\ nSize <= n
  BY <1>1 DEF TypeInv, Slots, DispatchInv
<1>3. p \in 1..n /\ mFrameListeners[p] = Jpeg /\ n <= p + 1
  BY <1>0, PlaceOfListener DEF DispatchInv, JpegNearEnd
<1>4. mFrameListeners' = SubSeq(mFrameListeners, 1, p - 1) \o SubSeq(mFrameListeners, p + 1, n)
  BY DEF removeFrameListener
<1>5. /\ Len(mFrameListeners') = n - 1
      /\ \A i \in 1..(n - 1) :
           mFrameListeners'[i] = IF i < p THEN mFrameListeners[i] ELSE mFrameListeners[i + 1]
  BY <1>0, <1>3, <1>4, RemovedAt
<1>6. nSize # 0 => pastEnd' = mFrameListeners[n]
  BY DEF removeFrameListener
<1> HIDE DEF n, p
<1>7. CASE pc["device"] = "call" /\ listener = u
  BY <1>1, <1>7 DEF StillReached
<1>8. ASSUME NEW i \in next..nSize, listenerAt(i) = u
      PROVE  StillReached(u)'
  <2>1. i \in 1..n /\ mFrameListeners[i] = u /\ i # p /\ nSize # 0
    BY <1>0, <1>1, <1>2, <1>3, <1>8 DEF listenerAt, n
  <2>2. CASE i < p
    <3>1. i \in 1..(n - 1) /\ i <= n - 1
      BY <1>0, <1>3, <2>1, <2>2
    <3>2. listenerAt(i)' = u
      BY <1>5, <2>1, <2>2, <3>1 DEF listenerAt
    <3> QED
      BY <1>1, <1>8, <3>2 DEF StillReached
  <2>3. CASE ~(i < p)
    <3>1. i = n /\ ~(i <= n - 1)
      BY <1>0, <1>3, <2>1, <2>3
    <3>2. listenerAt(i)' = u
      BY <1>5, <1>6, <2>1, <3>1 DEF listenerAt
    <3> QED
      BY <1>1, <1>8, <3>2 DEF StillReached
  <2> QED
    BY <2>2, <2>3
<1> QED
  BY <1>1, <1>7, <1>8 DEF StillReached

\* A stream that comes takes no slot the loop still reads, or nobody is owed.
LEMMA StartedStillReached ==
  ASSUME TypeInv, DispatchInv, NEW s \in Streams, startThread(s), NEW u \in owed'
  PROVE  pc'["device"] \in {"each", "call"} /\ StillReached(u)' /\ pastEnd' = "none"
<1>0. /\ mFrameListeners \in Seq(Streams) /\ Len(mFrameListeners) \in Nat
      /\ next \in Nat /\ nSize \in Nat /\ pc \in [Threads -> Where]
      /\ "device" \in Threads /\ s # "device"
  BY LenProperties, ThreadNames DEF TypeInv, TypeOK
<1>1. /\ pastEnd = "none" /\ u \in owed /\ pc'["device"] = pc["device"]
      /\ UNCHANGED <<pastEnd, nSize, next, listener>>
  BY <1>0 DEF startThread
<1>2. nSize <= Len(mFrameListeners) /\ pc["device"] \in {"each", "call"} /\ next >= 1
      /\ StillReached(u)
  BY <1>1 DEF TypeInv, Slots, DispatchInv
<1>3. /\ Len(mFrameListeners') \in Nat /\ Len(mFrameListeners') >= Len(mFrameListeners)
      /\ \A i \in 1..Len(mFrameListeners) : mFrameListeners'[i] = mFrameListeners[i]
  BY <1>0, AppendProperties, LenProperties DEF startThread
<1>4. \A i \in next..nSize : listenerAt(i)' = listenerAt(i)
  BY <1>0, <1>2, <1>3 DEF listenerAt
<1> QED
  BY <1>1, <1>2, <1>4 DEF StillReached

\* A step that leaves the listeners alone, and the loop too or it is not running.
LEMMA DispatchAsItWas ==
  ASSUME TypeInv, DispatchInv, UNCHANGED <<mFrameListeners, pastEnd, nSize, next, listener, owed>>,
         control' = control \/ control' \notin {"service", "start"}
           \/ (control' = "start" /\ control = "service"),
         pc'["device"] = pc["device"] \/ pc["device"] \notin {"each", "call"}
  PROVE  DispatchInv'
<1>1. JpegNearEnd'
  BY DEF DispatchInv, JpegNearEnd, Listening
<1>2. \A u \in owed' : pc'["device"] \in {"each", "call"} /\ StillReached(u)'
  BY DEF DispatchInv, StillReached, listenerAt
<1> QED
  BY <1>1, <1>2 DEF DispatchInv, Listening

\* Every step of the device's thread keeps its dispatch in order.
LEMMA DispatchDeviceStep ==
  ASSUME TypeInv, DispatchInv, deviceThread
  PROVE  DispatchInv'
<1>0. /\ pc \in [Threads -> Where] /\ "device" \in Threads /\ next \in Nat /\ nSize \in Nat
      /\ Len(mFrameListeners) \in Nat /\ DOMAIN mFrameListeners = 1..Len(mFrameListeners)
  BY ThreadNames, LenProperties DEF TypeInv, TypeOK
<1>1. UNCHANGED <<control, mFrameListeners>>
  BY DeviceLeaves DEF controlVars
<1>2. JpegNearEnd' /\ Listening(Jpeg)' = Listening(Jpeg)
  BY <1>1 DEF DispatchInv, JpegNearEnd, Listening
<1>3. CASE deviceLoop \/ acquireCameraFrame \/ acquireFails \/ releasing("device")
  <2>1. pc["device"] \notin {"each", "call"}
    BY <1>3
    DEF deviceLoop, acquireCameraFrame, acquireFails, releasing, release, handleFrameRelease,
        fillCameraFrame, countQueued
  <2>2. UNCHANGED dispatchVars
    BY <1>3, ReleasingLeaves DEF deviceLoop, acquireCameraFrame, acquireFails
  <2> QED
    BY <1>1, <2>1, <2>2, DispatchAsItWas DEF dispatchVars, loopVars
<1>4. CASE dispatchCameraFrame
  <2>1. nSize = 0 /\ pastEnd = "none" /\ pastEnd' = "none"
    BY <1>4 DEF dispatchCameraFrame, TypeInv, Slots, DispatchInv
  <2>2. ASSUME NEW u \in owed'
        PROVE  pc'["device"] \in {"each", "call"} /\ StillReached(u)'
    <3>1. /\ owed' = {mFrameListeners[i] : i \in DOMAIN mFrameListeners}
          /\ nSize' = Len(mFrameListeners) /\ next' = 1 /\ pc'["device"] = "each"
      BY <1>0, <1>4 DEF dispatchCameraFrame, goto
    <3>2. PICK i \in DOMAIN mFrameListeners : mFrameListeners[i] = u
      BY <2>2, <3>1
    <3>3. i \in next'..nSize' /\ listenerAt(i)' = u
      BY <1>0, <1>1, <3>1, <3>2 DEF listenerAt
    <3> QED
      BY <3>1, <3>3 DEF StillReached
  <2> QED
    BY <1>2, <2>1, <2>2 DEF DispatchInv
<1>5. CASE readListener
  <2>1. /\ UNCHANGED <<pastEnd, nSize, owed>> /\ listener' = listenerAt(next) /\ next' = next + 1
        /\ pc["device"] = "each" /\ pc'["device"] = "call"
    BY <1>0, <1>5 DEF readListener, goto
  <2>2. ASSUME NEW u \in owed
        PROVE  StillReached(u)'
    <3>1. PICK i \in next..nSize : listenerAt(i) = u
      BY <2>1, <2>2 DEF DispatchInv, StillReached
    <3>2. CASE i = next
      BY <2>1, <3>1, <3>2 DEF StillReached
    <3>3. CASE i # next
      <4>1. i \in next'..nSize' /\ listenerAt(i)' = u
        BY <1>0, <1>1, <2>1, <3>1, <3>3 DEF listenerAt
      <4> QED
        BY <4>1 DEF StillReached
    <3> QED
      BY <3>2, <3>3
  <2> QED
    BY <1>2, <2>1, <2>2 DEF DispatchInv
<1>6. CASE handleCameraFrame \/ frameNotWanted
  <2>1. /\ UNCHANGED <<pastEnd, nSize, next>> /\ owed' = owed \ {listener}
        /\ pc["device"] = "call" /\ pc'["device"] = "each"
    BY <1>0, <1>6 DEF handleCameraFrame, frameNotWanted, called, goto
  <2>2. ASSUME NEW u \in owed'
        PROVE  StillReached(u)'
    <3>1. PICK i \in next..nSize : listenerAt(i) = u
      BY <2>1, <2>2 DEF DispatchInv, StillReached
    <3> QED
      BY <1>1, <2>1, <3>1 DEF StillReached, listenerAt
  <2> QED
    BY <1>2, <2>1, <2>2 DEF DispatchInv
<1>7. CASE dispatchEnds
  BY <1>2, <1>7 DEF dispatchEnds, DispatchInv
<1> QED
  BY <1>3, <1>4, <1>5, <1>6, <1>7 DEF deviceThread

\* So does every step of the request thread.
LEMMA DispatchControlStep ==
  ASSUME TypeInv, DispatchInv,
         \/ \E s \in Consumers : consumer(s)
         \/ configure \/ startSteps \/ stopPreview \/ stopSteps
  PROVE  DispatchInv'
<1>0. /\ pc \in [Threads -> Where] /\ "device" \in Threads /\ mFrameListeners \in Seq(Streams)
      /\ "preview" \in Streams /\ "preview" # Jpeg
  BY ThreadNames, PipelineAssumption DEF TypeInv, TypeOK
<1>1. ASSUME NEW s \in Streams, startThread(s), Listening(Jpeg) => place(Jpeg) = Len(mFrameListeners),
             control' \notin {"service", "start"}
      PROVE  DispatchInv'
  <2>1. JpegNearEnd'
    BY <1>1, JpegNearEndStarted DEF DispatchInv, JpegNearEnd
  <2>2. \A u \in owed' : pc'["device"] \in {"each", "call"} /\ StillReached(u)' /\ pastEnd' = "none"
    BY <1>1, StartedStillReached
  <2>3. UNCHANGED <<pastEnd, nSize>>
    BY <1>1 DEF startThread
  <2> QED
    BY <2>1, <2>2, <2>3 DEF DispatchInv
<1>2. ASSUME NEW s \in Streams, removeFrameListener(s), UNCHANGED pc,
             pc["device"] = "none", control' \notin {"service", "start"}
      PROVE  DispatchInv'
  <2>1. JpegNearEnd'
    BY <1>2, JpegNearEndUnlistened DEF DispatchInv, JpegNearEnd
  <2>2. owed' = {} /\ nSize' = 0 /\ pastEnd' = "none"
    BY <1>2 DEF removeFrameListener, DispatchInv, TypeInv, Slots
  <2> QED
    BY <2>1, <2>2 DEF DispatchInv
<1>3. ASSUME NEW s \in Consumers, consumer(s)
      PROVE  DispatchInv'
  <2>0. s \in Streams /\ s # "device"
    BY ThreadNames
  <2>1. CASE startConsumer(s)
    BY <1>1, <2>0, <2>1 DEF startConsumer, controlVars
  <2>2. CASE unlistenConsumer(s)
    <3>1. UNCHANGED <<control, pc>> /\ removeFrameListener(s) /\ Listening(s) /\ StopTime(s)
      BY <2>2 DEF unlistenConsumer, controlVars, threadVars
    <3>2. CASE control = "off"
      BY <1>2, <2>0, <3>1, <3>2 DEF TypeInv, Phases
    <3>3. CASE s = Jpeg /\ control = "running"
      <4>1. JpegNearEnd' /\ ~Listening(Jpeg)'
        BY <2>0, <3>1, <3>3, JpegNearEndUnlistened DEF DispatchInv, JpegNearEnd
      <4>2. \A u \in owed' : pc'["device"] \in {"each", "call"} /\ StillReached(u)'
        BY <2>0, <3>1, <3>3, OthersStillReached
      <4>3. nSize' = 0 => pastEnd' = "none"
        BY <3>1 DEF removeFrameListener
      <4> QED
        BY <4>1, <4>2, <4>3 DEF DispatchInv
    <3> QED
      BY <3>1, <3>2, <3>3 DEF StopTime
  <2>3. CASE stopConsumer(s) \/ releaseConsumer(s) \/ enableReceiveFrame
    <3>1. UNCHANGED <<control, dispatchVars>> /\ pc'["device"] = pc["device"]
      BY <1>0, <2>0, <2>3
      DEF stopConsumer, releaseConsumer, exitThread, enableReceiveFrame, controlVars, threadVars
    <3> QED
      BY <3>1, DispatchAsItWas DEF dispatchVars, loopVars
  <2> QED
    BY <1>3, <2>1, <2>2, <2>3 DEF consumer
<1>4. CASE configure
  <2>1. UNCHANGED <<pc, dispatchVars>> /\ ~Listening(Jpeg)
    BY <1>4 DEF configure, threadVars
  <2> QED
    BY <2>1 DEF DispatchInv, JpegNearEnd, StillReached, Listening, listenerAt, dispatchVars, loopVars
<1>5. CASE startStream
  <2>1. startThread("preview") /\ ~Listening(Jpeg) /\ control' = "flag"
    BY <1>5 DEF startStream, DispatchInv, JpegNearEnd
  <2> QED
    BY <1>0, <1>1, <2>1
<1>6. CASE unlisten
  <2>1. removeFrameListener("preview") /\ UNCHANGED pc /\ pc["device"] = "none" /\ control' = "stop"
    BY <1>6 DEF unlisten, threadVars, TypeInv, Phases
  <2> QED
    BY <1>0, <1>2, <2>1
<1>7. CASE holdInService \/ startPreview \/ fillDevice \/ stopPreview
  <2>1. UNCHANGED <<dispatchVars, pc>>
        /\ (control' \notin {"service", "start"} \/ (control' = "start" /\ control = "service"))
    BY <1>7 DEF holdInService, startPreview, fillDevice, stopPreview, threadVars
  <2> QED
    BY <2>1, DispatchAsItWas DEF dispatchVars, loopVars
<1>8. CASE streamOn \/ joinDevice
  <2>1. UNCHANGED dispatchVars /\ control' \notin {"service", "start"}
        /\ pc["device"] \notin {"each", "call"}
    BY <1>8 DEF streamOn, joinDevice, TypeInv, Phases
  <2> QED
    BY <2>1, DispatchAsItWas DEF dispatchVars, loopVars
<1>9. CASE streamOff \/ clearDevice \/ zeroQueued \/ stopStream \/ exitStream \/ freeBuffers
  <2>1. UNCHANGED dispatchVars /\ control' \notin {"service", "start"} /\ pc'["device"] = pc["device"]
    BY <1>0, <1>9, ThreadNames
    DEF streamOff, clearDevice, zeroQueued, stopStream, exitStream, exitThread, freeBuffers, threadVars
  <2> QED
    BY <2>1, DispatchAsItWas DEF dispatchVars, loopVars
<1> QED
  BY <1>3, <1>4, <1>5, <1>6, <1>7, <1>8, <1>9 DEF startSteps, stopSteps

\* Nothing is owed before the first dispatch.
LEMMA DispatchInit == Init => DispatchInv
<1> SUFFICES ASSUME Init
             PROVE  DispatchInv
  OBVIOUS
<1>1. DOMAIN mFrameListeners = {} /\ owed = {} /\ pastEnd = "none"
  BY DEF Init
<1> QED
  BY <1>1 DEF DispatchInv, JpegNearEnd, Listening

\* Every step keeps the dispatch in order.
LEMMA DispatchStep == TypeInv /\ DispatchInv /\ [Next]_vars => DispatchInv'
<1> SUFFICES ASSUME TypeInv, DispatchInv, [Next]_vars
             PROVE  DispatchInv'
  OBVIOUS
<1>1. ASSUME NEW s \in Streams, streamThread(s)
      PROVE  DispatchInv'
  <2>1. UNCHANGED <<control, dispatchVars>> /\ pc'["device"] = pc["device"]
    BY <1>1, StreamLeaves, StreamMoves, ThreadNames DEF controlVars, Moved
  <2> QED
    BY <2>1, DispatchAsItWas DEF dispatchVars, loopVars
<1>2. CASE UNCHANGED vars
  <2>1. UNCHANGED <<control, dispatchVars, pc>>
    BY <1>2 DEF vars, controlVars, threadVars
  <2> QED
    BY <2>1, DispatchAsItWas DEF dispatchVars, loopVars
<1> QED
  BY <1>1, <1>2, DispatchDeviceStep, DispatchControlStep DEF Next

\* A stream that listens throughout a dispatch gets the frame although the JPEG
\* stream may leave the unlocked vector meanwhile: at most one stream is behind
\* it, whose old slot still names it (dispatchCameraFrame, removeFrameListener).
THEOREM DispatchServesAll == Spec => []NobodySkipped
<1>1. TypeInv /\ DispatchInv => NobodySkipped
  <2> SUFFICES ASSUME TypeInv, DispatchInv, pc["device"] = "each", ~inLoop, NEW u \in owed
               PROVE  FALSE
    BY DEF NobodySkipped
  <2>1. next \in Nat /\ nSize \in Nat /\ next > nSize
    BY DEF TypeInv, TypeOK, inLoop
  <2>2. \E i \in next..nSize : listenerAt(i) = u
    BY DEF DispatchInv, StillReached
  <2> QED
    BY <2>1, <2>2
<1> QED
  BY <1>1, DispatchInit, DispatchStep, TypeInvariant, PTL DEF Spec

=============================================================================
