------------------------- MODULE PreviewReferenceProofs -------------------------
(***************************************************************************)
(* Proofs that mRefCount is exact in PreviewPipeline: while preview runs   *)
(* every reference of a frame has one owner, so release() never finds none *)
(* and the driver only has frames nobody else has.  They hold when nothing *)
(* fails and consumers finish before preview restarts (the runs            *)
(* preview_failures and preview_outlive show what happens otherwise).      *)
(***************************************************************************)
EXTENDS PreviewPipelineProofs

Faultless == Failures = {} /\ Prompt

-----------------------------------------------------------------------------
(* Counting the users of a frame: what a step of one thread changes. *)

one(P) == IF P THEN 1 ELSE 0

busy(t, b)     == /\ frame[t] = b /\ pc[t] \notin Returning \cup {"dispatch"}
                  /\ cont[t] \notin Returning
dropping(t, b) == pc[t] = "release" /\ buf[t] = b
works(t, b)    == IF busy(t, b) THEN 1 ELSE 0
drops(t, b)    == IF dropping(t, b) THEN 1 ELSE 0
held(t, b)     == works(t, b) + drops(t, b)

\* Two sets that differ in one element only.
LEMMA OneElement ==
  ASSUME NEW S, NEW T, NEW x, IsFiniteSet(S), S \ {x} = T \ {x}
  PROVE  /\ IsFiniteSet(T) /\ Cardinality(S) \in Nat /\ Cardinality(T) \in Nat
         /\ Cardinality(T) = Cardinality(S) - one(x \in S) + one(x \in T)
<1> DEFINE R == S \ {x}
<1>1. IsFiniteSet(R) /\ Cardinality(R) = Cardinality(S) - one(x \in S) /\ Cardinality(S) \in Nat
  BY FS_RemoveElement, FS_CardinalityType DEF one
<1>2. T = IF x \in T THEN R \cup {x} ELSE R
  OBVIOUS
<1>3. IsFiniteSet(T) /\ Cardinality(T) = Cardinality(R) + one(x \in T)
  <2>1. CASE x \in T
    BY <1>1, <1>2, <2>1, FS_AddElement DEF one
  <2>2. CASE x \notin T
    <3>1. T = R /\ one(x \in T) = 0
      BY <1>2, <2>2 DEF one
    <3> QED
      BY <1>1, <3>1, FS_CardinalityType
  <2> QED
    BY <2>1, <2>2
<1> QED
  BY <1>1, <1>3, FS_CardinalityType DEF one

\* The messages that carry b, one by one.
LEMMA MessagesAre ==
  ASSUME NEW b, NEW m
  PROVE  m \in messages(b) <=> \E s \in Streams : \E i \in DOMAIN mThreadQueue[s] :
                                 m = <<s, i>> /\ mThreadQueue[s][i] = b
BY DEF messages, messagesTo

\* The messages of a frame can be counted.
LEMMA MessagesFinite ==
  ASSUME mThreadQueue \in [Streams -> Seq(Buffers)], NEW b
  PROVE  IsFiniteSet(messages(b)) /\ Cardinality(messages(b)) \in Nat
<1>1. ASSUME NEW s \in Streams
      PROVE  IsFiniteSet(messagesTo(s, b))
  <2> DEFINE I == {i \in DOMAIN mThreadQueue[s] : mThreadQueue[s][i] = b}
  <2>1. Len(mThreadQueue[s]) \in Int /\ DOMAIN mThreadQueue[s] = 1..Len(mThreadQueue[s])
    BY LenProperties
  <2>2. IsFiniteSet(1..Len(mThreadQueue[s]))
    BY <2>1, FS_Interval
  <2>3. IsFiniteSet(I)
    BY <2>1, <2>2, FS_Subset
  <2>4. IsFiniteSet({s})
    BY FS_Singleton
  <2>5. IsFiniteSet({s} \X I)
    BY <2>3, <2>4, FS_Product
  <2> QED
    BY <2>5 DEF messagesTo
<1>2. IsFiniteSet({messagesTo(s, b) : s \in Streams})
  <2> DEFINE f == [s \in Streams |-> messagesTo(s, b)]
             T == {messagesTo(s, b) : s \in Streams}
  <2>1. f \in Surjection(Streams, T)
    BY DEF Surjection
  <2> QED
    BY <2>1, FiniteSets, FS_Surjection
<1>3. IsFiniteSet(UNION {messagesTo(s, b) : s \in Streams})
  BY <1>1, <1>2, FS_UNION
<1> QED
  BY <1>3, FS_CardinalityType DEF messages

\* A frame handed to a stream is one message more,
LEMMA MessageAdded ==
  ASSUME mThreadQueue \in [Streams -> Seq(Buffers)], NEW s \in Streams, NEW d \in Buffers, NEW b,
         mThreadQueue' = [mThreadQueue EXCEPT ![s] = Append(@, d)]
  PROVE  /\ b = d => Cardinality(messages(b)') = Cardinality(messages(b)) + 1
         /\ b # d => Cardinality(messages(b)') = Cardinality(messages(b))
<1> DEFINE q == mThreadQueue[s]
           n == Len(q)
           new == <<s, n + 1>>
<1>1. q \in Seq(Buffers) /\ n \in Nat /\ DOMAIN q = 1..n
  BY LenProperties
<1>2. /\ DOMAIN mThreadQueue'[s] = 1..(n + 1) /\ mThreadQueue'[s][n + 1] = d
      /\ \A i \in 1..n : mThreadQueue'[s][i] = q[i]
  <2>1. mThreadQueue'[s] = Append(q, d)
    OBVIOUS
  <2> QED
    BY <1>1, <2>1, AppendProperties, LenProperties
<1>3. \A u \in Streams \ {s} : mThreadQueue'[u] = mThreadQueue[u]
  OBVIOUS
<1>4. new \notin messages(b)
  BY <1>1, MessagesAre
<1>5. \A u, i : u \in Streams /\ i \in DOMAIN mThreadQueue'[u] /\ mThreadQueue'[u][i] = b
        <=> \/ u \in Streams /\ i \in DOMAIN mThreadQueue[u] /\ mThreadQueue[u][i] = b
            \/ u = s /\ i = n + 1 /\ b = d
  <2> SUFFICES ASSUME NEW u \in Streams, NEW i
               PROVE  i \in DOMAIN mThreadQueue'[u] /\ mThreadQueue'[u][i] = b
                      <=> \/ i \in DOMAIN mThreadQueue[u] /\ mThreadQueue[u][i] = b
                          \/ u = s /\ i = n + 1 /\ b = d
    OBVIOUS
  <2>1. CASE u = s
    <3>1. i \in 1..(n + 1) <=> i \in 1..n \/ i = n + 1
      BY <1>1
    <3>2. n + 1 \notin 1..n
      BY <1>1
    <3> HIDE DEF n
    <3> QED
      BY <1>1, <1>2, <2>1, <3>1, <3>2
  <2>2. CASE u # s
    BY <1>3, <2>2
  <2> QED
    BY <2>1, <2>2
<1>6. \A m : m \in messages(b)' <=> m \in messages(b) \/ (m = new /\ b = d)
  <2> TAKE m
  <2>1. m \in messages(b)' <=> \E u \in Streams : \E i \in DOMAIN mThreadQueue'[u] :
                                 m = <<u, i>> /\ mThreadQueue'[u][i] = b
    BY DEF messages, messagesTo
  <2> HIDE DEF n
  <2> QED
    BY <1>5, <2>1, MessagesAre
<1>7. IsFiniteSet(messages(b)) /\ Cardinality(messages(b)) \in Nat
  BY MessagesFinite
<1>8. CASE b = d
  <2>1. messages(b)' = messages(b) \cup {new}
    BY <1>6, <1>8
  <2> QED
    BY <1>4, <1>7, <1>8, <2>1, FS_AddElement DEF one
<1>9. CASE b # d
  <2>1. messages(b)' = messages(b)
    BY <1>6, <1>9
  <2> QED
    BY <1>7, <1>9, <2>1 DEF one
<1> QED
  BY <1>8, <1>9

\* ... and one it takes is one less; the others move up.
LEMMA MessageTaken ==
  ASSUME mThreadQueue \in [Streams -> Seq(Buffers)], NEW s \in Streams, NEW b,
         mThreadQueue[s] # <<>>, mThreadQueue' = [mThreadQueue EXCEPT ![s] = Tail(@)]
  PROVE  Cardinality(messages(b)') = Cardinality(messages(b)) - one(b = Head(mThreadQueue[s]))
<1> DEFINE q == mThreadQueue[s]
           n == Len(q)
           first == <<s, 1>>
           rest == messages(b) \ {first}
           up == [m \in rest |-> IF m[1] = s THEN <<s, m[2] - 1>> ELSE m]
<1>1. q \in Seq(Buffers) /\ n \in Nat /\ DOMAIN q = 1..n /\ n >= 1
  BY LenProperties, EmptySeq
<1>2. /\ DOMAIN mThreadQueue'[s] = 1..(n - 1)
      /\ \A i \in 1..(n - 1) : mThreadQueue'[s][i] = q[i + 1]
  <2>1. mThreadQueue'[s] = Tail(q)
    OBVIOUS
  <2>2. Tail(q) \in Seq(Buffers) /\ Len(Tail(q)) = n - 1
        /\ \A i \in 1..Len(Tail(q)) : Tail(q)[i] = q[i + 1]
    BY <1>1, HeadTailProperties
  <2> QED
    BY <2>1, <2>2, LenProperties
<1>3. \A u \in Streams \ {s} : mThreadQueue'[u] = mThreadQueue[u]
  OBVIOUS
<1>4. first \in messages(b) <=> b = Head(q)
  <2>1. Head(q) = q[1] /\ 1 \in DOMAIN mThreadQueue[s]
    BY <1>1
  <2>2. first \in messages(b) <=> \E u \in Streams : \E i \in DOMAIN mThreadQueue[u] :
                                     first = <<u, i>> /\ mThreadQueue[u][i] = b
    BY MessagesAre
  <2>3. first \in messages(b) <=> mThreadQueue[s][1] = b
    BY <2>1, <2>2
  <2> QED
    BY <2>1, <2>3
<1>5. \A m : m \in messages(b)' <=> \E u \in Streams : \E i \in DOMAIN mThreadQueue'[u] :
                                 m = <<u, i>> /\ mThreadQueue'[u][i] = b
  BY DEF messages, messagesTo
<1>6. up \in Bijection(rest, messages(b)')
  <2>1. \A m \in rest : up[m] \in messages(b)'
    <3> SUFFICES ASSUME NEW u \in Streams, NEW i \in DOMAIN mThreadQueue[u],
                        mThreadQueue[u][i] = b, <<u, i>> \in rest
                 PROVE  up[<<u, i>>] \in messages(b)'
      BY MessagesAre
    <3>1. CASE u = s
      <4>1. i \in 1..n /\ i # 1
        BY <1>1, <3>1
      <4>2. i - 1 \in 1..(n - 1) /\ i - 1 + 1 = i
        BY <1>1, <4>1
      <4>3. i - 1 \in DOMAIN mThreadQueue'[s] /\ mThreadQueue'[s][i - 1] = b
        BY <1>2, <3>1, <4>2
      <4>4. up[<<u, i>>] = <<s, i - 1>>
        BY <3>1
      <4> QED
        BY <1>5, <4>3, <4>4
    <3>2. CASE u # s
      <4>1. up[<<u, i>>] = <<u, i>>
        BY <3>2
      <4>2. i \in DOMAIN mThreadQueue'[u] /\ mThreadQueue'[u][i] = b
        BY <1>3, <3>2
      <4> QED
        BY <1>5, <4>1, <4>2
    <3> QED
      BY <3>1, <3>2
  <2>2. \A m, k \in rest : up[m] = up[k] => m = k
    <3> SUFFICES ASSUME NEW u \in Streams, NEW i \in DOMAIN mThreadQueue[u], <<u, i>> \in rest,
                        NEW v \in Streams, NEW j \in DOMAIN mThreadQueue[v], <<v, j>> \in rest,
                        up[<<u, i>>] = up[<<v, j>>]
                 PROVE  u = v /\ i = j
      BY MessagesAre
    <3>1. /\ up[<<u, i>>] = IF u = s THEN <<s, i - 1>> ELSE <<u, i>>
          /\ up[<<v, j>>] = IF v = s THEN <<s, j - 1>> ELSE <<v, j>>
      OBVIOUS
    <3>2. CASE u = s /\ v = s
      <4>1. i - 1 = j - 1 /\ i \in 1..n /\ j \in 1..n
        BY <1>1, <3>1, <3>2
      <4> QED
        BY <1>1, <3>2, <4>1
    <3>3. CASE ~(u = s /\ v = s)
      BY <3>1, <3>3
    <3> QED
      BY <3>2, <3>3
  <2>3. \A k \in messages(b)' : \E m \in rest : up[m] = k
    <3> SUFFICES ASSUME NEW k \in messages(b)'
                 PROVE  \E m \in rest : up[m] = k
      OBVIOUS
    <3>0. PICK u \in Streams : \E i \in DOMAIN mThreadQueue'[u] :
                                 k = <<u, i>> /\ mThreadQueue'[u][i] = b
      BY <1>5
    <3>. PICK i \in DOMAIN mThreadQueue'[u] : k = <<u, i>> /\ mThreadQueue'[u][i] = b
      BY <3>0
    <3>1. CASE u = s
      <4>1. i \in 1..(n - 1) /\ q[i + 1] = b
        BY <1>2, <3>1
      <4>2. i + 1 \in 1..n /\ i + 1 # 1 /\ i + 1 - 1 = i
        BY <1>1, <4>1
      <4>3. <<s, i + 1>> \in messages(b)
        BY <1>1, <4>1, <4>2, MessagesAre
      <4>4. <<s, i + 1>> \in rest
        BY <4>2, <4>3
      <4>5. up[<<s, i + 1>>] = <<s, i>>
        BY <4>2, <4>4
      <4> QED
        BY <3>1, <4>4, <4>5
    <3>2. CASE u # s
      <4>1. <<u, i>> \in messages(b)
        BY <1>3, <3>2, MessagesAre
      <4>2. <<u, i>> \in rest /\ up[<<u, i>>] = <<u, i>>
        BY <3>2, <4>1
      <4> QED
        BY <4>2
    <3> QED
      BY <3>1, <3>2
  <2> HIDE DEF rest
  <2>4. up \in [rest -> messages(b)']
    BY <2>1
  <2> QED
    BY <2>2, <2>3, <2>4 DEF Bijection, Injection, Surjection, IsInjective
<1>7. IsFiniteSet(messages(b)) /\ Cardinality(messages(b)) \in Nat
  BY MessagesFinite
<1> HIDE DEF up, first
<1>8. IsFiniteSet(rest) /\ Cardinality(rest) = Cardinality(messages(b)) - one(b = Head(q))
  <2>1. /\ IsFiniteSet(rest)
        /\ Cardinality(rest) = IF first \in messages(b) THEN Cardinality(messages(b)) - 1
                               ELSE Cardinality(messages(b))
    BY <1>7, FS_RemoveElement
  <2> HIDE DEF rest, q
  <2> QED
    BY <1>4, <1>7, <2>1 DEF one
<1>9. Cardinality(messages(b)') = Cardinality(rest)
  BY <1>6, <1>8, FS_Bijection DEF ExistsBijection
<1> QED
  BY <1>8, <1>9

\* The users of a frame after a step of thread t.
LEMMA UsersChange ==
  ASSUME ThreadTypes, Shared, NEW t \in Threads, Moved(t), NEW b, NEW d \in Int,
         Cardinality(messages(b)') = Cardinality(messages(b)) + d
  PROVE  users(b) \in Nat /\ users(b)' = users(b) + held(t, b)' - held(t, b) + d
<1>1. /\ IsFiniteSet(workers(b)) /\ workers(b) \ {t} = workers(b)' \ {t}
      /\ t \in workers(b) <=> busy(t, b)
      /\ t \in workers(b)' <=> busy(t, b)'
  <2>1. workers(b) \subseteq Threads
    BY DEF workers
  <2>2. \A u \in Threads \ {t} : busy(u, b)' <=> busy(u, b)
    BY DEF Moved, busy
  <2>3. workers(b) = {u \in Threads : busy(u, b)} /\ workers(b)' = {u \in Threads : busy(u, b)'}
    BY DEF workers, busy
  <2> QED
    BY <2>1, <2>2, <2>3, FiniteSets
<1>2. /\ IsFiniteSet(releasers(b)) /\ releasers(b) \ {t} = releasers(b)' \ {t}
      /\ t \in releasers(b) <=> dropping(t, b)
      /\ t \in releasers(b)' <=> dropping(t, b)'
  <2>1. releasers(b) \subseteq Threads
    BY DEF releasers
  <2>2. \A u \in Threads \ {t} : dropping(u, b)' <=> dropping(u, b)
    BY DEF Moved, dropping
  <2>3. releasers(b) = {u \in Threads : dropping(u, b)}
        /\ releasers(b)' = {u \in Threads : dropping(u, b)'}
    BY DEF releasers, dropping
  <2> QED
    BY <2>1, <2>2, <2>3, FiniteSets
<1>3. /\ Cardinality(workers(b)) \in Nat /\ Cardinality(workers(b)') \in Nat
      /\ Cardinality(workers(b)') = Cardinality(workers(b)) - works(t, b) + works(t, b)'
  BY <1>1, OneElement DEF one, works
<1>4. /\ Cardinality(releasers(b)) \in Nat /\ Cardinality(releasers(b)') \in Nat
      /\ Cardinality(releasers(b)') = Cardinality(releasers(b)) - drops(t, b) + drops(t, b)'
  BY <1>2, OneElement DEF one, drops
<1>5. Cardinality(messages(b)) \in Nat
  BY MessagesFinite DEF Shared
<1>6. /\ works(t, b) \in {0, 1} /\ works(t, b)' \in {0, 1}
      /\ drops(t, b) \in {0, 1} /\ drops(t, b)' \in {0, 1}
  BY DEF works, drops
<1>7. /\ users(b) = Cardinality(workers(b)) + Cardinality(releasers(b)) + Cardinality(messages(b))
      /\ users(b)' = Cardinality(workers(b)') + Cardinality(releasers(b)') + Cardinality(messages(b)')
  BY DEF users
<1>8. /\ held(t, b) = works(t, b) + drops(t, b)
      /\ held(t, b)' = works(t, b)' + drops(t, b)'
  BY DEF held
<1>9. users(b) \in Nat
  BY <1>3, <1>4, <1>5, <1>7
<1>10. users(b)' = Cardinality(workers(b)') + Cardinality(releasers(b)') + (Cardinality(messages(b)) + d)
  BY <1>7
<1>11. users(b)' = (Cardinality(workers(b)) - works(t, b) + works(t, b)')
        + (Cardinality(releasers(b)) - drops(t, b) + drops(t, b)') + (Cardinality(messages(b)) + d)
  BY <1>3, <1>4, <1>10
<1>12. users(b)' = users(b) + held(t, b)' - held(t, b) + d
  BY <1>3, <1>4, <1>5, <1>6, <1>7, <1>8, <1>11
<1> QED
  BY <1>9, <1>12

-----------------------------------------------------------------------------
(* Which streams can get frames, and when nobody has any. *)

Starting == {"service", "start", "flag", "fill", "on"}
Still(s) == pc[s] \in {"none", "wait"} /\ mThreadQueue[s] = <<>>
Distinct == \A i, j \in DOMAIN mFrameListeners : mFrameListeners[i] = mFrameListeners[j] => i = j
PreviewFirst == \A i, j \in DOMAIN mFrameListeners :
                  mFrameListeners[i] = Jpeg /\ mFrameListeners[j] = "preview" => j < i

\* No thread fails; preview gives no frame back while buffers are in service and
\* shows none once it is stopped;
\* only streams with a thread listen or have messages; all is still while
\* preview starts.
Attached ==
  /\ \A t \in Threads : pc[t] # "fail" /\ cont[t] # "fail"
  /\ control \in Serving => pc["preview"] # "cancel" /\ cont["preview"] # "cancel"
  /\ control \in Serving \ {"start"} => mStreamState["preview"] = "STARTED"
  /\ control = "exit" => /\ pc["preview"] \notin {"process", "hold", "request"}
                         /\ mStreamState["preview"] # "STARTED"
  /\ Listening("preview") => control \in Serving \ {"start", "stop"}
  /\ \A s \in Streams : pc[s] = "none" => mThreadQueue[s] = <<>> /\ ~Listening(s)
  /\ control \in Starting => \A s \in Streams : Still(s)
  /\ Distinct

\* While preview starts no thread takes a step.
LEMMA NobodyRuns ==
  ASSUME TypeInv, Attached, control \in Starting
  PROVE  /\ ~deviceThread /\ pc["device"] = "none"
         /\ \A s \in Streams : ~streamThread(s) /\ pc[s] \in {"none", "wait"}
<1>1. pc["device"] = "none"
  BY DEF TypeInv, Phases, Starting
<1>2. ~deviceThread
  BY <1>1, DeviceRuns
<1>3. ASSUME NEW s \in Streams
      PROVE  ~streamThread(s) /\ pc[s] \in {"none", "wait"}
  <2>1. pc[s] \in {"none", "wait"} /\ mThreadQueue[s] = <<>>
    BY DEF Attached, Still
  <2> QED
    BY <2>1
    DEF streamThread, takeFrame, finishFrame, cancelBuffer, processPreview, renderBuffer, holdFrame,
        requestBuffer, fails, processCopy, releasing, release, handleFrameRelease,
        fillCameraFrame, countQueued
<1> QED
  BY <1>1, <1>2, <1>3

\* A frame is handed to a stream, into its queue if it has a thread to read that.
LEMMA HandedToListener ==
  ASSUME TypeInv, handleCameraFrame
  PROVE  /\ pc["device"] = "call" /\ listener \in Streams /\ frame["device"] \in Buffers
         /\ \/ /\ pc[listener] = "none" /\ mThreadQueue' = mThreadQueue
               /\ dropped' = [dropped EXCEPT ![frame["device"]] = @ + 1]
            \/ /\ pc[listener] # "none" /\ dropped' = dropped
               /\ mThreadQueue' = [mThreadQueue EXCEPT ![listener] = Append(@, frame["device"])]
<1>1. pc["device"] = "call" /\ listener \in Streams
  BY DEF handleCameraFrame, called, TypeInv, Slots
<1>2. frame["device"] \in Buffers
  BY <1>1, ThreadNames DEF TypeInv, ThreadShape, Releasing, Idling
<1> QED
  BY <1>1, <1>2 DEF handleCameraFrame

\* The device's thread keeps it.
LEMMA DeviceAttached ==
  ASSUME TypeInv, Attached, deviceThread
  PROVE  Attached'
<1>1. /\ Moved("device") /\ UNCHANGED <<control, mFrameListeners, mStreamState>>
      /\ pc["device"] # "none"
  BY DeviceMoves, DeviceLeaves, DeviceRuns DEF controlVars
<1>2. \A u \in Streams : pc'[u] = pc[u] /\ cont'[u] = cont[u]
  BY <1>1, ThreadNames DEF Moved
<1>3. pc'["device"] # "fail" /\ cont'["device"] # "fail"
  BY <1>1 DEF Moved, ThreadShape, Places, DeviceAt, Releasing, Resumes
<1>4. control \notin Starting
  BY NobodyRuns
<1>5. \A u \in Streams : pc[u] = "none" => mThreadQueue'[u] = mThreadQueue[u]
  <2>1. CASE handleCameraFrame
    BY <2>1, HandedToListener DEF TypeInv, TypeOK
  <2>2. CASE ~handleCameraFrame
    BY <2>2, ReleasingLeaves
    DEF deviceThread, deviceLoop, acquireCameraFrame, acquireFails, dispatchCameraFrame, readListener,
        frameNotWanted, dispatchEnds, streamVars
  <2> QED
    BY <2>1, <2>2
<1>6. \A s : Listening(s)' <=> Listening(s)
  BY <1>1 DEF Listening
<1>7. Distinct'
  BY <1>1 DEF Attached, Distinct
<1>8. \A t \in Threads : pc'[t] # "fail" /\ cont'[t] # "fail"
  BY <1>1, <1>3 DEF Moved, Attached
<1> QED
  BY <1>1, <1>2, <1>4, <1>5, <1>6, <1>7, <1>8, ThreadNames DEF Attached

\* So does the thread of a stream,
LEMMA StreamAttached ==
  ASSUME Faultless, TypeInv, Attached, NEW s \in Streams, streamThread(s)
  PROVE  Attached'
<1>0. /\ pc \in [Threads -> Where] /\ cont \in [Threads -> Back] /\ s \in Threads
      /\ mThreadQueue \in [Streams -> Seq(Buffers)] /\ ThreadShape(s)
      /\ mStreamState \in [Streams -> {"INVALID", "STARTED", "STOPPED", "EXITED"}]
  BY ThreadNames DEF TypeInv, TypeOK, Back
<1>1. Moved(s) /\ UNCHANGED <<control, mFrameListeners>>
  BY StreamMoves, StreamLeaves DEF controlVars, dispatchVars
<1>2. control \notin Starting
  BY NobodyRuns
<1>3. \A what : ~fails(s, what)
  BY DEF Faultless, fails
<1>4. pc'[s] \notin {"none", "fail"} /\ cont'[s] # "fail"
  <2>1. CASE takeFrame(s)
    BY <1>0, <2>1 DEF takeFrame, goto, calls, Attached
  <2>2. CASE finishFrame(s) \/ cancelBuffer(s)
    BY <1>0, <2>2 DEF finishFrame, cancelBuffer, goto, calls, Attached
  <2>3. CASE s = "preview" /\ processPreview
    BY <1>0, <1>3, <2>3 DEF processPreview, renderBuffer, holdFrame, requestBuffer, goto, calls, Attached
  <2>4. CASE processCopy(s)
    BY <1>0, <1>3, <2>4 DEF processCopy, goto, Attached
  <2>5. CASE releasing(s)
    <3>1. cont[s] \notin {"none", "fail"} /\ pc[s] # "none"
      BY <1>0, <2>5
      DEF releasing, release, handleFrameRelease, fillCameraFrame, countQueued, ThreadShape, Releasing,
          Resumes, Attached
    <3> QED
      BY <1>0, <2>5, <3>1
      DEF releasing, release, handleFrameRelease, fillCameraFrame, countQueued, goto, returns, Attached
  <2> QED
    BY <2>1, <2>2, <2>3, <2>4, <2>5 DEF streamThread
<1>5. mStreamState' = mStreamState
  BY <1>0, <1>3, ReleasingLeaves
  DEF streamThread, takeFrame, finishFrame, cancelBuffer, processPreview, renderBuffer, holdFrame,
      requestBuffer, processCopy, streamVars, Attached
<1>6. \A u \in Streams \ {s} : mThreadQueue'[u] = mThreadQueue[u]
  BY <1>0, <1>3, ReleasingLeaves
  DEF streamThread, takeFrame, finishFrame, cancelBuffer, processPreview, renderBuffer, holdFrame,
      requestBuffer, processCopy, streamVars
<1>7. ASSUME s = "preview", control \in Serving
      PROVE  pc'[s] # "cancel" /\ cont'[s] # "cancel"
  <2>1. pc[s] # "cancel" /\ cont[s] # "cancel" /\ mStreamState[s] = "STARTED"
    <3>1. control # "start"
      BY <1>7, StreamRuns DEF TypeInv, Phases
    <3> QED
      BY <1>7, <3>1 DEF Attached
  <2>2. CASE takeFrame(s)
    BY <1>0, <2>1, <2>2 DEF takeFrame, goto
  <2>3. CASE finishFrame(s) \/ cancelBuffer(s)
    BY <1>0, <2>1, <2>3 DEF finishFrame, cancelBuffer, goto, calls
  <2>4. CASE processPreview
    BY <1>0, <1>3, <1>7, <2>1, <2>4 DEF processPreview, renderBuffer, holdFrame, requestBuffer, goto, calls
  <2>5. CASE releasing(s)
    BY <1>0, <2>1, <2>5
    DEF releasing, release, handleFrameRelease, fillCameraFrame, countQueued, goto, returns
  <2> QED
    BY <1>7, <2>2, <2>3, <2>4, <2>5 DEF streamThread
<1>8. ASSUME s = "preview", control = "exit"
       PROVE  pc'[s] \notin {"process", "hold", "request"}
  <2>1. pc[s] \notin {"process", "hold", "request"} /\ mStreamState[s] # "STARTED"
    BY <1>8 DEF Attached
  <2>2. CASE takeFrame(s) \/ finishFrame(s) \/ cancelBuffer(s)
    BY <1>0, <2>1, <2>2 DEF takeFrame, finishFrame, cancelBuffer, goto, calls
  <2>3. CASE processPreview
    BY <1>3, <1>8, <2>1, <2>3 DEF processPreview, renderBuffer, holdFrame, requestBuffer
  <2>4. CASE releasing(s)
    <3>1. cont[s] \notin {"process", "hold", "request"}
      BY <1>0, <1>8, <2>4
      DEF releasing, release, handleFrameRelease, fillCameraFrame, countQueued, ThreadShape, Releasing,
          Resumes
    <3> QED
      BY <1>0, <2>4, <3>1
      DEF releasing, release, handleFrameRelease, fillCameraFrame, countQueued, goto, returns
  <2> QED
    BY <1>8, <2>2, <2>3, <2>4 DEF streamThread
<1>9. \A t \in Threads : pc'[t] # "fail" /\ cont'[t] # "fail"
  BY <1>1, <1>4 DEF Moved, Attached
<1>10. \A u \in Streams : pc'[u] = "none" => u # s /\ pc[u] = "none"
  BY <1>1, <1>4, ThreadNames DEF Moved
<1>11. Distinct' /\ \A u : Listening(u)' <=> Listening(u)
  BY <1>1 DEF Attached, Distinct, Listening
<1>12. s # "preview" => pc'["preview"] = pc["preview"] /\ cont'["preview"] = cont["preview"]
  BY <1>1, ThreadNames DEF Moved
<1> QED
  BY <1>1, <1>2, <1>5, <1>6, <1>7, <1>9, <1>10, <1>11, <1>12, <1>8 DEF Attached

\* A stream that stops listening leaves the others, each once and in their order.
LEMMA Unlistened ==
  ASSUME mFrameListeners \in Seq(Streams), Distinct, NEW s \in Streams, removeFrameListener(s)
  PROVE  /\ Distinct' /\ ~Listening(s)' /\ (PreviewFirst => PreviewFirst')
         /\ \A u \in Streams \ {s} : Listening(u)' => Listening(u)
<1>1. CASE ~Listening(s)
  BY <1>1 DEF removeFrameListener, Distinct, Listening, PreviewFirst
<1>2. CASE Listening(s)
  <2> DEFINE n == Len(mFrameListeners)
             p == place(s)
             at(i) == IF i < p THEN i ELSE i + 1
  <2>1. n \in Nat /\ DOMAIN mFrameListeners = 1..n /\ p \in 1..n /\ mFrameListeners[p] = s
    BY <1>2, PlaceOfListener, LenProperties
  <2>2. /\ DOMAIN mFrameListeners' = 1..(n - 1)
        /\ \A i \in 1..(n - 1) : mFrameListeners'[i] = mFrameListeners[at(i)]
    <3>1. /\ DOMAIN mFrameListeners' = 1..(n - 1)
          /\ \A i \in 1..(n - 1) : mFrameListeners'[i] = IF i < p THEN mFrameListeners[i]
                                                         ELSE mFrameListeners[i + 1]
      BY <1>2, <2>1, RemovedAt DEF removeFrameListener
    <3> QED
      BY <3>1
  <2> HIDE DEF n, p
  <2>3. \A i \in 1..(n - 1) : at(i) \in 1..n /\ at(i) # p
    BY <2>1
  <2>4. \A i, j \in 1..(n - 1) : at(i) = at(j) => i = j
    BY <2>1
  <2>5. Distinct'
    <3> SUFFICES ASSUME NEW i \in 1..(n - 1), NEW j \in 1..(n - 1),
                        mFrameListeners'[i] = mFrameListeners'[j]
                 PROVE  i = j
      BY <2>2 DEF Distinct
    <3>1. at(i) \in 1..n /\ at(j) \in 1..n /\ mFrameListeners[at(i)] = mFrameListeners[at(j)]
      BY <2>2, <2>3
    <3>2. at(i) = at(j)
      BY <2>1, <3>1 DEF Distinct
    <3> QED
      BY <2>4, <3>2
  <2>6. ~Listening(s)'
    <3> SUFFICES ASSUME NEW i \in 1..(n - 1), mFrameListeners'[i] = s
                 PROVE  FALSE
      BY <2>2 DEF Listening
    <3>1. at(i) \in 1..n /\ at(i) # p /\ mFrameListeners[at(i)] = s
      BY <2>2, <2>3
    <3> QED
      BY <2>1, <3>1 DEF Distinct
  <2>7. \A u \in Streams \ {s} : Listening(u)' => Listening(u)
    BY <2>1, <2>2, <2>3 DEF Listening
  <2>8. ASSUME PreviewFirst
        PROVE  PreviewFirst'
    <3> SUFFICES ASSUME NEW i \in 1..(n - 1), NEW j \in 1..(n - 1),
                        mFrameListeners'[i] = Jpeg, mFrameListeners'[j] = "preview"
                 PROVE  j < i
      BY <2>2 DEF PreviewFirst
    <3>1. at(i) \in 1..n /\ at(j) \in 1..n
          /\ mFrameListeners[at(i)] = Jpeg /\ mFrameListeners[at(j)] = "preview"
      BY <2>2, <2>3
    <3>2. at(j) < at(i)
      BY <2>1, <2>8, <3>1 DEF PreviewFirst
    <3> QED
      BY <2>1, <3>2
  <2> QED
    BY <2>5, <2>6, <2>7, <2>8
<1> QED
  BY <1>1, <1>2

\* A stream that starts listening is one more, once, behind the others.
LEMMA Listened ==
  ASSUME mFrameListeners \in Seq(Streams), Distinct, NEW s \in Streams, startThread(s)
  PROVE  /\ Distinct'
         /\ PreviewFirst /\ (s = "preview" => ~Listening(Jpeg)) => PreviewFirst'
         /\ \A u \in Streams \ {s} : Listening(u)' <=> Listening(u)
         /\ \A i \in DOMAIN mFrameListeners : i \in DOMAIN mFrameListeners'
                                              /\ mFrameListeners'[i] = mFrameListeners[i]
<1>1. CASE Listening(s)
  BY <1>1 DEF startThread, Distinct, Listening, PreviewFirst
<1>2. CASE ~Listening(s)
  <2> DEFINE n == Len(mFrameListeners)
  <2>1. n \in Nat /\ DOMAIN mFrameListeners = 1..n
    BY LenProperties
  <2>2. /\ DOMAIN mFrameListeners' = 1..(n + 1) /\ mFrameListeners'[n + 1] = s
        /\ \A i \in 1..n : mFrameListeners'[i] = mFrameListeners[i]
    <3>1. mFrameListeners' = Append(mFrameListeners, s)
      BY <1>2 DEF startThread
    <3> QED
      BY <3>1, <2>1, AppendProperties, LenProperties
  <2> HIDE DEF n
  <2>3. \A i \in 1..n : i \in 1..(n + 1)
    BY <2>1
  <2>4. \A i \in 1..(n + 1) : i \in 1..n \/ i = n + 1
    BY <2>1
  <2>5. \A i \in 1..n : mFrameListeners[i] # s
    BY <1>2, <2>1 DEF Listening
  <2>6. Distinct'
    BY <2>1, <2>2, <2>4, <2>5 DEF Distinct
  <2>7. \A u \in Streams \ {s} : Listening(u)' <=> Listening(u)
    BY <2>1, <2>2, <2>3, <2>4 DEF Listening
  <2>8. ASSUME PreviewFirst, s = "preview" => ~Listening(Jpeg)
        PROVE  PreviewFirst'
    <3> SUFFICES ASSUME NEW i \in 1..(n + 1), NEW j \in 1..(n + 1),
                        mFrameListeners'[i] = Jpeg, mFrameListeners'[j] = "preview"
                 PROVE  j < i
      BY <2>2 DEF PreviewFirst
    <3>1. CASE i \in 1..n
      <4>1. mFrameListeners[i] = Jpeg /\ s # "preview"
        BY <2>1, <2>2, <2>8, <3>1 DEF Listening
      <4>2. j \in 1..n /\ mFrameListeners[j] = "preview"
        BY <2>2, <2>4, <4>1
      <4> QED
        BY <2>1, <2>8, <3>1, <4>1, <4>2 DEF PreviewFirst
    <3>2. CASE i = n + 1
      <4>1. j # i
        BY PipelineAssumption
      <4> QED
        BY <2>1, <3>2, <4>1
    <3> QED
      BY <2>4, <3>1, <3>2
  <2> QED
    BY <2>1, <2>2, <2>3, <2>6, <2>7, <2>8
<1> QED
  BY <1>1, <1>2

\* What the steps of a consumer leave alone.
LEMMA ConsumerLeaves ==
  ASSUME NEW s \in Consumers, consumer(s)
  PROVE  UNCHANGED <<controlVars, bufferVars, deviceVars, frame, buf, cont>>
BY DEF consumer, startConsumer, unlistenConsumer, stopConsumer, releaseConsumer, enableReceiveFrame,
       threadVars

\* Consumers leave the preview stream and the device's thread alone.
LEMMA ConsumerOwn ==
  ASSUME TypeInv, Attached, NEW s \in Consumers, consumer(s)
  PROVE  /\ \A t \in Threads \ {s} : pc'[t] = pc[t]
         /\ \A u \in Streams \ {s} : mThreadQueue'[u] = mThreadQueue[u]
         /\ mStreamState'["preview"] = mStreamState["preview"]
         /\ pc'[s] \in {pc[s], "wait", "none"}
<1>0. /\ ThreadTypes /\ s \in Streams /\ s \in Threads /\ s # "preview" /\ "preview" \in Streams
      /\ mThreadQueue \in [Streams -> Seq(Buffers)]
      /\ mStreamState \in [Streams -> {"INVALID", "STARTED", "STOPPED", "EXITED"}]
  BY ThreadNames, TypeParts DEF TypeInv, Shared
<1>1. CASE startConsumer(s)
  BY <1>0, <1>1 DEF startConsumer, startThread, ThreadTypes
<1>2. CASE unlistenConsumer(s) \/ enableReceiveFrame
  BY <1>2 DEF unlistenConsumer, enableReceiveFrame, streamVars, threadVars
<1>3. CASE stopConsumer(s)
  BY <1>0, <1>3 DEF stopConsumer, stopThread, threadVars
<1>4. CASE releaseConsumer(s)
  BY <1>0, <1>4 DEF releaseConsumer, exitThread, ThreadTypes
<1> QED
  BY <1>1, <1>2, <1>3, <1>4 DEF consumer

\* a consumer that starts or stops,
LEMMA ConsumerAttached ==
  ASSUME TypeInv, Attached, NEW s \in Consumers, consumer(s)
  PROVE  Attached'
<1>0. /\ ThreadTypes /\ mFrameListeners \in Seq(Streams) /\ Distinct
      /\ mThreadQueue \in [Streams -> Seq(Buffers)]
      /\ s \in Streams /\ s \in Threads /\ s # "preview" /\ "preview" \in Threads
      /\ "preview" \in Streams /\ Streams \subseteq Threads
  BY ThreadNames, TypeParts DEF TypeInv, Attached, Shared
<1>1. control' = control /\ cont' = cont
  BY ConsumerLeaves DEF controlVars
<1>2. /\ \A t \in Threads \ {s} : pc'[t] = pc[t]
      /\ \A u \in Streams \ {s} : mThreadQueue'[u] = mThreadQueue[u]
      /\ mStreamState'["preview"] = mStreamState["preview"]
      /\ pc'[s] # "fail"
  BY <1>0, ConsumerOwn DEF Attached
<1>3. /\ Distinct' /\ \A u \in Streams \ {s} : Listening(u)' => Listening(u)
  <2>1. CASE startConsumer(s)
    BY <1>0, <2>1, Listened DEF startConsumer
  <2>2. CASE unlistenConsumer(s)
    BY <1>0, <2>2, Unlistened DEF unlistenConsumer
  <2>3. CASE stopConsumer(s) \/ releaseConsumer(s) \/ enableReceiveFrame
    BY <1>0, <2>3
    DEF stopConsumer, releaseConsumer, enableReceiveFrame, dispatchVars, Distinct, Listening
  <2> QED
    BY <2>1, <2>2, <2>3 DEF consumer
<1>4. pc'[s] = "none" => mThreadQueue'[s] = <<>> /\ ~Listening(s)'
  <2>1. CASE startConsumer(s)
    BY <1>0, <2>1 DEF startConsumer, startThread, ThreadTypes
  <2>2. CASE unlistenConsumer(s)
    BY <1>0, <2>2 DEF unlistenConsumer, threadVars, Attached
  <2>3. CASE stopConsumer(s) \/ enableReceiveFrame
    BY <1>0, <2>3
    DEF stopConsumer, stopThread, enableReceiveFrame, threadVars, dispatchVars, Listening, Attached
  <2>4. CASE releaseConsumer(s)
    BY <1>0, <2>4 DEF releaseConsumer, exitThread, dispatchVars, Listening, Leaving
  <2> QED
    BY <2>1, <2>2, <2>3, <2>4 DEF consumer
<1>5. control \in Starting => Still(s)'
  <2>1. CASE startConsumer(s) \/ unlistenConsumer(s) \/ enableReceiveFrame
    BY <2>1 DEF startConsumer, unlistenConsumer, StopTime, enableReceiveFrame, Starting
  <2>2. CASE stopConsumer(s)
    BY <1>0, <2>2 DEF stopConsumer, stopThread, threadVars, Still, Attached
  <2>3. CASE releaseConsumer(s)
    BY <1>0, <2>3 DEF releaseConsumer, exitThread, Still, ThreadTypes
  <2> QED
    BY <2>1, <2>2, <2>3 DEF consumer
<1>6. \A t \in Threads : pc'[t] # "fail" /\ cont'[t] # "fail"
  BY <1>1, <1>2 DEF Attached
<1>7. \A u \in Streams : pc'[u] = "none" => mThreadQueue'[u] = <<>> /\ ~Listening(u)'
  BY <1>0, <1>2, <1>3, <1>4 DEF Attached
<1>8. control \in Starting => \A u \in Streams : Still(u)'
  BY <1>0, <1>2, <1>5 DEF Attached, Still
<1> QED
  BY <1>0, <1>1, <1>2, <1>3, <1>6, <1>7, <1>8 DEF Attached

\* the start of the preview, which listens only after its thread exists,
LEMMA StartAttached ==
  ASSUME Faultless, TypeInv, Attached, configure \/ startSteps
  PROVE  Attached'
<1>0. /\ ThreadTypes /\ Phases /\ mFrameListeners \in Seq(Streams) /\ Distinct
      /\ mThreadQueue \in [Streams -> Seq(Buffers)]
      /\ mStreamState \in [Streams -> {"INVALID", "STARTED", "STOPPED", "EXITED"}]
      /\ "preview" \in Threads /\ "preview" \in Streams /\ Streams \subseteq Threads
      /\ "device" \in Threads /\ "device" \notin Streams /\ \A t \in Threads : ThreadShape(t)
  BY ThreadNames, TypeParts DEF TypeInv, Attached, Shared
<1> USE DEF threadVars, dispatchVars, streamVars
<1>1. CASE configure
  <2>1. \A s \in Streams : Still(s)
    BY <1>0, <1>1 DEF configure, Faultless, ConsumersIdle, Still, Streams, Attached, Phases
  <2> QED
    BY <1>1, <2>1 DEF configure, Attached, Still, Serving, Starting, Distinct, Listening
<1>2. CASE holdInService
  <2>1. pc["preview"] = "none" /\ cont["preview"] = "none"
    BY <1>0, <1>2 DEF holdInService, Phases, ThreadShape, Releasing
  <2> QED
    BY <1>2, <2>1 DEF holdInService, Attached, Still, Serving, Starting, Distinct, Listening
<1>3. CASE startStream
  <2>1. pc["preview"] = "none" /\ cont["preview"] = "none"
    BY <1>0, <1>3 DEF startStream, Phases, ThreadShape, Releasing
  <2>2. /\ startThread("preview") /\ cont' = cont /\ control = "start" /\ control' = "flag"
    BY <1>3 DEF startStream
  <2>3. /\ pc'["preview"] = "wait" /\ mThreadQueue'["preview"] = <<>>
        /\ mStreamState'["preview"] = "STARTED"
        /\ \A t \in Threads \ {"preview"} : pc'[t] = pc[t]
        /\ \A u \in Streams \ {"preview"} : mThreadQueue'[u] = mThreadQueue[u]
    BY <1>0, <2>2 DEF startThread, ThreadTypes
  <2>4. Distinct' /\ \A u \in Streams \ {"preview"} : Listening(u)' <=> Listening(u)
    BY <1>0, <2>2, Listened
  <2>5. \A u \in Streams : Still(u)'
    BY <1>0, <2>2, <2>3 DEF Attached, Still, Starting
  <2>6. \A t \in Threads : pc'[t] # "fail" /\ cont'[t] # "fail"
    BY <2>2, <2>3 DEF Attached
  <2>7. \A u \in Streams : pc'[u] = "none" => mThreadQueue'[u] = <<>> /\ ~Listening(u)'
    BY <1>0, <2>3, <2>4 DEF Attached
  <2> QED
    BY <2>1, <2>2, <2>3, <2>4, <2>5, <2>6, <2>7 DEF Attached, Serving, Starting
<1>4. CASE startPreview \/ fillDevice
  BY <1>4 DEF startPreview, fillDevice, Attached, Still, Serving, Starting, Distinct, Listening
<1>5. CASE streamOn
  <2>1. pc'["device"] = "check" /\ \A t \in Threads \ {"device"} : pc'[t] = pc[t]
    BY <1>0, <1>5 DEF streamOn, goto, ThreadTypes
  <2>2. \A t \in Threads : pc'[t] # "fail" /\ cont'[t] # "fail"
    BY <1>5, <2>1 DEF streamOn, Attached
  <2> QED
    BY <1>0, <1>5, <2>1, <2>2 DEF streamOn, Attached, Still, Serving, Starting, Distinct, Listening
<1> QED
  BY <1>1, <1>2, <1>3, <1>4, <1>5 DEF startSteps

\* and its stop, which removes the listener before the thread ends.
LEMMA StopAttached ==
  ASSUME TypeInv, Attached, stopPreview \/ stopSteps
  PROVE  Attached'
<1>0. /\ ThreadTypes /\ Phases /\ mFrameListeners \in Seq(Streams) /\ Distinct
      /\ mThreadQueue \in [Streams -> Seq(Buffers)]
      /\ mStreamState \in [Streams -> {"INVALID", "STARTED", "STOPPED", "EXITED"}]
      /\ "preview" \in Threads /\ "preview" \in Streams /\ Streams \subseteq Threads
      /\ "device" \in Threads /\ "device" \notin Streams
  BY ThreadNames, TypeParts DEF TypeInv, Attached, Shared
<1> USE DEF threadVars, dispatchVars, streamVars
<1>1. CASE stopPreview \/ streamOff \/ clearDevice \/ zeroQueued
  BY <1>1 DEF stopPreview, streamOff, clearDevice, zeroQueued, Attached, Serving, Starting, Distinct, Listening
<1>2. CASE joinDevice
  <2>1. pc'["device"] = "none" /\ \A t \in Threads \ {"device"} : pc'[t] = pc[t]
    BY <1>0, <1>2 DEF joinDevice, goto, ThreadTypes
  <2>2. \A t \in Threads : pc'[t] # "fail" /\ cont'[t] # "fail"
    BY <1>2, <2>1 DEF joinDevice, Attached
  <2> QED
    BY <1>0, <1>2, <2>1, <2>2 DEF joinDevice, Attached, Serving, Starting, Distinct, Listening
<1>3. CASE unlisten
  <2>1. /\ Distinct' /\ ~Listening("preview")' /\ \A u \in Streams : Listening(u)' => Listening(u)
        /\ UNCHANGED <<pc, cont, mThreadQueue, mStreamState>>
        /\ control = "unlisten" /\ control' = "stop"
    BY <1>0, <1>3, Unlistened DEF unlisten
  <2> QED
    BY <2>1 DEF Attached, Serving, Starting
<1>4. CASE stopStream
  <2>1. /\ control = "stop" /\ control' = "exit" /\ pc["preview"] = "wait"
        /\ mStreamState'["preview"] # "STARTED"
        /\ UNCHANGED <<pc, cont, mThreadQueue, mFrameListeners>>
    BY <1>0, <1>4 DEF stopStream, stopThread
  <2> QED
    BY <2>1 DEF Attached, Serving, Starting, Distinct, Listening
<1>5. CASE exitStream
  <2>1. /\ control = "exit" /\ control' = "free" /\ UNCHANGED <<cont, mFrameListeners>>
        /\ pc'["preview"] = "none" /\ mThreadQueue'["preview"] = <<>>
        /\ \A t \in Threads \ {"preview"} : pc'[t] = pc[t]
        /\ \A u \in Streams \ {"preview"} : mThreadQueue'[u] = mThreadQueue[u]
    BY <1>0, <1>5 DEF exitStream, exitThread, ThreadTypes
  <2>2. ~Listening("preview") /\ Distinct' /\ \A u : Listening(u)' <=> Listening(u)
    BY <2>1 DEF Attached, Serving, Distinct, Listening
  <2>3. \A t \in Threads : pc'[t] # "fail" /\ cont'[t] # "fail"
    BY <2>1 DEF Attached
  <2>4. \A u \in Streams : pc'[u] = "none" => mThreadQueue'[u] = <<>> /\ ~Listening(u)'
    BY <1>0, <2>1, <2>2 DEF Attached
  <2> QED
    BY <2>1, <2>2, <2>3, <2>4 DEF Attached, Serving, Starting
<1>6. CASE freeBuffers
  BY <1>6 DEF freeBuffers, Attached, Serving, Starting, Distinct, Listening
<1> QED
  BY <1>1, <1>2, <1>3, <1>4, <1>5, <1>6 DEF stopSteps

\* Every step keeps it.
LEMMA AttachedStep ==
  ASSUME Faultless, TypeInv, Attached, [Next]_vars
  PROVE  Attached'
<1>1. CASE Next
  BY <1>1, DeviceAttached, StreamAttached, ConsumerAttached, StartAttached, StopAttached DEF Next
<1>2. CASE UNCHANGED vars
  BY <1>2
  DEF vars, dispatchVars, streamVars, threadVars, controlVars, Attached, Still, Distinct, Listening
<1> QED
  BY <1>1, <1>2

-----------------------------------------------------------------------------
(* Where the buffers are while preview starts. *)

\* With preview off the window has every buffer; the free ones are those it gave
\* away, and the driver has none before they are filled in.
Placed ==
  /\ control = "off" => inWindow = Buffers
  /\ control = "service" => \A b \in Buffers : mRefCount[b] = 0
  /\ control \in {"start", "flag", "fill"} => inDriver = {}
  /\ control \in Starting => \A b \in Buffers : dropped[b] = 0
  /\ \A b \in Buffers : mBufState[b] = "FREE"
                        <=> b \notin inWindow /\ control \in {"service", "start", "flag", "fill"}

\* Every step keeps the frames where the phase of the preview has them.
LEMMA PlacedStep ==
  ASSUME TypeInv, Attached, Placed, [Next]_vars
  PROVE  Placed'
<1>0. Shared /\ Phases
  BY TypeParts DEF TypeInv
<1>1. CASE deviceThread
  BY <1>1, NobodyRuns, DeviceLeaves DEF Placed, Starting, controlVars
<1>2. ASSUME NEW s \in Streams, streamThread(s)
      PROVE  Placed'
  <2>1. control' = control /\ mBufState' = mBufState /\ control \notin Starting
    BY <1>2, NobodyRuns, StreamLeaves DEF controlVars
  <2>2. control = "off" => inWindow' = inWindow
    <3>1. ASSUME control = "off"
          PROVE  s # "preview"
      BY <1>0, <1>2, <3>1, StreamRuns DEF Phases
    <3> QED
      BY <1>2, <3>1, ReleasingLeaves
      DEF streamThread, takeFrame, finishFrame, cancelBuffer, processCopy, fails, bufferVars
  <2> QED
    BY <2>1, <2>2 DEF Placed, Starting
<1>3. ASSUME NEW s \in Consumers, consumer(s)
      PROVE  Placed'
  <2>1. UNCHANGED <<bufferVars, controlVars>>
    BY <1>3, ConsumerLeaves
  <2>2. ASSUME control \in Starting
        PROVE  \A b \in Buffers : dropped'[b] = 0
    <3>1. CASE stopConsumer(s)
      BY <2>2, <3>1 DEF stopConsumer, stopThread, Placed
    <3>2. CASE releaseConsumer(s)
      <4>1. s \in Streams /\ mThreadQueue[s] = <<>>
        BY <2>2, ThreadNames DEF Attached, Still
      <4>2. \A b : {i \in DOMAIN mThreadQueue[s] : mThreadQueue[s][i] = b} = {}
        BY <4>1
      <4>3. Cardinality({}) = 0
        BY FS_EmptySet
      <4>4. \A b \in Buffers : dropped'[b] = dropped[b] + 0 /\ dropped[b] = 0
        BY <2>2, <3>2, <4>2, <4>3 DEF releaseConsumer, exitThread, Placed
      <4> QED
        BY <4>4
    <3>3. CASE startConsumer(s) \/ unlistenConsumer(s) \/ enableReceiveFrame
      BY <2>2, <3>3 DEF startConsumer, unlistenConsumer, StopTime, enableReceiveFrame, Starting
    <3> QED
      BY <1>3, <3>1, <3>2, <3>3 DEF consumer
  <2> QED
    BY <2>1, <2>2 DEF bufferVars, controlVars, Placed
<1> USE DEF bufferVars, streamVars, Starting
<1>4. CASE configure
  BY <1>0, <1>4 DEF configure, Placed, Shared
<1>5. CASE holdInService
  <2>1. /\ control = "service" /\ control' = "start" /\ inDriver' = {} /\ inWindow' = inWindow
        /\ \A b \in Buffers : mBufState'[b] = "FREE" <=> mBufState[b] = "FREE"
        /\ dropped' = dropped
    BY <1>0, <1>5 DEF holdInService, Shared
  <2> QED
    BY <2>1 DEF Placed
<1>6. CASE startStream \/ startPreview \/ streamOn
  BY <1>6 DEF startStream, startThread, startPreview, streamOn, Placed
<1>7. CASE fillDevice
  <2>1. /\ control = "fill" /\ control' = "on"
        /\ \A b \in Buffers : mBufState'[b] # "FREE"
        /\ dropped' = dropped
    BY <1>0, <1>7 DEF fillDevice, Shared
  <2> QED
    BY <2>1 DEF Placed
<1>8. CASE stopPreview \/ stopSteps
  BY <1>8
  DEF stopPreview, stopSteps, joinDevice, streamOff, clearDevice, zeroQueued, unlisten, stopStream, exitStream,
      freeBuffers, Placed
<1>9. CASE UNCHANGED vars
  BY <1>9 DEF vars, controlVars, Placed
<1> QED
  BY <1>1, <1>2, <1>3, <1>4, <1>5, <1>6, <1>7, <1>8, <1>9 DEF Next, startSteps

-----------------------------------------------------------------------------
(* References, claims to a frame without any, and frames on their way to the  *)
(* window.                                                                    *)

serves(b) == IF inService(b) THEN 1 ELSE 0

\* Apart from the window's, every reference has an owner or was that of a message
\* nobody has read.
owners(b)  == users(b) + dropped[b]
ExactAt(b) == IF control \in Serving THEN mRefCount[b] = owners(b) + serves(b)
              ELSE mRefCount[b] >= owners(b)

\* Who may take over a frame without references: the driver, the device thread
\* that dequeued it, or a thread that is about to queue it.
dispatched(b)  == pc["device"] = "dispatch" /\ frame["device"] = b
refills(t, b)  == pc[t] \in {"refill", "qbuf"} /\ buf[t] = b

ClaimsAt(b) ==
  /\ b \in inDriver \/ dispatched(b) \/ (\E t \in Threads : refills(t, b)) => mRefCount[b] = 0
  /\ b \in inDriver => ~dispatched(b)
  /\ b \in inDriver \/ dispatched(b) => \A t \in Threads : ~refills(t, b)
  /\ \A t, u \in Threads : refills(t, b) /\ refills(u, b) => t = u

\* A frame on its way to the window is there once and not in the window yet.
rendering(b) == pc["preview"] = "process" /\ frame["preview"] = b
toPreview(b) == \E i \in DOMAIN mThreadQueue["preview"] : mThreadQueue["preview"][i] = b
ahead == \E k \in next..nSize : listenerAt(k) = "preview"
due(b) == /\ pc["device"] \in {"each", "call"} /\ frame["device"] = b
          /\ (pc["device"] = "call" /\ listener = "preview") \/ ahead

ShownAt(b) ==
  /\ pc["preview"] = "hold" /\ frame["preview"] = b => b \in inWindow
  /\ rendering(b) \/ toPreview(b) \/ due(b) => b \notin inWindow
  /\ toPreview(b) => ~rendering(b)
  /\ due(b) => ~rendering(b) /\ ~toPreview(b)
  /\ \A i, j \in DOMAIN mThreadQueue["preview"] :
       mThreadQueue["preview"][i] = b /\ mThreadQueue["preview"][j] = b => i = j

\* The preview stream comes before a JPEG stream that may leave during a dispatch,
\* so that the dispatch does not come to it twice.
PreviewOnce == /\ PreviewFirst /\ pastEnd # "preview"
               /\ pc["device"] = "call" /\ listener = "preview" => ~ahead

Exact  == \A b \in Buffers : ExactAt(b)
Claims == control \in Serving => \A b \in Buffers : ClaimsAt(b)
Shown  == control \in Serving => \A b \in Buffers : ShownAt(b)

\* A frame is needed by those who use it and by the dispatch that serves it.
LEMMA NeedsAre ==
  ASSUME NEW b
  PROVE  needs(b) = users(b) + serves(b)
BY DEF needs, serves

\* The users of a frame are counted by a number, zero when there are none.
LEMMA UsersNat ==
  ASSUME TypeInv, NEW b
  PROVE  /\ users(b) \in Nat
         /\ users(b) = 0 => /\ \A t \in Threads : ~busy(t, b) /\ ~dropping(t, b)
                            /\ \A s \in Streams : \A i \in DOMAIN mThreadQueue[s] :
                                 mThreadQueue[s][i] # b
         /\ (\A t \in Threads : ~busy(t, b) /\ ~dropping(t, b)) /\ messages(b) = {} => users(b) = 0
<1>1. /\ IsFiniteSet(workers(b)) /\ Cardinality(workers(b)) \in Nat
      /\ IsFiniteSet(releasers(b)) /\ Cardinality(releasers(b)) \in Nat
      /\ IsFiniteSet(messages(b)) /\ Cardinality(messages(b)) \in Nat
  BY FiniteSets, MessagesFinite DEF workers, releasers, TypeInv, TypeOK
<1>2. users(b) = Cardinality(workers(b)) + Cardinality(releasers(b)) + Cardinality(messages(b))
  BY DEF users
<1>3. users(b) \in Nat
  BY <1>1, <1>2
<1>4. /\ Cardinality(workers(b)) = 0 <=> workers(b) = {}
      /\ Cardinality(releasers(b)) = 0 <=> releasers(b) = {}
      /\ Cardinality(messages(b)) = 0 <=> messages(b) = {}
  BY <1>1, FS_EmptySet
<1>5. users(b) = 0 <=> workers(b) = {} /\ releasers(b) = {} /\ messages(b) = {}
  BY <1>1, <1>2, <1>4
<1>6. /\ workers(b) = {} <=> \A t \in Threads : ~busy(t, b)
      /\ releasers(b) = {} <=> \A t \in Threads : ~dropping(t, b)
  BY DEF workers, releasers, busy, dropping
<1>7. messages(b) = {} => \A s \in Streams : \A i \in DOMAIN mThreadQueue[s] : mThreadQueue[s][i] # b
  BY MessagesAre
<1> QED
  BY <1>3, <1>5, <1>6, <1>7

\* A frame somebody works on, releases or has been sent has a reference;
LEMMA UsedIsReferenced ==
  ASSUME TypeInv, NEW b \in Buffers, ExactAt(b), NEW t \in Threads, busy(t, b) \/ dropping(t, b)
  PROVE  mRefCount[b] > 0
<1>1. users(b) \in Nat /\ users(b) # 0
  BY UsersNat
<1>2. serves(b) \in {0, 1} /\ mRefCount[b] \in Nat /\ dropped[b] \in Nat
  BY DEF serves, TypeInv, TypeOK
<1> QED
  BY <1>1, <1>2 DEF ExactAt, owners

\* ... one without is not in service either.
LEMMA FreeIsUnused ==
  ASSUME TypeInv, NEW b \in Buffers, control \in Serving, ExactAt(b), mRefCount[b] = 0
  PROVE  /\ needs(b) = 0 /\ dropped[b] = 0 /\ b \notin inWindow
         /\ \A t \in Threads : ~busy(t, b) /\ ~dropping(t, b)
         /\ \A s \in Streams : \A i \in DOMAIN mThreadQueue[s] : mThreadQueue[s][i] # b
<1>1. /\ users(b) \in Nat /\ serves(b) \in {0, 1} /\ dropped[b] \in Nat
      /\ users(b) + dropped[b] + serves(b) = 0
  BY UsersNat DEF serves, ExactAt, owners, TypeInv, TypeOK
<1>2. users(b) = 0 /\ serves(b) = 0 /\ dropped[b] = 0
  BY <1>1
<1>3. /\ \A t \in Threads : ~busy(t, b) /\ ~dropping(t, b)
      /\ \A s \in Streams : \A i \in DOMAIN mThreadQueue[s] : mThreadQueue[s][i] # b
  BY <1>2, UsersNat
<1>4. ~(pc["preview"] = "hold" /\ frame["preview"] = b)
  <2>1. "preview" \in Threads /\ ThreadShape("preview")
    BY ThreadNames DEF TypeInv
  <2>2. pc["preview"] = "hold" => cont["preview"] = "none"
    BY <2>1 DEF ThreadShape, Releasing
  <2> QED
    BY <1>3, <2>1, <2>2 DEF busy, Returning
<1>5. b \notin inWindow
  BY <1>2, <1>4 DEF serves, inService
<1> QED
  BY <1>2, <1>3, <1>5, NeedsAre

\* By how much a step changes what b's count is made of: messages, be it those
\* in a queue or those thrown away, threads, the window, and the count.
Sends(b, d)    == \E e \in Int : /\ Cardinality(messages(b)') = Cardinality(messages(b)) + e
                                /\ dropped'[b] = dropped[b] + d - e
Holds(t, b, h) == held(t, b)' = held(t, b) + h
Serves(b, v)   == serves(b)' = serves(b) + v
Counts(b, r)   == mRefCount'[b] = mRefCount[b] + r

\* A step of thread t that changes the references of b as it changes those who
\* need it keeps the count exact.
LEMMA ExactKept ==
  ASSUME TypeInv, NEW b \in Buffers, ExactAt(b), NEW t \in Threads, Moved(t), control' = control,
         NEW d \in Int, Sends(b, d), NEW h \in Int, Holds(t, b, h),
         NEW v \in Int, Serves(b, v), NEW r \in Int, Counts(b, r),
         control \in Serving => r = h + d + v, control \notin Serving => r >= h + d
  PROVE  ExactAt(b)'
<1>1. /\ held(t, b) \in Int /\ serves(b) \in Int /\ mRefCount[b] \in Nat /\ users(b) \in Nat
      /\ dropped[b] \in Nat
  BY UsersNat DEF held, works, drops, serves, TypeInv, TypeOK
<1>2. PICK e \in Int : users(b)' = users(b) + h + e /\ dropped'[b] = dropped[b] + d - e
  <2>1. PICK e \in Int : /\ Cardinality(messages(b)') = Cardinality(messages(b)) + e
                         /\ dropped'[b] = dropped[b] + d - e
    BY DEF Sends
  <2>2. users(b)' = users(b) + held(t, b)' - held(t, b) + e
    BY <2>1, UsersChange, TypeParts DEF TypeInv
  <2> QED
    BY <1>1, <2>1, <2>2 DEF Holds
<1>3. owners(b)' = owners(b) + h + d /\ owners(b) \in Nat
  BY <1>1, <1>2 DEF owners
<1>4. mRefCount'[b] = mRefCount[b] + r /\ serves(b)' = serves(b) + v
  BY DEF Serves, Counts
<1>5. CASE control \in Serving
  <2>1. mRefCount[b] = owners(b) + serves(b) /\ r = h + d + v
    BY <1>5 DEF ExactAt
  <2>2. mRefCount'[b] = owners(b)' + serves(b)'
    BY <1>1, <1>3, <1>4, <2>1
  <2> QED
    BY <1>5, <2>2 DEF ExactAt
<1>6. CASE control \notin Serving
  <2>1. mRefCount[b] >= owners(b) /\ r >= h + d
    BY <1>6 DEF ExactAt
  <2>2. mRefCount'[b] >= owners(b)'
    BY <1>1, <1>3, <1>4, <2>1
  <2> QED
    BY <1>6, <2>2 DEF ExactAt
<1> QED
  BY <1>5, <1>6

\* What changes nothing changes it by zero.
LEMMA Unchanged ==
  ASSUME TypeInv, NEW b \in Buffers
  PROVE  /\ mThreadQueue' = mThreadQueue /\ dropped' = dropped => Sends(b, 0)
         /\ mRefCount' = mRefCount => Counts(b, 0)
         /\ inWindow' = inWindow /\ frame'["preview"] = frame["preview"]
              /\ (pc'["preview"] = "hold" <=> pc["preview"] = "hold") => Serves(b, 0)
<1>1. ASSUME mThreadQueue' = mThreadQueue, dropped' = dropped
      PROVE  Sends(b, 0)
  <2>1. Cardinality(messages(b)') = Cardinality(messages(b)) + 0
    <3>1. messages(b)' = messages(b)
      BY <1>1 DEF messages, messagesTo
    <3> QED
      BY <3>1, MessagesFinite DEF TypeInv, TypeOK
  <2>2. dropped'[b] = dropped[b] + 0 - 0
    BY <1>1 DEF TypeInv, TypeOK
  <2> QED
    BY <2>1, <2>2 DEF Sends
<1>2. ASSUME mRefCount' = mRefCount
      PROVE  Counts(b, 0)
  BY <1>2 DEF Counts, TypeInv, TypeOK
<1>3. ASSUME inWindow' = inWindow, frame'["preview"] = frame["preview"],
             pc'["preview"] = "hold" <=> pc["preview"] = "hold"
      PROVE  Serves(b, 0)
  <2>1. inService(b)' <=> inService(b)
    BY <1>3 DEF inService
  <2> QED
    BY <2>1 DEF Serves, serves
<1> QED
  BY <1>1, <1>2, <1>3

\* release() gives up the reference of the one who calls it.
LEMMA ReleasingExact ==
  ASSUME TypeInv, NEW b \in Buffers, ExactAt(b), NEW t \in Threads, releasing(t)
  PROVE  ExactAt(b)'
<1>1. ThreadTypes /\ ThreadShape(t) /\ Shared
  BY TypeParts DEF TypeInv
<1>2. /\ Moved(t) /\ control' = control /\ mThreadQueue' = mThreadQueue /\ inWindow' = inWindow
      /\ frame' = frame /\ dropped' = dropped
  BY <1>1, ReleasingMoves, ReleasingLeaves DEF controlVars, streamVars
<1>3. /\ pc[t] \in Releasing /\ buf[t] \in Buffers /\ cont[t] \in Resumes(t)
  BY <1>1
  DEF releasing, release, handleFrameRelease, fillCameraFrame, countQueued, ThreadShape, Releasing
<1>4. cont[t] \notin {"dispatch", "hold", "none", "release"}
  BY <1>3 DEF Resumes
<1>5. \/ pc'[t] \in {"refill", "qbuf", "inc"} /\ cont'[t] = cont[t]
      \/ pc'[t] = cont[t] /\ cont'[t] = "none"
  BY <1>1
  DEF releasing, release, handleFrameRelease, fillCameraFrame, countQueued, goto, returns, ThreadTypes
<1>6. works(t, b)' = works(t, b)
  <2>1. busy(t, b)' <=> busy(t, b)
    BY <1>2, <1>3, <1>4, <1>5 DEF busy, Returning, Releasing
  <2> QED
    BY <2>1 DEF works
<1>7. pc'["preview"] = "hold" <=> pc["preview"] = "hold"
  <2>1. CASE t = "preview"
    BY <1>3, <1>4, <1>5, <2>1 DEF Releasing
  <2>2. CASE t # "preview"
    BY <1>2, <2>2, ThreadNames DEF Moved
  <2> QED
    BY <2>1, <2>2
<1>8. Sends(b, 0) /\ Serves(b, 0)
  BY <1>2, <1>7, Unchanged
<1>9. drops(t, b)' = 0
  BY <1>4, <1>5 DEF dropping, drops
<1>10. Holds(t, b, 0 - drops(t, b))
  BY <1>6, <1>9 DEF Holds, held, works, drops
<1>11. Counts(b, 0 - drops(t, b))
  <2>1. CASE release(t)
    BY <1>1, <1>3, <2>1 DEF release, drops, dropping, Counts, Shared
  <2>2. CASE handleFrameRelease(t) \/ fillCameraFrame(t) \/ countQueued(t)
    BY <1>1, <2>2 DEF handleFrameRelease, fillCameraFrame, countQueued, drops, dropping, bufferVars, Counts, Shared
  <2> QED
    BY <2>1, <2>2 DEF releasing
<1>12. 0 - drops(t, b) \in Int /\ 0 \in Int
  BY DEF drops
<1> QED
  BY <1>2, <1>8, <1>10, <1>11, <1>12, ExactKept

\* The device thread takes a reference for itself and one for every listener.
LEMMA DeviceExact ==
  ASSUME TypeInv, NEW b \in Buffers, ExactAt(b), deviceThread
  PROVE  ExactAt(b)'
<1> DEFINE t == "device"
<1>1. /\ ThreadTypes /\ ThreadShape(t) /\ Shared /\ t \in Threads /\ NoBuffer \notin Buffers
      /\ "preview" \in Threads /\ "preview" # t
  BY ThreadNames, TypeParts, PipelineAssumption DEF TypeInv
<1>2. /\ Moved(t) /\ control' = control /\ inWindow' = inWindow /\ 0 \in Int /\ 1 \in Int
      /\ pc'["preview"] = pc["preview"] /\ frame'["preview"] = frame["preview"]
  BY <1>1, DeviceMoves, DeviceLeaves DEF controlVars, Moved
<1>3. Serves(b, 0)
  BY <1>2, Unchanged
<1>4. pc[t] \notin Releasing => cont[t] = "none" /\ buf[t] = NoBuffer
  BY <1>1 DEF ThreadShape
<1>10. CASE readListener \/ frameNotWanted
  <2>1. Sends(b, 0) /\ Counts(b, 0)
    BY <1>10, Unchanged DEF readListener, frameNotWanted, called, bufferVars, streamVars
  <2>2. /\ pc[t] \in {"each", "call"} /\ pc'[t] \in {"each", "call"}
        /\ UNCHANGED <<frame, buf, cont>>
    BY <1>1, <1>10 DEF readListener, frameNotWanted, called, goto, ThreadTypes
  <2>3. Holds(t, b, 0)
    BY <2>2 DEF Holds, held, works, drops, busy, dropping, Returning
  <2> QED
    BY <1>1, <1>2, <1>3, <2>1, <2>3, ExactKept
<1>5. CASE deviceLoop \/ acquireFails \/ acquireCameraFrame
  <2>1. Sends(b, 0) /\ Counts(b, 0)
    BY <1>5, Unchanged DEF deviceLoop, acquireFails, acquireCameraFrame, bufferVars, streamVars
  <2>2. pc[t] \in {"check", "dqbuf"} /\ pc'[t] \in {"dqbuf", "exited", "dispatch"}
    BY <1>1, <1>5 DEF deviceLoop, acquireFails, acquireCameraFrame, goto, ThreadTypes
  <2>3. frame[t] # b /\ (frame'[t] # b \/ pc'[t] = "dispatch")
    <3>1. frame[t] \notin Buffers /\ (frame'[t] \notin Buffers \/ pc'[t] = "dispatch")
      BY <1>1, <1>2, <2>2 DEF ThreadShape, Moved, Releasing, Idling
    <3> QED
      BY <3>1
  <2>4. Holds(t, b, 0)
    BY <2>2, <2>3 DEF Holds, held, works, drops, busy, dropping
  <2> QED
    BY <1>1, <1>2, <1>3, <2>1, <2>4, ExactKept
<1>6. CASE dispatchCameraFrame
  <2>1. Sends(b, 0)
    BY <1>6, Unchanged DEF dispatchCameraFrame, streamVars
  <2>2. /\ pc[t] = "dispatch" /\ pc'[t] = "each" /\ frame' = frame /\ cont' = cont /\ buf' = buf
        /\ frame[t] \in Buffers /\ mRefCount' = [mRefCount EXCEPT ![frame[t]] = @ + 1]
    BY <1>1, <1>6
    DEF dispatchCameraFrame, goto, ThreadTypes, ThreadShape, Releasing, Idling, addReference
  <2>3. CASE frame[t] = b
    <3>1. Counts(b, 1)
      BY <1>1, <2>2, <2>3 DEF Counts, Shared
    <3>2. Holds(t, b, 1)
      BY <1>4, <2>2, <2>3 DEF Holds, held, works, drops, busy, dropping, Returning, Releasing
    <3> QED
      BY <1>1, <1>2, <1>3, <2>1, <3>1, <3>2, ExactKept
  <2>4. CASE frame[t] # b
    <3>1. Counts(b, 0)
      BY <1>1, <2>2, <2>4 DEF Counts, Shared
    <3>2. Holds(t, b, 0)
      BY <2>2, <2>4 DEF Holds, held, works, drops, busy, dropping
    <3> QED
      BY <1>1, <1>2, <1>3, <2>1, <3>1, <3>2, ExactKept
  <2> QED
    BY <2>3, <2>4
<1>7. CASE handleCameraFrame
  <2>1. /\ pc[t] = "call" /\ pc'[t] = "each" /\ UNCHANGED <<frame, buf, cont>>
        /\ mRefCount' = [mRefCount EXCEPT ![frame[t]] = @ + 1] /\ frame[t] \in Buffers
    BY <1>1, <1>7, HandedToListener DEF handleCameraFrame, called, goto, addReference, ThreadTypes
  <2>2. Holds(t, b, 0)
    BY <2>1 DEF Holds, held, works, drops, busy, dropping, Returning
  <2>3. Sends(b, one(b = frame[t]))
    <3>1. Cardinality(messages(b)) \in Nat /\ dropped[b] \in Nat
      BY <1>1, MessagesFinite DEF Shared
    <3>2. CASE pc[listener] = "none"
      <4>1. mThreadQueue' = mThreadQueue /\ dropped' = [dropped EXCEPT ![frame[t]] = @ + 1]
        BY <1>7, <3>2, HandedToListener
      <4>2. Cardinality(messages(b)') = Cardinality(messages(b)) + 0
        BY <3>1, <4>1 DEF messages, messagesTo
      <4>3. dropped'[b] = dropped[b] + one(b = frame[t]) - 0
        BY <1>1, <3>1, <4>1 DEF one, Shared
      <4> QED
        BY <4>2, <4>3 DEF Sends
    <3>3. CASE pc[listener] # "none"
      <4>0. /\ dropped' = dropped
            /\ \E x \in Streams : mThreadQueue' = [mThreadQueue EXCEPT ![x] = Append(@, frame[t])]
        BY <1>7, <3>3, HandedToListener
      <4>1. PICK x \in Streams : mThreadQueue' = [mThreadQueue EXCEPT ![x] = Append(@, frame[t])]
        BY <4>0
      <4>2. /\ b = frame[t] => Cardinality(messages(b)') = Cardinality(messages(b)) + 1
            /\ b # frame[t] => Cardinality(messages(b)') = Cardinality(messages(b))
        <5> DEFINE x0 == frame[t]
        <5>1. mThreadQueue \in [Streams -> Seq(Buffers)] /\ x0 \in Buffers
          BY <1>1, <2>1 DEF Shared
        <5>2. mThreadQueue' = [mThreadQueue EXCEPT ![x] = Append(@, x0)]
          BY <4>1
        <5> HIDE DEF x0
        <5>3. /\ b = x0 => Cardinality(messages(b)') = Cardinality(messages(b)) + 1
              /\ b # x0 => Cardinality(messages(b)') = Cardinality(messages(b))
          BY <5>1, <5>2, MessageAdded
        <5> QED
          BY <5>3 DEF x0
      <4>3. Cardinality(messages(b)') = Cardinality(messages(b)) + one(b = frame[t])
            /\ one(b = frame[t]) \in Int
        BY <3>1, <4>2 DEF one
      <4>4. dropped'[b] = dropped[b] + one(b = frame[t]) - one(b = frame[t])
        BY <3>1, <4>0, <4>3
      <4> QED
        BY <4>3, <4>4 DEF Sends
    <3> QED
      BY <3>2, <3>3
  <2>4. CASE frame[t] = b
    <3>1. Counts(b, 1) /\ Sends(b, 1)
      BY <1>1, <2>1, <2>3, <2>4 DEF Counts, Shared, one
    <3> QED
      BY <1>1, <1>2, <1>3, <2>2, <3>1, ExactKept
  <2>5. CASE frame[t] # b
    <3>1. Counts(b, 0) /\ Sends(b, 0)
      BY <1>1, <2>1, <2>3, <2>5 DEF Counts, Shared, one
    <3> QED
      BY <1>1, <1>2, <1>3, <2>2, <3>1, ExactKept
  <2> QED
    BY <2>4, <2>5
<1>8. CASE dispatchEnds
  <2>1. Sends(b, 0) /\ Counts(b, 0)
    BY <1>8, Unchanged DEF dispatchEnds, streamVars, bufferVars
  <2>2. /\ pc[t] = "each" /\ pc'[t] = "release" /\ buf'[t] = frame[t] /\ cont'[t] = "check"
        /\ frame'[t] = NoBuffer
    BY <1>1, <1>8 DEF dispatchEnds, calls, goto, ThreadTypes
  <2>3. Holds(t, b, 0)
    BY <1>1, <1>4, <2>2 DEF Holds, held, works, drops, busy, dropping, Returning, Releasing
  <2> QED
    BY <1>1, <1>2, <1>3, <2>1, <2>3, ExactKept
<1>9. CASE releasing(t)
  BY <1>1, <1>9, ReleasingExact
<1> QED
  BY <1>5, <1>6, <1>7, <1>8, <1>9, <1>10 DEF deviceThread

\* A stream thread passes its references on: a message becomes the frame it works
\* on, that the one it releases; the window has one of its own.
LEMMA StreamExact ==
  ASSUME Faultless, TypeInv, Attached, Shown, NEW b \in Buffers, ExactAt(b),
         NEW s \in Streams, streamThread(s)
  PROVE  ExactAt(b)'
<1>1. /\ ThreadTypes /\ ThreadShape(s) /\ Shared /\ s \in Threads /\ NoBuffer \notin Buffers
      /\ "preview" \in Threads
  BY ThreadNames, TypeParts, PipelineAssumption DEF TypeInv
<1>2. /\ Moved(s) /\ control' = control /\ 0 \in Int /\ 1 \in Int /\ -1 \in Int
      /\ s # "preview" => pc'["preview"] = pc["preview"] /\ frame'["preview"] = frame["preview"]
  BY <1>1, StreamMoves, StreamLeaves DEF controlVars, Moved
<1>3. pc[s] \notin Releasing => cont[s] = "none" /\ buf[s] = NoBuffer
  BY <1>1 DEF ThreadShape
<1>4. pc[s] \in {"process", "hold", "request", "finish", "cancel"} => frame[s] \in Buffers
  BY <1>1 DEF ThreadShape, Releasing, Idling
<1>5. pc[s] = "wait" => frame[s] \notin Buffers
  BY <1>1 DEF ThreadShape, Releasing, Idling
<1>6. \A what : ~fails(s, what)
  BY DEF Faultless, fails
<1> USE DEF Holds, held, works, drops, busy, dropping, Returning, Releasing
<1>7. ASSUME inWindow' = inWindow, pc[s] # "hold", pc'[s] # "hold"
      PROVE  Serves(b, 0)
  <2>1. CASE s # "preview"
    BY <1>2, <1>7, <2>1, Unchanged
  <2>2. CASE s = "preview"
    <3>1. inService(b)' <=> inService(b)
      BY <1>7, <2>2 DEF inService
    <3> QED
      BY <3>1 DEF Serves, serves
  <2> QED
    BY <2>1, <2>2
<1>8. CASE takeFrame(s)
  <2> DEFINE c == Head(mThreadQueue[s])
  <2>1. /\ pc[s] = "wait" /\ frame'[s] = c /\ c \in Buffers /\ mRefCount' = mRefCount
        /\ inWindow' = inWindow /\ dropped' = dropped
        /\ \/ pc'[s] = "process" /\ buf'[s] = buf[s] /\ cont'[s] = cont[s]
           \/ pc'[s] = "release" /\ buf'[s] = c /\ cont'[s] = "cancel"
    BY <1>1, <1>8, HeadOfQueue DEF takeFrame, goto, calls, ThreadTypes, Shared, bufferVars, streamVars
  <2>2. Cardinality(messages(b)') = Cardinality(messages(b)) - one(b = c)
    BY <1>1, <1>8, MessageTaken DEF takeFrame, Shared
  <2>3. Counts(b, 0) /\ Serves(b, 0)
    BY <1>7, <2>1, Unchanged
  <2>4. Cardinality(messages(b)) \in Nat /\ dropped[b] \in Nat /\ dropped'[b] = dropped[b]
    BY <1>1, <2>1, MessagesFinite DEF Shared
  <2> HIDE DEF c
  <2>5. CASE b = c
    <3>1. Sends(b, -1)
      <4>1. /\ Cardinality(messages(b)') = Cardinality(messages(b)) + (-1)
            /\ dropped'[b] = dropped[b] + (-1) - (-1)
        BY <2>2, <2>4, <2>5 DEF one
      <4> QED
        BY <4>1 DEF Sends
    <3>2. Holds(s, b, 1)
      BY <1>3, <1>5, <2>1, <2>5
    <3> QED
      BY <1>1, <1>2, <2>3, <3>1, <3>2, ExactKept
  <2>6. CASE b # c
    <3>1. Sends(b, 0)
      <4>1. /\ Cardinality(messages(b)') = Cardinality(messages(b)) + 0
            /\ dropped'[b] = dropped[b] + 0 - 0
        BY <2>2, <2>4, <2>6 DEF one
      <4> QED
        BY <4>1 DEF Sends
    <3>2. Holds(s, b, 0)
      BY <1>3, <1>5, <2>1, <2>6
    <3> QED
      BY <1>1, <1>2, <2>3, <3>1, <3>2, ExactKept
  <2> QED
    BY <2>5, <2>6
<1>9. CASE finishFrame(s)
  <2>1. /\ pc[s] = "finish" /\ pc'[s] = "release" /\ buf'[s] = frame[s] /\ cont'[s] = "wait"
        /\ frame'[s] = NoBuffer /\ UNCHANGED <<mThreadQueue, dropped, mRefCount, inWindow>>
    BY <1>1, <1>9 DEF finishFrame, calls, goto, ThreadTypes, bufferVars, streamVars
  <2>2. Sends(b, 0) /\ Counts(b, 0) /\ Serves(b, 0)
    BY <1>7, <2>1, Unchanged
  <2>3. Holds(s, b, 0)
    BY <1>1, <1>3, <2>1
  <2> QED
    BY <1>1, <1>2, <2>2, <2>3, ExactKept
<1>10. CASE cancelBuffer(s)
  <2>1. /\ pc[s] = "cancel" /\ pc'[s] = "wait" /\ frame'[s] = NoBuffer /\ cont' = cont
        /\ UNCHANGED <<mThreadQueue, dropped, mRefCount>> /\ (s # "preview" => inWindow' = inWindow)
    BY <1>1, <1>10 DEF cancelBuffer, goto, ThreadTypes, Attached
  <2>2. Sends(b, 0) /\ Counts(b, 0)
    BY <2>1, Unchanged
  <2>3. Holds(s, b, 0)
    BY <1>1, <1>3, <2>1
  <2>4. CASE s # "preview"
    <3>1. Serves(b, 0)
      BY <1>7, <2>1, <2>4
    <3> QED
      BY <1>1, <1>2, <2>2, <2>3, <3>1, ExactKept
  <2>5. CASE s = "preview"
    <3>1. control \notin Serving
      BY <2>1, <2>5 DEF Attached
    <3>2. serves(b)' - serves(b) \in Int /\ Serves(b, serves(b)' - serves(b))
      BY DEF Serves, serves
    <3> QED
      BY <1>1, <1>2, <2>2, <2>3, <3>1, <3>2, ExactKept
  <2> QED
    BY <2>4, <2>5
<1>11. CASE s = "preview" /\ processPreview
  <2>0. pc[s] \in {"process", "hold", "request"} => control \in Serving
    BY <1>11 DEF TypeInv, Phases, Outside, Attached
  <2>1. CASE renderBuffer
    <3>1. /\ pc[s] = "process" /\ pc'[s] = "hold" /\ UNCHANGED <<frame, buf, cont, mThreadQueue, dropped, mRefCount>>
          /\ inWindow' = inWindow \cup {frame[s]} /\ frame[s] \in Buffers
      BY <1>1, <1>4, <1>11, <2>1 DEF renderBuffer, goto, ThreadTypes, streamVars
    <3>2. Sends(b, 0) /\ Counts(b, 0)
      BY <3>1, Unchanged
    <3>3. Holds(s, b, 0)
      BY <1>3, <3>1
    <3>4. inService(b)' <=> inService(b)
      <4>1. frame[s] \notin inWindow
        BY <1>11, <2>0, <3>1 DEF Shown, ShownAt, rendering
      <4> QED
        BY <1>11, <3>1, <4>1 DEF inService
    <3>5. Serves(b, 0)
      BY <3>4 DEF Serves, serves
    <3> QED
      BY <1>1, <1>2, <3>2, <3>3, <3>5, ExactKept
  <2>2. CASE holdFrame
    <3>1. /\ pc[s] = "hold" /\ pc'[s] = "request"
          /\ UNCHANGED <<frame, buf, cont, mThreadQueue, dropped, inWindow>> /\ frame[s] \in Buffers
          /\ mRefCount' = [mRefCount EXCEPT ![frame[s]] = @ + 1]
      BY <1>1, <1>4, <1>11, <2>2 DEF holdFrame, goto, ThreadTypes, streamVars, addReference
    <3>2. Sends(b, 0)
      BY <3>1, Unchanged
    <3>3. Holds(s, b, 0)
      BY <1>3, <3>1
    <3>4. frame[s] \in inWindow
      BY <1>11, <2>0, <3>1 DEF Shown, ShownAt
    <3>5. CASE b = frame[s]
      <4>1. Serves(b, 1)
        BY <1>11, <3>1, <3>4, <3>5 DEF Serves, serves, inService
      <4>2. Counts(b, 1)
        BY <1>1, <3>1, <3>5 DEF Counts, Shared
      <4> QED
        BY <1>1, <1>2, <3>2, <3>3, <4>1, <4>2, ExactKept
    <3>6. CASE b # frame[s]
      <4>1. Serves(b, 0)
        BY <1>11, <3>1, <3>6 DEF Serves, serves, inService
      <4>2. Counts(b, 0)
        BY <1>1, <3>1, <3>6 DEF Counts, Shared
      <4> QED
        BY <1>1, <1>2, <3>2, <3>3, <4>1, <4>2, ExactKept
    <3> QED
      BY <3>5, <3>6
  <2>3. CASE requestBuffer
    <3>1. PICK c \in inWindow : inWindow' = inWindow \ {c} /\ calls(s, c, "finish")
      BY <1>11, <2>3 DEF requestBuffer
    <3>2. /\ pc[s] = "request" /\ pc'[s] = "release" /\ buf'[s] = c /\ cont'[s] = "finish"
          /\ UNCHANGED <<frame, mThreadQueue, dropped, mRefCount>> /\ control \in Serving
      BY <1>1, <1>11, <2>0, <2>3, <3>1 DEF requestBuffer, calls, goto, ThreadTypes, streamVars
    <3>3. Sends(b, 0) /\ Counts(b, 0)
      BY <3>2, Unchanged
    <3>4. CASE b = c
      <4>1. Serves(b, -1)
        BY <1>11, <3>1, <3>2, <3>4 DEF Serves, serves, inService
      <4>2. Holds(s, b, 1)
        BY <1>3, <3>2, <3>4
      <4> QED
        BY <1>1, <1>2, <3>2, <3>3, <4>1, <4>2, ExactKept
    <3>5. CASE b # c
      <4>1. Serves(b, 0)
        BY <1>11, <3>1, <3>2, <3>5 DEF Serves, serves, inService
      <4>2. Holds(s, b, 0)
        BY <1>3, <3>2, <3>5
      <4> QED
        BY <1>1, <1>2, <3>3, <4>1, <4>2, ExactKept
    <3> QED
      BY <3>4, <3>5
  <2> QED
    BY <1>6, <1>11, <2>1, <2>2, <2>3 DEF processPreview
<1>12. CASE processCopy(s)
  <2>1. /\ pc[s] = "process" /\ pc'[s] = "finish"
        /\ UNCHANGED <<frame, buf, cont, mThreadQueue, dropped, mRefCount, inWindow>>
    BY <1>1, <1>6, <1>12 DEF processCopy, goto, ThreadTypes, bufferVars, streamVars
  <2>2. Sends(b, 0) /\ Counts(b, 0) /\ Serves(b, 0)
    BY <1>7, <2>1, Unchanged
  <2>3. Holds(s, b, 0)
    BY <1>3, <2>1
  <2> QED
    BY <1>1, <1>2, <2>2, <2>3, ExactKept
<1>13. CASE releasing(s)
  BY <1>1, <1>13, ReleasingExact
<1> QED
  BY <1>8, <1>9, <1>10, <1>11, <1>12, <1>13 DEF streamThread

\* Frames nobody works on, releases or has been sent while all threads are still.
LEMMA StillUnused ==
  ASSUME TypeInv, pc["device"] = "none", \A s \in Streams : Still(s), NEW b \in Buffers
  PROVE  users(b) = 0
<1>1. \A t \in Threads : ThreadShape(t) /\ pc[t] \in {"none", "wait"}
  BY DEF TypeInv, Still, Threads
<1>2. NoBuffer \notin Buffers
  BY PipelineAssumption
<1>3. \A t \in Threads : ~busy(t, b) /\ ~dropping(t, b)
  BY <1>1, <1>2 DEF busy, dropping, ThreadShape, Releasing, Idling
<1>4. messages(b) = {}
  <2>1. \A s \in Streams : DOMAIN mThreadQueue[s] = {}
    BY DEF Still
  <2> QED
    BY <2>1, MessagesAre
<1> QED
  BY <1>3, <1>4, UsersNat

\* When the request thread starts or ends a thread, the thread is idle.
LEMMA IdleUsers ==
  ASSUME TypeInv, TypeInv', NEW t \in Threads, NEW p, pc' = [pc EXCEPT ![t] = p],
         pc[t] \in Idling, p \in Idling, UNCHANGED <<frame, buf, cont>>,
         NEW b \in Buffers, Sends(b, 0)
  PROVE  owners(b)' = owners(b)
<1>1. ThreadTypes /\ ThreadTypes' /\ Shared /\ ThreadShape(t) /\ ThreadShape(t)'
  BY TypeParts DEF TypeInv, TypeOK, ThreadTypes, Back
<1>2. Moved(t)
  BY <1>1 DEF Moved, ThreadTypes
<1>3. pc'[t] = p /\ frame[t] \notin Buffers /\ frame' = frame
  BY <1>1 DEF ThreadTypes, ThreadShape, Idling, Releasing
<1>4. held(t, b) = 0 /\ held(t, b)' = 0
  BY <1>3 DEF held, works, drops, busy, dropping, Idling
<1>5. PICK e \in Int : /\ Cardinality(messages(b)') = Cardinality(messages(b)) + e
                       /\ dropped'[b] = dropped[b] + 0 - e
  BY DEF Sends
<1>6. users(b) \in Nat /\ users(b)' = users(b) + held(t, b)' - held(t, b) + e
  BY <1>1, <1>2, <1>5, UsersChange
<1>7. dropped[b] \in Nat
  BY <1>1 DEF Shared
<1> QED
  BY <1>4, <1>5, <1>6, <1>7 DEF owners

\* The users of a frame change only with the threads and their queues.
LEMMA SameUsers ==
  ASSUME UNCHANGED <<threadVars, mThreadQueue>>, NEW b
  PROVE  users(b)' = users(b) /\ (dropped' = dropped => owners(b)' = owners(b))
<1>1. users(b)' = users(b)
  BY DEF users, workers, releasers, messages, messagesTo, threadVars
<1> QED
  BY <1>1 DEF owners

\* A count stays exact while those who have a reference stay.
LEMMA KeptExact ==
  ASSUME TypeInv, NEW b \in Buffers, ExactAt(b), Counts(b, 0), owners(b)' = owners(b),
         control' \in Serving => control \in Serving /\ Serves(b, 0)
  PROVE  ExactAt(b)'
<1>1. serves(b) \in {0, 1} /\ mRefCount[b] \in Nat /\ users(b) \in Nat /\ dropped[b] \in Nat
  BY UsersNat DEF serves, TypeInv, TypeOK
<1>2. owners(b) \in Nat
  BY <1>1 DEF owners
<1> QED
  BY <1>1, <1>2 DEF ExactAt, Counts, Serves

\* A queue that is cleared has its messages thrown away, neither more nor less.
LEMMA QueueCleared ==
  ASSUME TypeInv, NEW s \in Streams, exitThread(s), NEW b \in Buffers
  PROVE  Sends(b, 0)
<1> DEFINE I == {i \in DOMAIN mThreadQueue[s] : mThreadQueue[s][i] = b}
           gone == messagesTo(s, b)
<1>1. /\ IsFiniteSet(messages(b)) /\ Cardinality(messages(b)) \in Nat /\ Shared
      /\ mThreadQueue' = [mThreadQueue EXCEPT ![s] = <<>>]
  BY MessagesFinite, TypeParts DEF TypeInv, Shared, exitThread
<1>2. \A m : m \in messages(b)' <=> m \in messages(b) /\ m \notin gone
  <2> TAKE m
  <2>1. m \in messages(b)' <=> \E u \in Streams : \E i \in DOMAIN mThreadQueue'[u] :
                                 m = <<u, i>> /\ mThreadQueue'[u][i] = b
    BY DEF messages, messagesTo
  <2>2. mThreadQueue'[s] = <<>> /\ \A u \in Streams \ {s} : mThreadQueue'[u] = mThreadQueue[u]
    BY <1>1 DEF Shared
  <2>3. m \in gone <=> \E i \in DOMAIN mThreadQueue[s] : m = <<s, i>> /\ mThreadQueue[s][i] = b
    BY DEF messagesTo
  <2>4. m \in messages(b)' <=> \E u \in Streams \ {s} : \E i \in DOMAIN mThreadQueue[u] :
                                 m = <<u, i>> /\ mThreadQueue[u][i] = b
    BY <2>1, <2>2
  <2>5. m \in messages(b) <=> \E u \in Streams : \E i \in DOMAIN mThreadQueue[u] :
                                 m = <<u, i>> /\ mThreadQueue[u][i] = b
    BY MessagesAre
  <2> HIDE DEF gone
  <2> QED
    BY <2>3, <2>4, <2>5
<1>3. gone \subseteq messages(b) /\ messages(b)' = messages(b) \ gone
  BY <1>2 DEF messages
<1>4. IsFiniteSet(gone) /\ Cardinality(gone) = Cardinality(I) /\ Cardinality(I) \in Nat
  <2>1. IsFiniteSet(I)
    <3>1. mThreadQueue[s] \in Seq(Buffers)
      BY <1>1 DEF Shared
    <3>2. Len(mThreadQueue[s]) \in Int /\ DOMAIN mThreadQueue[s] = 1..Len(mThreadQueue[s])
      BY <3>1, LenProperties
    <3>3. IsFiniteSet(1..Len(mThreadQueue[s]))
      BY <3>2, FS_Interval
    <3> QED
      BY <3>2, <3>3, FS_Subset
  <2>2. IsFiniteSet({s}) /\ Cardinality({s}) = 1
    BY FS_Singleton
  <2> HIDE DEF I
  <2>3. IsFiniteSet({s} \X I) /\ Cardinality({s} \X I) = 1 * Cardinality(I) /\ Cardinality(I) \in Nat
    BY <2>1, <2>2, FS_Product, FS_CardinalityType
  <2> QED
    BY <2>3 DEF messagesTo, I, gone
<1> HIDE DEF I, gone
<1>5. Cardinality(messages(b)') = Cardinality(messages(b)) + (0 - Cardinality(I))
  <2>1. Cardinality(messages(b) \ gone) = Cardinality(messages(b)) - Cardinality(messages(b) \cap gone)
    BY <1>1, <1>4, FS_Difference
  <2>2. messages(b) \cap gone = gone
    BY <1>3
  <2>3. Cardinality(messages(b)') = Cardinality(messages(b) \ gone)
    BY <1>3
  <2>4. Cardinality(messages(b)') = Cardinality(messages(b)) - Cardinality(I)
    BY <1>4, <2>1, <2>2, <2>3
  <2> QED
    BY <1>1, <1>4, <2>4
<1>6. dropped'[b] = dropped[b] + 0 - (0 - Cardinality(I))
  <2>1. dropped'[b] = dropped[b] + Cardinality(I) /\ dropped[b] \in Nat
    BY <1>1 DEF exitThread, I, Shared
  <2> QED
    BY <1>4, <2>1
<1>7. 0 - Cardinality(I) \in Int
  BY <1>4
<1> QED
  BY <1>5, <1>6, <1>7 DEF Sends

\* A thread that is not there has nothing in its queue for startThread to drop.
LEMMA StartedEmpty ==
  ASSUME TypeInv, Attached, NEW s \in Streams, pc[s] = "none", startThread(s)
  PROVE  mThreadQueue' = mThreadQueue /\ pc' = [pc EXCEPT ![s] = "wait"]
<1>1. mThreadQueue[s] = <<>> /\ mThreadQueue \in [Streams -> Seq(Buffers)]
  BY DEF Attached, TypeInv, TypeOK
<1> QED
  BY <1>1 DEF startThread

\* A consumer that starts or stops keeps the reference counts exact, also if it
\* is the JPEG stream and preview runs.
LEMMA ConsumerExact ==
  ASSUME TypeInv, TypeInv', Attached, NEW b \in Buffers, ExactAt(b), NEW s \in Consumers, consumer(s)
  PROVE  ExactAt(b)'
<1>1. /\ s \in Threads /\ s \in Streams /\ s # "preview" /\ "preview" \in Threads /\ ThreadTypes
  BY ThreadNames, TypeParts DEF TypeInv
<1>2. /\ control' = control /\ UNCHANGED <<mRefCount, inWindow, frame, buf, cont>>
      /\ pc'["preview"] = pc["preview"]
  BY <1>1, ConsumerLeaves, ConsumerOwn DEF controlVars, bufferVars
<1>3. Counts(b, 0) /\ Serves(b, 0)
  BY <1>2, Unchanged
<1>4. owners(b)' = owners(b)
  <2>1. CASE startConsumer(s)
    <3>1. /\ mThreadQueue' = mThreadQueue /\ pc' = [pc EXCEPT ![s] = "wait"] /\ pc[s] = "none"
          /\ dropped' = dropped
      BY <1>1, <2>1, StartedEmpty DEF startConsumer, startThread
    <3>2. Sends(b, 0)
      BY <3>1, Unchanged
    <3> QED
      BY <1>1, <1>2, <3>1, <3>2, IdleUsers DEF Idling
  <2>2. CASE unlistenConsumer(s) \/ stopConsumer(s) \/ enableReceiveFrame
    <3>1. UNCHANGED <<threadVars, mThreadQueue, dropped>>
      BY <2>2 DEF unlistenConsumer, stopConsumer, stopThread, enableReceiveFrame, streamVars
    <3> QED
      BY <3>1, SameUsers
  <2>3. CASE releaseConsumer(s)
    <3>1. exitThread(s) /\ pc' = [pc EXCEPT ![s] = "none"] /\ pc[s] = "wait"
      BY <2>3 DEF releaseConsumer, exitThread
    <3>2. Sends(b, 0)
      BY <1>1, <3>1, QueueCleared
    <3> QED
      BY <1>1, <1>2, <3>1, <3>2, IdleUsers DEF Idling
  <2> QED
    BY <2>1, <2>2, <2>3 DEF consumer
<1> QED
  BY <1>2, <1>3, <1>4, KeptExact

\* Preview starts with the buffers in its window in service and the others free.
LEMMA StartExact ==
  ASSUME Faultless, TypeInv, TypeInv', Attached, Attached', Placed, NEW b \in Buffers, ExactAt(b),
         configure \/ startSteps
  PROVE  ExactAt(b)'
<1>1. /\ Phases /\ Shared /\ ThreadTypes /\ 0 \in Int
      /\ "device" \in Threads /\ "preview" \in Threads /\ "preview" \in Streams
      /\ "device" # "preview" /\ NoBuffer \notin Buffers
  BY ThreadNames, TypeParts, PipelineAssumption DEF TypeInv
<1>2. CASE configure
  <2>1. /\ control = "off" /\ control' = "service" /\ UNCHANGED <<threadVars, mThreadQueue>>
        /\ mRefCount'[b] = 0 /\ dropped'[b] = 0
    BY <1>2 DEF configure, streamVars
  <2>2. \A s \in Streams : Still(s)
    BY <2>1 DEF Attached, Starting, Still, threadVars
  <2>3. users(b)' = 0
    BY <1>1, <2>1, <2>2, StillUnused, SameUsers DEF Phases
  <2> QED
    BY <2>1, <2>3 DEF ExactAt, owners, Serving
<1>3. CASE holdInService
  <2>1. /\ control = "service" /\ control' = "start"
        /\ UNCHANGED <<threadVars, mThreadQueue, dropped, inWindow>>
    BY <1>3 DEF holdInService, streamVars
  <2>2. mRefCount'[b] = IF b \in inWindow THEN 1 ELSE 0
    BY <1>1, <1>3, <2>1 DEF holdInService, Placed, Shared
  <2>3. users(b)' = 0
    BY <1>1, <2>1, StillUnused, SameUsers DEF Phases, Attached, Starting
  <2>4. inService(b)' <=> b \in inWindow
    BY <1>1, <2>1 DEF inService, Phases, threadVars
  <2>5. dropped'[b] = 0
    <3>1. mRefCount[b] = 0 /\ control \notin Serving /\ dropped[b] \in Nat
      BY <1>1, <2>1 DEF Placed, Shared, Serving
    <3>2. dropped[b] = 0
      BY <3>1, UsersNat DEF ExactAt, owners
    <3> QED
      BY <2>1, <3>2
  <2> QED
    BY <2>1, <2>2, <2>3, <2>4, <2>5 DEF ExactAt, owners, serves, Serving
<1>4. CASE startStream
  <2>1. /\ pc["preview"] = "none" /\ control \in Serving /\ UNCHANGED <<mRefCount, inWindow, frame, buf, cont>>
        /\ startThread("preview")
    BY <1>1, <1>4 DEF startStream, Phases, bufferVars, Serving
  <2>2. mThreadQueue' = mThreadQueue /\ pc' = [pc EXCEPT !["preview"] = "wait"] /\ dropped' = dropped
    BY <1>1, <2>1, StartedEmpty DEF startThread
  <2>3. Sends(b, 0) /\ Counts(b, 0) /\ Serves(b, 0)
    BY <1>1, <2>1, <2>2, Unchanged DEF ThreadTypes
  <2>4. owners(b)' = owners(b)
    BY <1>1, <2>1, <2>2, <2>3, IdleUsers DEF Idling
  <2> QED
    BY <1>1, <2>1, <2>3, <2>4, KeptExact
<1>5. CASE startPreview \/ fillDevice
  <2>1. UNCHANGED <<threadVars, mThreadQueue, dropped, mRefCount, inWindow>> /\ control \in Serving
    BY <1>5 DEF startPreview, fillDevice, bufferVars, streamVars, Serving
  <2>2. Counts(b, 0) /\ Serves(b, 0) /\ owners(b)' = owners(b)
    BY <2>1, SameUsers, Unchanged DEF threadVars
  <2> QED
    BY <1>1, <2>1, <2>2, KeptExact
<1>6. CASE streamOn
  <2>1. /\ pc["device"] = "none" /\ pc' = [pc EXCEPT !["device"] = "check"] /\ control \in Serving
        /\ UNCHANGED <<mThreadQueue, dropped, mRefCount, inWindow, frame, buf, cont>>
    BY <1>1, <1>6 DEF streamOn, goto, Phases, bufferVars, streamVars, Serving
  <2>2. Sends(b, 0) /\ Counts(b, 0) /\ Serves(b, 0)
    BY <1>1, <2>1, Unchanged DEF ThreadTypes
  <2>3. owners(b)' = owners(b)
    BY <1>1, <2>1, <2>2, IdleUsers DEF Idling
  <2> QED
    BY <1>1, <2>1, <2>2, <2>3, KeptExact
<1> QED
  BY <1>2, <1>3, <1>4, <1>5, <1>6 DEF startSteps

\* The stop of the preview keeps the reference counts exact.
LEMMA StopExact ==
  ASSUME TypeInv, TypeInv', NEW b \in Buffers, ExactAt(b), stopPreview \/ stopSteps
  PROVE  ExactAt(b)'
<1>1. /\ ThreadTypes /\ 0 \in Int /\ "device" \in Threads /\ "preview" \in Threads
      /\ "preview" \in Streams /\ "device" # "preview"
  BY ThreadNames, TypeParts DEF TypeInv
<1>2. CASE stopPreview \/ streamOff \/ clearDevice \/ zeroQueued \/ unlisten
  <2>1. UNCHANGED <<threadVars, mThreadQueue, dropped, mRefCount, inWindow>> /\ control \in Serving
    BY <1>2
    DEF stopPreview, streamOff, clearDevice, zeroQueued, unlisten, bufferVars, streamVars, Serving
  <2>2. Counts(b, 0) /\ Serves(b, 0) /\ owners(b)' = owners(b)
    BY <2>1, SameUsers, Unchanged DEF threadVars
  <2> QED
    BY <1>1, <2>1, <2>2, KeptExact
<1>3. CASE stopStream \/ freeBuffers
  <2>1. UNCHANGED <<threadVars, mThreadQueue, dropped, mRefCount>> /\ control' \notin Serving
    BY <1>3 DEF stopStream, stopThread, freeBuffers, bufferVars, streamVars, Serving
  <2>2. Counts(b, 0) /\ owners(b)' = owners(b)
    BY <2>1, SameUsers, Unchanged
  <2> QED
    BY <1>1, <2>1, <2>2, KeptExact
<1>4. CASE joinDevice
  <2>1. /\ pc["device"] = "exited" /\ pc' = [pc EXCEPT !["device"] = "none"] /\ control \in Serving
        /\ UNCHANGED <<mThreadQueue, dropped, mRefCount, inWindow, frame, buf, cont>>
    BY <1>4 DEF joinDevice, goto, bufferVars, streamVars, Serving
  <2>2. Sends(b, 0) /\ Counts(b, 0) /\ Serves(b, 0)
    BY <1>1, <2>1, Unchanged DEF ThreadTypes
  <2>3. owners(b)' = owners(b)
    BY <1>1, <2>1, <2>2, IdleUsers DEF Idling
  <2> QED
    BY <1>1, <2>1, <2>2, <2>3, KeptExact
<1>5. CASE exitStream
  <2>1. /\ pc' = [pc EXCEPT !["preview"] = "none"] /\ pc["preview"] = "wait" /\ control' \notin Serving
        /\ exitThread("preview")
        /\ UNCHANGED <<mRefCount, frame, buf, cont>>
    BY <1>5 DEF exitStream, exitThread, bufferVars, Serving
  <2>2. Sends(b, 0)
    BY <1>1, <2>1, QueueCleared
  <2>3. Counts(b, 0) /\ owners(b)' = owners(b)
    BY <1>1, <2>1, <2>2, IdleUsers, Unchanged DEF Idling
  <2> QED
    BY <2>1, <2>2, <2>3, KeptExact
<1> QED
  BY <1>2, <1>3, <1>4, <1>5 DEF stopSteps

\* Every step keeps the reference counts exact.
LEMMA ExactStep ==
  ASSUME Faultless, TypeInv, TypeInv', Attached, Attached', Placed, Shown, Exact, [Next]_vars
  PROVE  Exact'
<1> SUFFICES ASSUME NEW b \in Buffers
             PROVE  ExactAt(b)'
  BY DEF Exact
<1>1. ExactAt(b)
  BY DEF Exact
<1>2. CASE Next
  BY <1>1, <1>2, DeviceExact, StreamExact, ConsumerExact, StartExact, StopExact DEF Next
<1>3. CASE UNCHANGED vars
  <2>1. owners(b)' = owners(b)
    BY <1>3, SameUsers DEF vars, streamVars
  <2>2. Counts(b, 0) /\ Serves(b, 0) /\ control' = control
    BY <1>3, Unchanged DEF vars, bufferVars, threadVars, controlVars
  <2> QED
    BY <1>1, <2>1, <2>2, KeptExact
<1> QED
  BY <1>2, <1>3

-----------------------------------------------------------------------------
(* A frame without references belongs to the driver or to one thread.      *)

claimed(b) == b \in inDriver \/ dispatched(b) \/ \E t \in Threads : refills(t, b)

\* What takes no claim and touches no reference of a claimed frame keeps it so.
LEMMA ClaimsWeaken ==
  ASSUME NEW b \in Buffers, ClaimsAt(b), b \in inDriver' => b \in inDriver,
         dispatched(b)' => dispatched(b), \A t \in Threads : refills(t, b)' => refills(t, b),
         mRefCount[b] = 0 => mRefCount'[b] = 0
  PROVE  ClaimsAt(b)'
BY DEF ClaimsAt

\* What leaves no claim to it does as well.
LEMMA Unclaimed ==
  ASSUME NEW b \in Buffers, ~claimed(b)'
  PROVE  ClaimsAt(b)'
BY DEF ClaimsAt, claimed

\* Nobody but its users has a claim to a frame that is referenced.
LEMMA ReferencedIsUnclaimed ==
  ASSUME NEW b \in Buffers, ClaimsAt(b), mRefCount[b] # 0
  PROVE  ~claimed(b)
BY DEF ClaimsAt, claimed

\* A step of thread t that is not about to queue a frame after it.
LEMMA NotRefilling ==
  ASSUME ThreadTypes, NEW t \in Threads, Moved(t), pc'[t] \notin {"refill", "qbuf"}, NEW b
  PROVE  \A u \in Threads : refills(u, b)' => refills(u, b) /\ u # t
BY DEF refills, Moved

\* The last to release a frame queues it to the driver.
LEMMA ReleasingClaims ==
  ASSUME TypeInv, NEW b \in Buffers, ClaimsAt(b), NEW t \in Threads, releasing(t)
  PROVE  ClaimsAt(b)'
<1>1. ThreadTypes /\ ThreadShape(t) /\ Shared
  BY TypeParts DEF TypeInv
<1>2. Moved(t) /\ frame' = frame
  BY <1>1, ReleasingMoves, ReleasingLeaves
<1>3. /\ pc[t] \in Releasing /\ buf[t] \in Buffers /\ cont[t] \in Resumes(t)
  BY <1>1
  DEF releasing, release, handleFrameRelease, fillCameraFrame, countQueued, ThreadShape, Releasing
<1>4. cont[t] \notin {"dispatch", "refill", "qbuf"}
  BY <1>3 DEF Resumes
<1>5. \/ pc'[t] \in {"refill", "qbuf", "inc"} /\ buf'[t] = buf[t]
      \/ pc'[t] = cont[t]
  BY <1>1
  DEF releasing, release, handleFrameRelease, fillCameraFrame, countQueued, goto, returns, ThreadTypes
<1>6. dispatched(b)' => dispatched(b)
  <2>1. CASE t = "device"
    BY <1>4, <1>5, <2>1 DEF dispatched
  <2>2. CASE t # "device"
    BY <1>2, <2>2, ThreadNames DEF Moved, dispatched
  <2> QED
    BY <2>1, <2>2
<1>7. \A u \in Threads \ {t} : refills(u, b)' <=> refills(u, b)
  BY <1>2 DEF Moved, refills
<1>8. buf[t] # b => (refills(t, b)' => refills(t, b))
  BY <1>4, <1>5 DEF refills
<1>9. CASE release(t)
  <2>1. /\ inDriver' = inDriver /\ mRefCount[buf[t]] > 0 /\ mRefCount[buf[t]] \in Nat
        /\ mRefCount' = [mRefCount EXCEPT ![buf[t]] = @ - 1]
        /\ mRefCount[buf[t]] # 1 => pc'[t] = cont[t]
    BY <1>1, <1>3, <1>9 DEF release, returns, goto, ThreadTypes, Shared
  <2>2. CASE buf[t] # b
    <3>1. mRefCount'[b] = mRefCount[b]
      BY <1>1, <2>1, <2>2 DEF Shared
    <3> QED
      BY <1>6, <1>7, <1>8, <2>1, <2>2, <3>1, ClaimsWeaken
  <2>3. CASE buf[t] = b
    <3>1. ~claimed(b)
      BY <2>1, <2>3, ReferencedIsUnclaimed
    <3>2. b \notin inDriver' /\ ~dispatched(b)' /\ \A u \in Threads \ {t} : ~refills(u, b)'
      BY <1>6, <1>7, <2>1, <3>1 DEF claimed
    <3>3. CASE mRefCount[b] = 1
      <4>1. mRefCount'[b] = 0
        BY <1>1, <1>3, <2>1, <2>3, <3>3 DEF Shared
      <4> QED
        BY <3>2, <4>1 DEF ClaimsAt
    <3>4. CASE mRefCount[b] # 1
      <4>1. ~refills(t, b)'
        BY <1>4, <2>1, <2>3, <3>4 DEF refills
      <4> QED
        BY <3>2, <4>1, Unclaimed DEF claimed
    <3> QED
      BY <3>3, <3>4
  <2> QED
    BY <2>2, <2>3
<1>10. CASE handleFrameRelease(t)
  <2>1. inDriver' = inDriver /\ mRefCount' = mRefCount /\ pc[t] = "refill"
    BY <1>10 DEF handleFrameRelease, bufferVars
  <2>2. refills(t, b)' => refills(t, b)
    BY <1>8, <2>1 DEF refills
  <2> QED
    BY <1>6, <1>7, <2>1, <2>2, ClaimsWeaken
<1>11. CASE fillCameraFrame(t)
  <2>1. /\ inDriver' = inDriver \cup {buf[t]} /\ mRefCount' = mRefCount /\ pc[t] = "qbuf"
        /\ pc'[t] \in {"inc", cont[t]}
    BY <1>1, <1>11 DEF fillCameraFrame, returns, goto, ThreadTypes
  <2>2. CASE buf[t] # b
    BY <1>6, <1>7, <1>8, <2>1, <2>2, ClaimsWeaken
  <2>3. CASE buf[t] = b
    <3>1. refills(t, b) /\ ~refills(t, b)'
      BY <1>4, <2>1, <2>3 DEF refills
    <3>2. mRefCount[b] = 0 /\ ~dispatched(b) /\ \A u \in Threads \ {t} : ~refills(u, b)
      BY <3>1 DEF ClaimsAt
    <3> QED
      BY <1>6, <1>7, <2>1, <3>1, <3>2 DEF ClaimsAt
  <2> QED
    BY <2>2, <2>3
<1>12. CASE countQueued(t)
  <2>1. inDriver' = inDriver /\ mRefCount' = mRefCount /\ pc'[t] = cont[t]
    BY <1>1, <1>12 DEF countQueued, bufferVars, returns, goto, ThreadTypes
  <2>2. ~refills(t, b)'
    BY <1>4, <2>1 DEF refills
  <2> QED
    BY <1>6, <1>7, <2>1, <2>2, ClaimsWeaken
<1> QED
  BY <1>9, <1>10, <1>11, <1>12 DEF releasing

\* The device thread takes over what it dequeues until it has a reference to it.
LEMMA DeviceClaims ==
  ASSUME TypeInv, NEW b \in Buffers, ExactAt(b), ClaimsAt(b), deviceThread
  PROVE  ClaimsAt(b)'
<1> DEFINE t == "device"
<1>1. ThreadTypes /\ ThreadShape(t) /\ Shared /\ t \in Threads
  BY ThreadNames, TypeParts DEF TypeInv
<1>2. Moved(t)
  BY DeviceMoves
<1>3. CASE deviceLoop \/ acquireFails \/ dispatchEnds
  <2>1. /\ mRefCount' = mRefCount /\ inDriver' = inDriver
        /\ pc'[t] \in {"dqbuf", "exited", "release"}
    BY <1>1, <1>3
    DEF deviceLoop, acquireFails, dispatchEnds, bufferVars, goto, calls, ThreadTypes
  <2>2. ~dispatched(b)' /\ \A u \in Threads : refills(u, b)' => refills(u, b)
    BY <1>1, <1>2, <2>1, NotRefilling DEF dispatched
  <2> QED
    BY <2>1, <2>2, ClaimsWeaken
<1>4. CASE acquireCameraFrame
  <2>1. PICK c \in inDriver : inDriver' = inDriver \ {c} /\ frame' = [frame EXCEPT ![t] = c]
    BY <1>4 DEF acquireCameraFrame
  <2>2. mRefCount' = mRefCount /\ pc'[t] = "dispatch" /\ frame'[t] = c
    BY <1>1, <1>4, <2>1 DEF acquireCameraFrame, goto, ThreadTypes
  <2>3. \A u \in Threads : refills(u, b)' => refills(u, b)
    BY <1>1, <1>2, <2>2, NotRefilling
  <2>4. CASE b = c
    <3>1. mRefCount[b] = 0 /\ \A u \in Threads : ~refills(u, b)
      BY <2>1, <2>4 DEF ClaimsAt
    <3> QED
      BY <2>1, <2>2, <2>3, <2>4, <3>1 DEF ClaimsAt
  <2>5. CASE b # c
    <3>1. ~dispatched(b)'
      BY <2>2, <2>5 DEF dispatched
    <3> QED
      BY <2>1, <2>2, <2>3, <3>1, ClaimsWeaken
  <2> QED
    BY <2>4, <2>5
<1>5. CASE dispatchCameraFrame
  <2>1. /\ pc[t] = "dispatch" /\ pc'[t] = "each" /\ inDriver' = inDriver
        /\ mRefCount' = [mRefCount EXCEPT ![frame[t]] = @ + 1]
    BY <1>1, <1>5 DEF dispatchCameraFrame, goto, ThreadTypes, addReference
  <2>2. ~dispatched(b)' /\ \A u \in Threads : refills(u, b)' => refills(u, b)
    BY <1>1, <1>2, <2>1, NotRefilling DEF dispatched
  <2>3. CASE b = frame[t]
    <3>1. b \notin inDriver /\ \A u \in Threads : ~refills(u, b)
      BY <2>1, <2>3 DEF ClaimsAt, dispatched
    <3> QED
      BY <2>1, <2>2, <3>1, Unclaimed DEF claimed
  <2>4. CASE b # frame[t]
    <3>1. mRefCount'[b] = mRefCount[b]
      BY <1>1, <2>1, <2>4 DEF Shared
    <3> QED
      BY <2>1, <2>2, <3>1, ClaimsWeaken
  <2> QED
    BY <2>3, <2>4
<1>6. CASE handleCameraFrame
  <2>1. /\ pc[t] = "call" /\ pc'[t] = "each" /\ inDriver' = inDriver
        /\ mRefCount' = [mRefCount EXCEPT ![frame[t]] = @ + 1] /\ cont[t] = "none"
    BY <1>1, <1>6 DEF handleCameraFrame, called, goto, ThreadTypes, addReference, ThreadShape, Releasing
  <2>2. mRefCount[b] = 0 => b # frame[t]
    BY <1>1, <2>1, UsedIsReferenced DEF busy, Returning
  <2>3. mRefCount[b] = 0 => mRefCount'[b] = 0
    BY <1>1, <2>1, <2>2 DEF Shared
  <2>4. ~dispatched(b)' /\ \A u \in Threads : refills(u, b)' => refills(u, b)
    BY <1>1, <1>2, <2>1, NotRefilling DEF dispatched
  <2> QED
    BY <2>1, <2>3, <2>4, ClaimsWeaken
<1>7. CASE releasing(t)
  BY <1>1, <1>7, ReleasingClaims
<1>8. CASE readListener \/ frameNotWanted
  <2>1. mRefCount' = mRefCount /\ inDriver' = inDriver /\ pc'[t] \in {"each", "call"}
    BY <1>1, <1>8 DEF readListener, frameNotWanted, called, goto, ThreadTypes, bufferVars
  <2>2. ~dispatched(b)' /\ \A u \in Threads : refills(u, b)' => refills(u, b)
    BY <1>1, <1>2, <2>1, NotRefilling DEF dispatched
  <2> QED
    BY <2>1, <2>2, ClaimsWeaken
<1> QED
  BY <1>3, <1>4, <1>5, <1>6, <1>7, <1>8 DEF deviceThread

\* Stream threads claim frames only by releasing them.
LEMMA StreamClaims ==
  ASSUME TypeInv, NEW b \in Buffers, ExactAt(b), ClaimsAt(b), NEW s \in Streams, streamThread(s)
  PROVE  ClaimsAt(b)'
<1>1. ThreadTypes /\ ThreadShape(s) /\ Shared /\ s \in Threads /\ s # "device" /\ "device" \in Threads
  BY ThreadNames, TypeParts DEF TypeInv
<1>2. Moved(s)
  BY StreamMoves
<1>3. dispatched(b)' <=> dispatched(b)
  BY <1>1, <1>2 DEF Moved, dispatched
<1>4. CASE releasing(s)
  BY <1>1, <1>4, ReleasingClaims
<1>5. CASE ~releasing(s)
  <2>1. inDriver' = inDriver /\ pc'[s] \notin {"refill", "qbuf"}
    <3>1. CASE takeFrame(s) \/ finishFrame(s) \/ cancelBuffer(s)
      BY <1>1, <3>1 DEF takeFrame, finishFrame, cancelBuffer, goto, calls, bufferVars, ThreadTypes
    <3>2. CASE s = "preview" /\ processPreview
      BY <1>1, <3>2
      DEF processPreview, renderBuffer, holdFrame, requestBuffer, fails, goto, calls, bufferVars, ThreadTypes
    <3>3. CASE processCopy(s)
      BY <1>1, <3>3 DEF processCopy, fails, goto, calls, bufferVars, ThreadTypes
    <3> QED
      BY <1>5, <3>1, <3>2, <3>3 DEF streamThread
  <2>2. \A u \in Threads : refills(u, b)' => refills(u, b)
    BY <1>1, <1>2, <2>1, NotRefilling
  <2>3. mRefCount[b] = 0 => mRefCount'[b] = 0
    <3>1. CASE s = "preview" /\ holdFrame
      <4>1. /\ pc[s] = "hold" /\ cont[s] = "none"
            /\ mRefCount' = [mRefCount EXCEPT ![frame[s]] = @ + 1]
        BY <1>1, <3>1 DEF holdFrame, addReference, ThreadShape, Releasing
      <4>2. mRefCount[b] = 0 => b # frame[s]
        BY <1>1, <4>1, UsedIsReferenced DEF busy, Returning
      <4> QED
        BY <1>1, <4>1, <4>2 DEF Shared
    <3>2. CASE takeFrame(s) \/ finishFrame(s) \/ cancelBuffer(s)
      BY <3>2 DEF takeFrame, finishFrame, cancelBuffer, bufferVars
    <3>3. CASE processCopy(s)
      BY <3>3 DEF processCopy, fails, bufferVars
    <3>4. CASE s = "preview" /\ processPreview /\ ~holdFrame
      BY <3>4 DEF processPreview, renderBuffer, requestBuffer, fails, bufferVars
    <3> QED
      BY <1>5, <3>1, <3>2, <3>3, <3>4 DEF streamThread
  <2> QED
    BY <1>3, <2>1, <2>2, <2>3, ClaimsWeaken
<1> QED
  BY <1>4, <1>5

\* The request thread gives the driver the free frames, and no other.
LEMMA ControlClaims ==
  ASSUME TypeInv, TypeInv', Attached, Placed, NEW b \in Buffers, ExactAt(b),
         control \in Serving => ClaimsAt(b), control' \in Serving,
         \/ \E s \in Consumers : consumer(s)
         \/ configure \/ startSteps \/ stopPreview \/ stopSteps
  PROVE  ClaimsAt(b)'
<1>1. /\ Phases /\ Phases' /\ Shared /\ ThreadTypes /\ "device" \in Threads /\ "device" \notin Streams
      /\ "preview" \in Threads /\ "preview" # "device" /\ "preview" \in Streams
  BY ThreadNames, TypeParts DEF TypeInv
<1>2. ASSUME NEW s \in Consumers, consumer(s)
      PROVE  ClaimsAt(b)'
  <2>1. control' = control /\ UNCHANGED <<mRefCount, inDriver, frame, buf>>
    BY <1>2, ConsumerLeaves DEF controlVars, bufferVars
  <2>2. /\ \A u \in Threads \ {s} : pc'[u] = pc[u]
        /\ pc'[s] \in {pc[s], "wait", "none"} /\ s # "device"
    BY <1>1, <1>2, ConsumerOwn, ThreadNames
  <2>3. dispatched(b)' => dispatched(b)
    BY <1>1, <2>1, <2>2 DEF dispatched
  <2>4. \A u \in Threads : refills(u, b)' => refills(u, b)
    BY <1>1, <2>1, <2>2 DEF refills
  <2> QED
    BY <2>1, <2>2, <2>3, <2>4, ClaimsWeaken
<1>3. ASSUME control \in Starting
      PROVE  /\ ~dispatched(b) /\ \A u \in Threads : ~refills(u, b)
             /\ users(b) = 0 /\ pc["preview"] # "hold"
  <2>1. pc["device"] = "none" /\ \A s \in Streams : Still(s)
    BY <1>1, <1>3 DEF Attached, Phases, Starting
  <2>2. \A u \in Threads : pc[u] \in {"none", "wait"}
    BY <2>1 DEF Threads, Still
  <2> QED
    BY <1>1, <2>1, <2>2, StillUnused DEF dispatched, refills
<1>4. CASE configure
  BY <1>4 DEF configure, Serving
<1>5. CASE holdInService
  <2>1. inDriver' = {} /\ UNCHANGED threadVars /\ control = "service"
    BY <1>5 DEF holdInService
  <2>2. ~dispatched(b)' /\ \A u \in Threads : ~refills(u, b)'
    BY <1>3, <2>1 DEF dispatched, refills, threadVars, Starting
  <2> QED
    BY <2>1, <2>2, Unclaimed DEF claimed
<1>6. CASE fillDevice
  <2>1. /\ control = "fill" /\ UNCHANGED <<mRefCount, threadVars>>
        /\ inDriver' = inDriver \cup {c \in Buffers : mBufState[c] = "FREE"}
    BY <1>6 DEF fillDevice
  <2>2. /\ ~dispatched(b)' /\ \A u \in Threads : ~refills(u, b)' 
    BY <1>3, <2>1 DEF dispatched, refills, threadVars, Starting
  <2>3. b \in inDriver' => b \notin inWindow
    BY <2>1 DEF Placed
  <2>4. b \notin inWindow => mRefCount[b] = 0
    <3>1. ASSUME b \notin inWindow
          PROVE  serves(b) = 0
      BY <3>1 DEF serves, inService
    <3>2. users(b) = 0 /\ dropped[b] = 0 /\ control \in Serving
      BY <1>3, <2>1 DEF Placed, Starting, Serving
    <3> QED
      BY <3>1, <3>2 DEF ExactAt, owners
  <2>5. b \in inDriver' => mRefCount'[b] = 0
    BY <2>1, <2>3, <2>4
  <2> QED
    BY <2>2, <2>5 DEF ClaimsAt
<1>7. CASE startStream \/ startPreview \/ stopPreview \/ clearDevice \/ zeroQueued \/ unlisten \/ streamOff
  <2>1. /\ control \in Serving /\ mRefCount' = mRefCount /\ inDriver' \subseteq inDriver
        /\ UNCHANGED <<frame, buf>>
    BY <1>7
    DEF startStream, startPreview, stopPreview, clearDevice, zeroQueued, unlisten, streamOff, bufferVars,
        threadVars, Serving
  <2>2. pc' = pc \/ (pc' = [pc EXCEPT !["preview"] = "wait"])
    BY <1>7
    DEF startStream, startPreview, stopPreview, clearDevice, zeroQueued, unlisten, streamOff, threadVars,
        startThread
  <2>3. dispatched(b)' => dispatched(b)
    BY <1>1, <2>1, <2>2 DEF dispatched, ThreadTypes
  <2>4. \A u \in Threads : refills(u, b)' => refills(u, b)
    BY <1>1, <2>1, <2>2 DEF refills, ThreadTypes
  <2> QED
    BY <2>1, <2>3, <2>4, ClaimsWeaken
<1>8. CASE streamOn \/ joinDevice
  <2>1. /\ control \in Serving /\ mRefCount' = mRefCount /\ inDriver' = inDriver
        /\ UNCHANGED <<frame, buf>>
        /\ pc' = [pc EXCEPT !["device"] = "check"] \/ pc' = [pc EXCEPT !["device"] = "none"]
    BY <1>8 DEF streamOn, joinDevice, goto, bufferVars, Serving
  <2>2. dispatched(b)' => dispatched(b)
    BY <1>1, <2>1 DEF dispatched, ThreadTypes
  <2>3. \A u \in Threads : refills(u, b)' => refills(u, b)
    BY <1>1, <2>1 DEF refills, ThreadTypes
  <2> QED
    BY <2>1, <2>2, <2>3, ClaimsWeaken
<1>9. CASE stopStream \/ exitStream \/ freeBuffers
  BY <1>9 DEF stopStream, exitStream, freeBuffers, Serving
<1> QED
  BY <1>2, <1>4, <1>5, <1>6, <1>7, <1>8, <1>9 DEF startSteps, stopSteps

\* Every step keeps the claims to a frame apart, and off the referenced ones.
LEMMA ClaimsStep ==
  ASSUME TypeInv, TypeInv', Attached, Placed, Exact, Claims, [Next]_vars
  PROVE  Claims'
<1> SUFFICES ASSUME control' \in Serving, NEW b \in Buffers
             PROVE  ClaimsAt(b)'
  BY DEF Claims
<1>1. ExactAt(b) /\ (control \in Serving => ClaimsAt(b))
  BY DEF Exact, Claims
<1>2. CASE deviceThread
  BY <1>1, <1>2, DeviceLeaves, DeviceClaims DEF controlVars
<1>3. ASSUME NEW s \in Streams, streamThread(s)
      PROVE  ClaimsAt(b)'
  BY <1>1, <1>3, StreamLeaves, StreamClaims DEF controlVars
<1>4. CASE \/ \E s \in Consumers : consumer(s)
           \/ configure \/ startSteps \/ stopPreview \/ stopSteps
  BY <1>1, <1>4, ControlClaims
<1>5. CASE UNCHANGED vars
  BY <1>1, <1>5, ClaimsWeaken
  DEF vars, bufferVars, threadVars, controlVars, dispatched, refills
<1> QED
  BY <1>2, <1>3, <1>4, <1>5 DEF Next

-----------------------------------------------------------------------------
(* The dispatch comes to the preview stream once, also while others leave. *)

\* A consumer that starts or leaves moves preview into no slot that is still read.
LEMMA AheadKept ==
  ASSUME TypeInv, Attached, PreviewOnce, NEW s \in Consumers, consumer(s),
         pc["device"] \in {"each", "call"}
  PROVE  (ahead' => ahead) /\ pastEnd' # "preview" /\ UNCHANGED <<next, nSize, listener>>
<1> DEFINE n == Len(mFrameListeners)
<1>1. /\ mFrameListeners \in Seq(Streams) /\ n \in Nat /\ DOMAIN mFrameListeners = 1..n
      /\ next \in Nat /\ nSize \in Nat /\ next >= 1 /\ s \in Streams /\ s # "preview"
      /\ control \in {"running", "join"} /\ Distinct
  BY ThreadNames, LenProperties DEF TypeInv, TypeOK, Slots, Phases, Attached
<1>2. CASE startConsumer(s)
  <2>1. UNCHANGED <<next, nSize, listener, pastEnd>> /\ startThread(s)
    BY <1>2 DEF startConsumer, startThread
  <2>2. \A k \in Nat : k >= 1 /\ listenerAt(k)' = "preview" => listenerAt(k) = "preview"
    <3>1. CASE Listening(s)
      BY <2>1, <3>1 DEF startThread, listenerAt
    <3>2. CASE ~Listening(s)
      <4>1. mFrameListeners' = Append(mFrameListeners, s)
        BY <2>1, <3>2 DEF startThread
      <4>2. /\ Len(mFrameListeners') = n + 1 /\ mFrameListeners'[n + 1] = s
            /\ \A i \in 1..n : mFrameListeners'[i] = mFrameListeners[i]
        BY <1>1, <4>1, AppendProperties
      <4> HIDE DEF n
      <4>3. ASSUME NEW k \in Nat, k >= 1, listenerAt(k)' = "preview"
            PROVE  listenerAt(k) = "preview"
        <5>1. CASE k <= n
          <6>1. k \in 1..n /\ k <= n + 1
            BY <1>1, <4>3, <5>1
          <6> QED
            BY <4>2, <4>3, <5>1, <6>1 DEF listenerAt, n
        <5>2. CASE k = n + 1
          BY <1>1, <4>2, <4>3, <5>2 DEF listenerAt
        <5>3. CASE ~(k <= n + 1)
          BY <2>1, <4>2, <4>3, <5>3 DEF listenerAt, PreviewOnce
        <5> QED
          BY <1>1, <5>1, <5>2, <5>3
      <4> QED
        BY <4>3
    <3> QED
      BY <3>1, <3>2
  <2>3. ahead' => ahead
    BY <1>1, <2>1, <2>2 DEF ahead
  <2> QED
    BY <2>1, <2>3 DEF PreviewOnce
<1>3. CASE unlistenConsumer(s)
  <2> DEFINE p == place(s)
  <2>1. s = Jpeg /\ Listening(s) /\ removeFrameListener(s)
    BY <1>1, <1>3 DEF unlistenConsumer, StopTime
  <2>2. /\ p \in 1..n /\ mFrameListeners[p] = Jpeg
        /\ mFrameListeners' = SubSeq(mFrameListeners, 1, p - 1) \o SubSeq(mFrameListeners, p + 1, n)
        /\ pastEnd' \in {"none", mFrameListeners[n]} /\ UNCHANGED <<next, nSize, listener>>
    BY <1>1, <2>1, PlaceOfListener DEF removeFrameListener
  <2>3. /\ Len(mFrameListeners') = n - 1
        /\ \A i \in 1..(n - 1) :
             mFrameListeners'[i] = IF i < p THEN mFrameListeners[i] ELSE mFrameListeners[i + 1]
    BY <1>1, <2>2, RemovedAt
  <2> HIDE DEF n, p
  <2>4. \A i \in 1..n : mFrameListeners[i] = "preview" => i < p
    BY <1>1, <2>2 DEF PreviewOnce, PreviewFirst
  <2>5. pastEnd' # "preview"
    <3>1. mFrameListeners[n] # "preview"
      BY <1>1, <2>2, <2>4
    <3> QED
      BY <2>2, <3>1
  <2>6. ASSUME NEW k \in next..nSize, listenerAt(k)' = "preview"
        PROVE  listenerAt(k) = "preview"
    <3>1. k \in 1..(n - 1) /\ mFrameListeners'[k] = "preview"
      BY <1>1, <2>2, <2>3, <2>5, <2>6 DEF listenerAt
    <3>2. k < p
      <4>1. SUFFICES ASSUME ~(k < p)
                     PROVE  FALSE
        OBVIOUS
      <4>2. k + 1 \in 1..n /\ mFrameListeners[k + 1] = "preview"
        BY <1>1, <2>3, <3>1, <4>1
      <4>3. k + 1 < p
        BY <2>4, <4>2
      <4> QED
        BY <1>1, <2>2, <3>1, <4>1, <4>3
    <3> QED
      BY <1>1, <2>3, <3>1, <3>2 DEF listenerAt, n
  <2> QED
    BY <2>2, <2>5, <2>6 DEF ahead
<1>4. CASE stopConsumer(s) \/ releaseConsumer(s) \/ enableReceiveFrame
  BY <1>4
  DEF stopConsumer, releaseConsumer, enableReceiveFrame, dispatchVars, loopVars, ahead, listenerAt, PreviewOnce
<1> QED
  BY <1>2, <1>3, <1>4 DEF consumer

\* Outside a dispatch nothing is left behind the end of the vector.
LEMMA PastEndIdle ==
  ASSUME TypeInv, PreviewOnce, pc["device"] \notin {"each", "call"}, NEW s \in Streams,
         removeFrameListener(s) \/ startThread(s)
  PROVE  pastEnd' # "preview"
BY DEF TypeInv, Slots, removeFrameListener, startThread, PreviewOnce

\* The device's thread comes to the preview stream once in a dispatch.
LEMMA PreviewOnceDevice ==
  ASSUME TypeInv, Attached, PreviewOnce, deviceThread
  PROVE  PreviewOnce'
<1>1. /\ mFrameListeners \in Seq(Streams) /\ Len(mFrameListeners) \in Nat
      /\ DOMAIN mFrameListeners = 1..Len(mFrameListeners)
      /\ next \in Nat /\ nSize \in Nat /\ Distinct /\ ThreadTypes /\ "device" \in Threads
      /\ ThreadShape("device") /\ UNCHANGED mFrameListeners
  BY ThreadNames, LenProperties, TypeParts, DeviceLeaves DEF TypeInv, TypeOK, Attached
<1>2. PreviewFirst'
  BY <1>1 DEF PreviewOnce, PreviewFirst
<1>3. pastEnd' # "preview"
  BY ReleasingLeaves
  DEF PreviewOnce, deviceThread, deviceLoop, acquireCameraFrame, acquireFails, dispatchCameraFrame,
      readListener, handleCameraFrame, frameNotWanted, called, dispatchEnds, dispatchVars
<1>4. CASE readListener
  <2>1. /\ listener' = listenerAt(next) /\ next' = next + 1 /\ nSize' = nSize /\ next >= 1
        /\ pastEnd' = pastEnd
    BY <1>4 DEF readListener, TypeInv, Slots
  <2>2. \A k \in Nat : k >= 1 /\ listenerAt(k) = "preview"
                       => k \in DOMAIN mFrameListeners /\ mFrameListeners[k] = "preview"
    BY <1>1 DEF PreviewOnce, listenerAt
  <2>3. ASSUME listener' = "preview", NEW k \in next'..nSize', listenerAt(k)' = "preview"
        PROVE  FALSE
    <3>1. listenerAt(k) = "preview" /\ k \in Nat /\ k >= 1 /\ k # next
      BY <1>1, <2>1, <2>3 DEF listenerAt
    <3> QED
      BY <1>1, <2>1, <2>2, <2>3, <3>1 DEF Distinct
  <2> QED
    BY <1>2, <1>3, <2>3 DEF PreviewOnce, ahead
<1>5. CASE ~readListener
  <2>1. pc'["device"] # "call"
    <3>1. CASE \/ deviceLoop \/ acquireCameraFrame \/ acquireFails \/ dispatchCameraFrame
               \/ handleCameraFrame \/ frameNotWanted \/ dispatchEnds
      BY <1>1, <3>1
      DEF deviceLoop, acquireCameraFrame, acquireFails, dispatchCameraFrame, handleCameraFrame,
          frameNotWanted, called, dispatchEnds, goto, calls, ThreadTypes
    <3>2. CASE releasing("device")
      BY <1>1, <3>2
      DEF releasing, release, handleFrameRelease, fillCameraFrame, countQueued, goto, returns,
          ThreadTypes, ThreadShape, Resumes, Releasing
    <3> QED
      BY <1>5, <3>1, <3>2 DEF deviceThread
  <2> QED
    BY <1>2, <1>3, <2>1 DEF PreviewOnce
<1> QED
  BY <1>4, <1>5

\* Nor does any other thread send the dispatch to it again.
LEMMA PreviewOnceStep ==
  ASSUME TypeInv, DispatchInv, Attached, PreviewOnce, [Next]_vars
  PROVE  PreviewOnce'
<1>0. /\ mFrameListeners \in Seq(Streams) /\ Distinct /\ ThreadTypes /\ Phases
      /\ "device" \in Threads /\ "preview" \in Threads /\ "preview" \in Streams /\ "device" # "preview"
  BY ThreadNames, TypeParts DEF TypeInv, TypeOK, Attached
<1>1. ASSUME UNCHANGED dispatchVars, pc'["device"] = pc["device"] \/ pc'["device"] # "call"
      PROVE  PreviewOnce'
  BY <1>1 DEF PreviewOnce, PreviewFirst, ahead, listenerAt, dispatchVars, loopVars
<1>2. ASSUME NEW s \in Streams, streamThread(s)
      PROVE  PreviewOnce'
  BY <1>1, <1>2, StreamLeaves, StreamMoves, ThreadNames DEF Moved
<1>3. ASSUME NEW s \in Consumers, consumer(s)
      PROVE  PreviewOnce'
  <2>0. s \in Streams /\ s # "preview" /\ pc'["device"] = pc["device"]
    BY <1>0, <1>3, ConsumerOwn, ThreadNames
  <2>1. PreviewFirst'
    <3>1. CASE startConsumer(s)
      BY <1>0, <2>0, <3>1, Listened DEF startConsumer, PreviewOnce
    <3>2. CASE unlistenConsumer(s)
      BY <1>0, <2>0, <3>2, Unlistened DEF unlistenConsumer, PreviewOnce
    <3>3. CASE stopConsumer(s) \/ releaseConsumer(s) \/ enableReceiveFrame
      BY <3>3
      DEF stopConsumer, releaseConsumer, enableReceiveFrame, dispatchVars, PreviewOnce, PreviewFirst
    <3> QED
      BY <1>3, <3>1, <3>2, <3>3 DEF consumer
  <2>2. CASE pc["device"] \in {"each", "call"}
    BY <1>3, <2>0, <2>1, <2>2, AheadKept DEF PreviewOnce
  <2>3. CASE pc["device"] \notin {"each", "call"}
    <3>1. pastEnd' # "preview"
      <4>1. CASE startConsumer(s) \/ unlistenConsumer(s)
        BY <2>0, <2>3, <4>1, PastEndIdle DEF startConsumer, unlistenConsumer
      <4>2. CASE stopConsumer(s) \/ releaseConsumer(s) \/ enableReceiveFrame
        BY <4>2 DEF stopConsumer, releaseConsumer, enableReceiveFrame, dispatchVars, PreviewOnce
      <4> QED
        BY <1>3, <4>1, <4>2 DEF consumer
    <3> QED
      BY <2>0, <2>1, <2>3, <3>1 DEF PreviewOnce
  <2> QED
    BY <2>2, <2>3
<1>4. CASE startStream
  <2>1. startThread("preview") /\ ~Listening(Jpeg) /\ pc["device"] = "none"
    BY <1>0, <1>4 DEF startStream, DispatchInv, JpegNearEnd, Phases
  <2>2. PreviewFirst' /\ pastEnd' # "preview" /\ pc'["device"] = "none"
    BY <1>0, <2>1, Listened, PastEndIdle DEF PreviewOnce, startThread, ThreadTypes
  <2> QED
    BY <2>2 DEF PreviewOnce
<1>5. CASE unlisten
  <2>1. removeFrameListener("preview") /\ pc["device"] = "none" /\ pc' = pc
    BY <1>0, <1>5 DEF unlisten, Phases, threadVars
  <2>2. PreviewFirst' /\ pastEnd' # "preview"
    BY <1>0, <2>1, Unlistened, PastEndIdle DEF PreviewOnce
  <2> QED
    BY <2>1, <2>2 DEF PreviewOnce
<1>6. CASE \/ configure \/ holdInService \/ startPreview \/ fillDevice \/ stopPreview \/ streamOff
           \/ clearDevice \/ zeroQueued \/ stopStream \/ freeBuffers
  BY <1>1, <1>6
  DEF configure, holdInService, startPreview, fillDevice, stopPreview, streamOff, clearDevice, zeroQueued,
      stopStream, freeBuffers, threadVars
<1>7. CASE streamOn \/ joinDevice \/ exitStream
  BY <1>0, <1>1, <1>7 DEF streamOn, joinDevice, exitStream, exitThread, goto, ThreadTypes
<1>8. CASE UNCHANGED vars
  BY <1>1, <1>8 DEF vars, threadVars
<1> QED
  BY <1>2, <1>3, <1>4, <1>5, <1>6, <1>7, <1>8, PreviewOnceDevice DEF Next, startSteps, stopSteps

-----------------------------------------------------------------------------
(* A frame on its way to the window is on one way only.                    *)

showing(b) == pc["preview"] = "hold" /\ frame["preview"] = b

\* What sends no frame to the window and takes none back keeps it so.
LEMMA ShownWeaken ==
  ASSUME NEW b \in Buffers, ShownAt(b), b \in inWindow' => b \in inWindow,
         showing(b)' => showing(b) /\ b \in inWindow', rendering(b)' => rendering(b),
         mThreadQueue'["preview"] = mThreadQueue["preview"], due(b)' => due(b)
  PROVE  ShownAt(b)'
<1>1. toPreview(b)' <=> toPreview(b)
  BY DEF toPreview
<1> HIDE DEF toPreview
<1> QED
  BY <1>1 DEF ShownAt, showing

\* Nothing is on its way while the preview stream has no thread and the device neither.
LEMMA NothingShown ==
  ASSUME NEW b \in Buffers, pc'["preview"] \in {"none", "wait"},
         pc'["device"] \notin {"each", "call"}, mThreadQueue'["preview"] = <<>>
  PROVE  ShownAt(b)'
BY DEF ShownAt, rendering, toPreview, due

\* The queue of the preview holds frames.
LEMMA PreviewQueue ==
  ASSUME TypeInv
  PROVE  /\ mThreadQueue["preview"] \in Seq(Buffers) /\ Len(mThreadQueue["preview"]) \in Nat
         /\ DOMAIN mThreadQueue["preview"] = 1..Len(mThreadQueue["preview"])
<1>1. mThreadQueue["preview"] \in Seq(Buffers)
  BY ThreadNames, TypeParts DEF TypeInv, Shared
<1> QED
  BY <1>1, LenProperties

\* A frame is dispatched when it has no references: nothing else is under way.
LEMMA DispatchShown ==
  ASSUME TypeInv, NEW b \in Buffers, control \in Serving, ExactAt(b), ClaimsAt(b), ShownAt(b),
         dispatchCameraFrame
  PROVE  ShownAt(b)'
<1>1. /\ "device" \in Threads /\ "preview" \in Threads /\ "device" # "preview" /\ ThreadTypes
      /\ ThreadShape("preview") /\ "preview" \in Streams
  BY ThreadNames, TypeParts DEF TypeInv
<1>2. /\ pc["device"] = "dispatch" /\ pc'["preview"] = pc["preview"]
      /\ UNCHANGED <<frame, inWindow, mThreadQueue, mFrameListeners>>
  BY <1>1 DEF dispatchCameraFrame, goto, streamVars, ThreadTypes
<1>3. CASE frame["device"] = b
  <2>1. mRefCount[b] = 0
    BY <1>2, <1>3 DEF ClaimsAt, dispatched
  <2>2. /\ b \notin inWindow /\ ~busy("preview", b)
        /\ \A i \in DOMAIN mThreadQueue["preview"] : mThreadQueue["preview"][i] # b
    BY <1>1, <2>1, FreeIsUnused
  <2>3. ~rendering(b) /\ ~showing(b)
    BY <1>1, <2>2 DEF rendering, showing, busy, ThreadShape, Releasing, Returning
  <2> QED
    BY <1>2, <2>2, <2>3 DEF ShownAt, rendering, showing, toPreview
<1>4. CASE frame["device"] # b
  <2>1. ~due(b)'
    BY <1>2, <1>4 DEF due
  <2> QED
    BY <1>2, <2>1, ShownWeaken DEF ShownAt, showing, rendering
<1> QED
  BY <1>3, <1>4

\* A step of the loop brings the preview stream no frame it was not to get.
LEMMA DueKept ==
  ASSUME TypeInv, NEW b, readListener \/ handleCameraFrame \/ frameNotWanted
  PROVE  due(b)' => due(b)
<1>1. /\ pc["device"] \in {"each", "call"} /\ frame' = frame /\ ThreadTypes /\ "device" \in Threads
      /\ UNCHANGED <<mFrameListeners, pastEnd, nSize>> /\ next \in Nat /\ nSize \in Nat
  BY ThreadNames, TypeParts
  DEF readListener, handleCameraFrame, frameNotWanted, called, TypeInv, TypeOK
<1>2. CASE readListener
  <2>1. listener' = listenerAt(next) /\ next' = next + 1 /\ next <= nSize
    BY <1>2 DEF readListener, inLoop
  <2>2. listener' = "preview" => ahead
    <3>1. next \in next..nSize
      BY <1>1, <2>1
    <3> QED
      BY <2>1, <3>1 DEF ahead
  <2>3. ahead' => ahead
    <3>1. \A k \in next'..nSize' : k \in next..nSize /\ listenerAt(k)' = listenerAt(k)
      BY <1>1, <2>1 DEF listenerAt
    <3> QED
      BY <3>1 DEF ahead
  <2> QED
    BY <1>1, <2>2, <2>3 DEF due
<1>3. CASE handleCameraFrame \/ frameNotWanted
  <2>1. next' = next /\ pc'["device"] = "each"
    BY <1>1, <1>3 DEF handleCameraFrame, frameNotWanted, called, goto, ThreadTypes
  <2>2. \A k : listenerAt(k)' = listenerAt(k)
    BY <1>1 DEF listenerAt
  <2>3. ahead' => ahead
    BY <1>1, <2>1, <2>2 DEF ahead
  <2> QED
    BY <1>1, <2>1, <2>3 DEF due
<1> QED
  BY <1>2, <1>3

\* It is handed to the preview stream once, as the dispatch comes to it once.
LEMMA HandleShown ==
  ASSUME TypeInv, PreviewOnce, NEW b \in Buffers, ShownAt(b), handleCameraFrame
  PROVE  ShownAt(b)'
<1> DEFINE f == frame["device"]
           q == mThreadQueue["preview"]
           n == Len(q)
<1>1. /\ ThreadTypes /\ "device" \in Threads /\ "preview" \in Threads /\ "device" # "preview"
      /\ Shared /\ "preview" \in Streams
  BY ThreadNames, TypeParts DEF TypeInv
<1>2. /\ pc["device"] = "call" /\ pc'["device"] = "each" /\ pc'["preview"] = pc["preview"]
      /\ f \in Buffers /\ listener \in Streams
      /\ UNCHANGED <<frame, inWindow, mFrameListeners, pastEnd, next, nSize>>
  BY <1>1, HandedToListener DEF handleCameraFrame, called, goto, ThreadTypes
<1>3. \/ mThreadQueue' = mThreadQueue
      \/ mThreadQueue' = [mThreadQueue EXCEPT ![listener] = Append(@, f)]
  BY HandedToListener
<1>4. q \in Seq(Buffers) /\ n \in Nat /\ DOMAIN q = 1..n
  BY PreviewQueue
<1>6. due(b)' => due(b)
  BY DueKept
<1>7. CASE listener # "preview" \/ mThreadQueue' = mThreadQueue
  <2>1. mThreadQueue'["preview"] = q
    BY <1>1, <1>2, <1>3, <1>7 DEF Shared
  <2> QED
    BY <1>2, <1>6, <2>1, ShownWeaken DEF ShownAt, showing, rendering
<1>8. CASE listener = "preview" /\ mThreadQueue' = [mThreadQueue EXCEPT ![listener] = Append(@, f)]
  <2>1. /\ DOMAIN mThreadQueue'["preview"] = 1..(n + 1) /\ mThreadQueue'["preview"][n + 1] = f
        /\ \A i \in 1..n : mThreadQueue'["preview"][i] = q[i]
    <3>1. mThreadQueue'["preview"] = Append(q, f)
      BY <1>1, <1>8 DEF Shared
    <3> QED
      BY <1>2, <1>4, <3>1, AppendProperties, LenProperties
  <2>2. \A i \in 1..(n + 1) : i \in 1..n \/ i = n + 1
    BY <1>4
  <2>3. ~due(b)'
    <3>1. ~ahead'
      BY <1>2, <1>8 DEF PreviewOnce, ahead, listenerAt
    <3> QED
      BY <1>2, <3>1 DEF due
  <2>4. CASE b = f
    <3>1. due(b)
      BY <1>2, <1>8, <2>4 DEF due
    <3>2. b \notin inWindow /\ ~rendering(b) /\ \A i \in 1..n : q[i] # b
      BY <1>4, <3>1 DEF ShownAt, toPreview
    <3>3. ~rendering(b)' /\ (showing(b)' <=> showing(b)) /\ b \notin inWindow'
      BY <1>2, <3>2 DEF rendering, showing
    <3>4. \A i, j \in 1..(n + 1) :
            mThreadQueue'["preview"][i] = b /\ mThreadQueue'["preview"][j] = b => i = j
      BY <2>1, <2>2, <3>2
    <3> QED
      BY <2>1, <2>3, <3>2, <3>3, <3>4 DEF ShownAt, showing
  <2>5. CASE b # f
    <3>1. toPreview(b)' => toPreview(b)
      BY <1>4, <2>1, <2>2, <2>5 DEF toPreview
    <3>2. \A i, j \in 1..(n + 1) :
            mThreadQueue'["preview"][i] = b /\ mThreadQueue'["preview"][j] = b => i = j
      BY <1>4, <2>1, <2>2, <2>5 DEF ShownAt
    <3>3. (rendering(b)' <=> rendering(b)) /\ (showing(b)' <=> showing(b)) /\ inWindow' = inWindow
      BY <1>2 DEF rendering, showing
    <3> QED
      BY <2>1, <2>3, <3>1, <3>2, <3>3 DEF ShownAt, showing
  <2> QED
    BY <2>4, <2>5
<1> QED
  BY <1>3, <1>7, <1>8

\* The device's thread keeps the account of the frames the window shows.
LEMMA DeviceShown ==
  ASSUME TypeInv, PreviewOnce, NEW b \in Buffers, control \in Serving, ExactAt(b), ClaimsAt(b), ShownAt(b),
         deviceThread
  PROVE  ShownAt(b)'
<1>1. ThreadTypes /\ ThreadShape("device") /\ "device" \in Threads /\ "preview" \in Threads
      /\ "preview" # "device"
  BY ThreadNames, TypeParts DEF TypeInv
<1>2. /\ pc'["preview"] = pc["preview"] /\ frame'["preview"] = frame["preview"] /\ inWindow' = inWindow
  BY <1>1, DeviceMoves, DeviceLeaves DEF Moved
<1>3. CASE \/ deviceLoop \/ acquireCameraFrame \/ acquireFails \/ dispatchEnds \/ releasing("device")
  <2>1. mThreadQueue' = mThreadQueue
    BY <1>3, ReleasingLeaves
    DEF deviceLoop, acquireCameraFrame, acquireFails, dispatchEnds, streamVars
  <2>2. pc'["device"] \notin {"each", "call"}
    <3>1. CASE deviceLoop \/ acquireCameraFrame \/ acquireFails \/ dispatchEnds
      BY <1>1, <3>1
      DEF deviceLoop, acquireCameraFrame, acquireFails, dispatchEnds, goto, calls, ThreadTypes
    <3>2. CASE releasing("device")
      BY <1>1, <3>2
      DEF releasing, release, handleFrameRelease, fillCameraFrame, countQueued, goto, returns,
          ThreadTypes, ThreadShape, Resumes, Releasing
    <3> QED
      BY <1>3, <3>1, <3>2
  <2>3. ~due(b)'
    BY <2>2 DEF due
  <2> QED
    BY <1>2, <2>1, <2>3, ShownWeaken DEF ShownAt, showing, rendering
<1>4. CASE readListener \/ frameNotWanted
  <2>1. mThreadQueue' = mThreadQueue
    BY <1>4 DEF readListener, frameNotWanted, streamVars
  <2> QED
    BY <1>2, <1>4, <2>1, DueKept, ShownWeaken DEF ShownAt, showing, rendering
<1> QED
  BY <1>3, <1>4, DispatchShown, HandleShown DEF deviceThread

\* The thread of the preview stream shows its frames one after another.
LEMMA PreviewShown ==
  ASSUME Faultless, TypeInv, Attached, NEW b \in Buffers, control \in Serving, ShownAt(b),
         streamThread("preview")
  PROVE  ShownAt(b)'
<1> DEFINE s == "preview"
           q == mThreadQueue[s]
           n == Len(q)
<1>1. /\ ThreadTypes /\ ThreadShape(s) /\ Shared /\ s \in Threads /\ s \in Streams /\ "device" \in Threads
      /\ s # "device"
  BY ThreadNames, TypeParts DEF TypeInv
<1>2. pc'["device"] = pc["device"] /\ frame'["device"] = frame["device"] /\ UNCHANGED dispatchVars
  BY <1>1, StreamMoves, StreamLeaves DEF Moved
<1>3. due(b)' <=> due(b)
  BY <1>2 DEF due, ahead, listenerAt, dispatchVars, loopVars
<1>4. q \in Seq(Buffers) /\ n \in Nat /\ DOMAIN q = 1..n
  BY PreviewQueue
<1>5. \A what : ~fails(s, what)
  BY DEF Faultless, fails
<1>6. CASE takeFrame(s)
  <2> DEFINE c == Head(q)
  <2>1. mStreamState[s] = "STARTED"
    <3>1. control # "start"
      BY <1>1, <1>6 DEF TypeInv, Phases, takeFrame
    <3> QED
      BY <3>1 DEF Attached
  <2>2. /\ pc'[s] = "process" /\ frame'[s] = c /\ inWindow' = inWindow /\ q # <<>>
        /\ mThreadQueue'[s] = Tail(q) /\ c = q[1]
    BY <1>1, <1>6, <2>1 DEF takeFrame, goto, bufferVars, ThreadTypes, Shared
  <2>3. n >= 1 /\ 1 \in 1..n
    BY <1>4, <2>2, EmptySeq
  <2>4. /\ DOMAIN mThreadQueue'[s] = 1..(n - 1)
        /\ \A i \in 1..(n - 1) : mThreadQueue'[s][i] = q[i + 1]
    <3>1. Tail(q) \in Seq(Buffers) /\ Len(Tail(q)) = n - 1
          /\ \A i \in 1..Len(Tail(q)) : Tail(q)[i] = q[i + 1]
      BY <1>4, <2>2, HeadTailProperties
    <3> QED
      BY <2>2, <3>1, LenProperties
  <2> HIDE DEF q, n, c
  <2>5. \A i \in 1..(n - 1) : i + 1 \in 1..n /\ i + 1 # 1
    BY <1>4
  <2>6. /\ \A i \in 1..n : q[i] = b => toPreview(b)
        /\ \A i, j \in 1..n : q[i] = b /\ q[j] = b => i = j
    BY <1>4 DEF ShownAt, toPreview, q
  <2>7. ~showing(b)' /\ (rendering(b)' <=> b = c)
    BY <2>2 DEF showing, rendering
  <2>8. toPreview(b)' <=> \E i \in 1..(n - 1) : q[i + 1] = b
    BY <2>4 DEF toPreview
  <2>9. toPreview(b)' => toPreview(b) /\ b # c
    BY <2>2, <2>3, <2>5, <2>6, <2>8
  <2>10. rendering(b)' => toPreview(b)
    BY <2>2, <2>3, <2>6, <2>7
  <2>11. \A i, j \in 1..(n - 1) : mThreadQueue'[s][i] = b /\ mThreadQueue'[s][j] = b => i = j
    <3> SUFFICES ASSUME NEW i \in 1..(n - 1), NEW j \in 1..(n - 1),
                        mThreadQueue'[s][i] = b, mThreadQueue'[s][j] = b
                 PROVE  i = j
      OBVIOUS
    <3>1. i + 1 = j + 1
      BY <2>4, <2>5, <2>6
    <3> QED
      BY <1>4, <3>1
  <2> QED
    BY <1>3, <2>2, <2>4, <2>7, <2>9, <2>10, <2>11 DEF ShownAt, showing
<1>7. CASE finishFrame(s)
  <2>1. /\ UNCHANGED <<inWindow, mThreadQueue>> /\ pc'[s] = "release"
    BY <1>1, <1>7 DEF finishFrame, calls, goto, bufferVars, streamVars, ThreadTypes
  <2> QED
    BY <1>3, <2>1, ShownWeaken DEF showing, rendering
<1>8. CASE cancelBuffer(s)
  BY <1>1, <1>8 DEF cancelBuffer, Attached
<1>9. CASE renderBuffer
  <2>1. /\ pc[s] = "process" /\ pc'[s] = "hold" /\ frame' = frame /\ mThreadQueue' = mThreadQueue
        /\ inWindow' = inWindow \cup {frame[s]}
    BY <1>1, <1>9 DEF renderBuffer, goto, streamVars, ThreadTypes
  <2>2. toPreview(b)' <=> toPreview(b)
    BY <2>1 DEF toPreview
  <2>3. ~rendering(b)' /\ (showing(b)' => b \in inWindow')
    BY <2>1 DEF rendering, showing
  <2>4. toPreview(b) \/ due(b) => frame[s] # b /\ b \notin inWindow
    BY <2>1 DEF ShownAt, rendering
  <2> QED
    BY <1>3, <2>1, <2>2, <2>3, <2>4 DEF ShownAt, showing
<1>10. CASE holdFrame
  <2>1. /\ UNCHANGED <<inWindow, mThreadQueue>> /\ pc'[s] = "request"
    BY <1>1, <1>10 DEF holdFrame, goto, streamVars, ThreadTypes
  <2> QED
    BY <1>3, <2>1, ShownWeaken DEF showing, rendering
<1>11. CASE requestBuffer
  <2>1. /\ inWindow' \subseteq inWindow /\ mThreadQueue' = mThreadQueue /\ pc'[s] = "release"
    BY <1>1, <1>11 DEF requestBuffer, calls, goto, streamVars, ThreadTypes
  <2> QED
    BY <1>3, <2>1, ShownWeaken DEF showing, rendering
<1>12. CASE releasing(s)
  <2>1. UNCHANGED <<inWindow, mThreadQueue>>
    BY <1>12, ReleasingLeaves DEF streamVars
  <2>2. pc'[s] \notin {"process", "hold"}
    BY <1>1, <1>12
    DEF releasing, release, handleFrameRelease, fillCameraFrame, countQueued, goto, returns,
        ThreadTypes, ThreadShape, Resumes, Releasing
  <2> QED
    BY <1>3, <2>1, <2>2, ShownWeaken DEF showing, rendering
<1> QED
  BY <1>5, <1>6, <1>7, <1>8, <1>9, <1>10, <1>11, <1>12 DEF streamThread, processPreview

\* Consumers have ways of their own.
LEMMA OthersShown ==
  ASSUME Faultless, TypeInv, NEW b \in Buffers, ShownAt(b), NEW s \in Consumers, streamThread(s)
  PROVE  ShownAt(b)'
<1>1. /\ ThreadTypes /\ s \in Streams /\ s \in Threads /\ s # "preview" /\ Shared /\ s # "device"
      /\ "preview" \in Threads /\ "device" \in Threads /\ "preview" \in Streams
  BY ThreadNames, TypeParts DEF TypeInv
<1>2. /\ \A t \in {"preview", "device"} : pc'[t] = pc[t] /\ frame'[t] = frame[t]
      /\ UNCHANGED dispatchVars
  BY <1>1, StreamMoves, StreamLeaves DEF Moved
<1>3. inWindow' = inWindow
  BY <1>1, ReleasingLeaves
  DEF streamThread, takeFrame, finishFrame, cancelBuffer, processCopy, fails, bufferVars
<1>4. mThreadQueue'["preview"] = mThreadQueue["preview"]
  BY <1>1, ReleasingLeaves
  DEF streamThread, takeFrame, finishFrame, cancelBuffer, processCopy, fails, streamVars, Shared
<1> QED
  BY <1>2, <1>3, <1>4, ShownWeaken
  DEF ShownAt, showing, rendering, due, ahead, listenerAt, dispatchVars, loopVars

\* Starting and stopping sends no frame.
LEMMA ControlShown ==
  ASSUME Faultless, TypeInv, TypeInv', Attached, Attached', PreviewOnce, NEW b \in Buffers,
         control \in Serving => ShownAt(b), control' \in Serving,
         \/ \E s \in Consumers : consumer(s)
         \/ configure \/ startSteps \/ stopPreview \/ stopSteps
  PROVE  ShownAt(b)'
<1>1. /\ Phases /\ Phases' /\ Shared /\ ThreadTypes /\ "device" \in Threads /\ "preview" \in Threads
      /\ "preview" # "device" /\ "preview" \in Streams
  BY ThreadNames, TypeParts DEF TypeInv
<1>2. ASSUME NEW s \in Consumers, consumer(s)
      PROVE  ShownAt(b)'
  <2>1. control' = control /\ UNCHANGED <<inWindow, frame>>
    BY <1>2, ConsumerLeaves DEF controlVars, bufferVars
  <2>2. /\ mThreadQueue'["preview"] = mThreadQueue["preview"]
        /\ pc'["preview"] = pc["preview"] /\ pc'["device"] = pc["device"]
    BY <1>1, <1>2, ConsumerOwn, ThreadNames
  <2>3. due(b)' => due(b)
    <3>1. CASE pc["device"] \in {"each", "call"}
      BY <1>2, <2>1, <2>2, <3>1, AheadKept DEF due
    <3>2. CASE pc["device"] \notin {"each", "call"}
      BY <2>2, <3>2 DEF due
    <3> QED
      BY <3>1, <3>2
  <2> QED
    BY <2>1, <2>2, <2>3, ShownWeaken DEF ShownAt, showing, rendering
<1>3. CASE configure \/ stopStream \/ exitStream \/ freeBuffers
  BY <1>3 DEF configure, stopStream, exitStream, freeBuffers, Serving
<1>4. CASE holdInService \/ startStream
  <2>1. control' \in {"start", "flag"}
    BY <1>4 DEF holdInService, startStream
  <2> QED
    BY <1>1, <2>1, NothingShown, ThreadNames DEF Attached, Phases, Still, Starting
<1>5. CASE \/ startPreview \/ fillDevice \/ stopPreview \/ streamOff \/ clearDevice \/ zeroQueued
  <2>1. /\ UNCHANGED <<threadVars, inWindow, mThreadQueue, dispatchVars>> /\ control \in Serving
    BY <1>5
    DEF startPreview, fillDevice, stopPreview, streamOff, clearDevice, zeroQueued, bufferVars, streamVars,
        Serving
  <2> QED
    BY <2>1, ShownWeaken
    DEF ShownAt, showing, rendering, due, ahead, listenerAt, threadVars, dispatchVars, loopVars
<1>6. CASE streamOn \/ joinDevice \/ unlisten
  <2>1. /\ UNCHANGED <<frame, inWindow, mThreadQueue>> /\ control \in Serving
        /\ pc'["preview"] = pc["preview"] /\ pc'["device"] \notin {"each", "call"}
    <3>1. CASE streamOn \/ joinDevice
      BY <1>1, <3>1 DEF streamOn, joinDevice, goto, bufferVars, streamVars, Serving, ThreadTypes
    <3>2. CASE unlisten
      BY <1>1, <3>2 DEF unlisten, bufferVars, streamVars, threadVars, Serving, Phases
    <3> QED
      BY <1>6, <3>1, <3>2
  <2> QED
    BY <2>1, ShownWeaken DEF ShownAt, showing, rendering, due
<1> QED
  BY <1>2, <1>3, <1>4, <1>5, <1>6 DEF startSteps, stopSteps

\* Every step keeps the account of the frames the window shows.
LEMMA ShownStep ==
  ASSUME Faultless, TypeInv, TypeInv', Attached, Attached', PreviewOnce, Exact, Claims, Shown,
         [Next]_vars
  PROVE  Shown'
<1> SUFFICES ASSUME control' \in Serving, NEW b \in Buffers
             PROVE  ShownAt(b)'
  BY DEF Shown
<1>1. ExactAt(b) /\ (control \in Serving => ClaimsAt(b) /\ ShownAt(b))
  BY DEF Exact, Claims, Shown
<1>2. CASE deviceThread
  BY <1>1, <1>2, DeviceLeaves, DeviceShown DEF controlVars
<1>3. ASSUME NEW s \in Streams, streamThread(s)
      PROVE  ShownAt(b)'
  BY <1>1, <1>3, StreamLeaves, PreviewShown, OthersShown DEF controlVars, Streams
<1>4. CASE \/ \E s \in Consumers : consumer(s)
           \/ configure \/ startSteps \/ stopPreview \/ stopSteps
  BY <1>1, <1>4, ControlShown
<1>5. CASE UNCHANGED vars
  BY <1>1, <1>5, ShownWeaken
  DEF vars, bufferVars, threadVars, controlVars, streamVars, dispatchVars, loopVars, ShownAt, showing,
      rendering, due, ahead, listenerAt
<1> QED
  BY <1>2, <1>3, <1>4, <1>5 DEF Next

-----------------------------------------------------------------------------
(* What follows for every instance without failures. *)

Inv == /\ TypeInv /\ QueuedInv /\ DispatchInv /\ Attached /\ PreviewOnce /\ Placed
       /\ Exact /\ Claims /\ Shown

\* The invariant holds when nothing has started.
LEMMA InvInit == Init => Inv
<1> SUFFICES ASSUME Init
             PROVE  Inv
  OBVIOUS
<1>1. TypeInv
  BY TypeInit
<1>2. /\ Attached /\ PreviewOnce /\ Placed /\ Claims /\ Shown
      /\ control = "off" /\ pc["device"] = "none" /\ \A s \in Streams : Still(s)
  BY PipelineAssumption, ThreadNames
  DEF Init, Attached, PreviewOnce, PreviewFirst, Placed, Claims, Shown, Serving, Starting, Still,
      Listening, Distinct
<1>3. Exact
  <2> SUFFICES ASSUME NEW b \in Buffers
               PROVE  ExactAt(b)
    BY DEF Exact
  <2>1. users(b) = 0 /\ mRefCount[b] = 0 /\ dropped[b] = 0
    BY <1>1, <1>2, StillUnused DEF Init
  <2> QED
    BY <1>2, <2>1 DEF ExactAt, owners, Serving
<1>4. QueuedInv /\ DispatchInv
  BY DispatchInit DEF Init, QueuedInv
<1> QED
  BY <1>1, <1>2, <1>3, <1>4 DEF Inv

\* Every step in which nothing fails keeps the invariant.
LEMMA InvStep == Faultless /\ Inv /\ [Next]_vars => Inv'
<1> SUFFICES ASSUME Faultless, TypeInv, QueuedInv, DispatchInv, Attached, PreviewOnce, Placed, Exact,
                    Claims, Shown, [Next]_vars
             PROVE  Inv'
  BY DEF Inv
<1>1. TypeInv' /\ QueuedInv' /\ DispatchInv' /\ Attached' /\ PreviewOnce' /\ Placed'
  BY TypeStep, QueuedStep, DispatchStep, AttachedStep, PreviewOnceStep, PlacedStep
<1>2. Exact' /\ Claims' /\ Shown'
  BY <1>1, ExactStep, ClaimsStep, ShownStep
<1> QED
  BY <1>1, <1>2 DEF Inv

\* The inductive invariant holds when nothing fails and consumers are prompt.
LEMMA InvHolds == Faultless => (Spec => []Inv)
<1> SUFFICES ASSUME Faultless
             PROVE  Spec => []Inv
  OBVIOUS
<1>1. Inv /\ [Next]_vars => Inv'
  BY InvStep
<1> QED
  BY <1>1, InvInit, PTL DEF Spec

\* CameraFrame::mRefCount counts exactly those who need the frame for as long as
\* the buffers are in service: the window, messages, working and releasing
\* threads each have one reference, whoever hands it to whom, also if the JPEG
\* stream leaves a dispatch; what else is counted was dropped with its queue.
THEOREM ReferencesExact == Faultless => (Spec => []RefExact)
<1> SUFFICES ASSUME Faultless
             PROVE  Spec => []RefExact
  OBVIOUS
<1>1. Inv => RefExact
  <2> SUFFICES ASSUME Inv, control \in Serving, NEW b \in Buffers
               PROVE  mRefCount[b] = needs(b) + dropped[b]
    BY DEF RefExact
  <2>1. mRefCount[b] = owners(b) + serves(b)
    BY DEF Inv, Exact, ExactAt
  <2>2. users(b) \in Nat /\ serves(b) \in {0, 1} /\ dropped[b] \in Nat
    BY UsersNat DEF serves, Inv, TypeInv, TypeOK
  <2> QED
    BY <2>1, <2>2, NeedsAre DEF owners
<1> QED
  BY <1>1, InvHolds, PTL

\* CameraFrame::release() never runs into its assertion, on no thread, not even
\* when preview has been stopped and the buffers are out of service.
THEOREM AssertionHolds == Faultless => (Spec => []AssertHolds)
<1> SUFFICES ASSUME Faultless
             PROVE  Spec => []AssertHolds
  OBVIOUS
<1>1. Inv => AssertHolds
  <2> SUFFICES ASSUME Inv, NEW t \in Threads, pc[t] = "release"
               PROVE  mRefCount[buf[t]] > 0
    BY DEF AssertHolds
  <2>1. buf[t] \in Buffers /\ TypeInv
    BY DEF Inv, TypeInv, ThreadShape, Releasing
  <2>2. ExactAt(buf[t]) /\ dropping(t, buf[t])
    BY <2>1 DEF Inv, Exact, dropping
  <2> QED
    BY <2>1, <2>2, UsedIsReferenced
<1> QED
  BY <1>1, InvHolds, PTL

\* While preview runs V4L2 captures only into frames that nobody else has: the
\* last release() is what queues a frame, and it happens once.
THEOREM DriverAlone == Faultless => (Spec => []DriverOwnsAlone)
<1> SUFFICES ASSUME Faultless
             PROVE  Spec => []DriverOwnsAlone
  OBVIOUS
<1>1. Inv => DriverOwnsAlone
  <2> SUFFICES ASSUME Inv, mPreviewing, NEW b \in inDriver
               PROVE  b \notin inWindow /\ needs(b) = 0
    BY DEF DriverOwnsAlone
  <2>1. control \in Serving
    BY DEF Inv, QueuedInv, Serving
  <2>2. b \in Buffers /\ TypeInv
    BY TypeParts DEF Inv, TypeInv, Shared
  <2>3. ExactAt(b) /\ mRefCount[b] = 0
    BY <2>1, <2>2 DEF Inv, Exact, Claims, ClaimsAt
  <2> QED
    BY <2>1, <2>2, <2>3, FreeIsUnused
<1> QED
  BY <1>1, InvHolds, PTL

=============================================================================
