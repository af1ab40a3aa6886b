-------------------------- MODULE AudioStreamsProofs --------------------------
(***************************************************************************)
(* Proofs about AudioStreams, for any outputs, routes, references and sets *)
(* of failures.                                                            *)
(***************************************************************************)
EXTENDS AudioStreams, TLAPS

-----------------------------------------------------------------------------
(* Locks. *)

ThreadTypes == /\ lock \in [Mutexes -> Threads \cup {Nobody}]
               /\ pc \in [Threads -> Places]

\* Where a thread has the device's lock, its stream's, and the input's.
LocksHeld ==
  \A t \in Threads :
    /\ pc[t] \in {"own", "body", "forced", "instandby", "getecho", "open",
                  "select", "all", "finish"}
       => lock["device"] = t
    /\ pc[t] \in {"body", "io"} => lock[streamOf(t)] = t
    /\ pc[t] \in {"instandby", "getecho", "open"} => lock["in"] = t

\* The names of threads, streams and mutexes are told apart.
LEMMA Names ==
  /\ Nobody \notin Threads /\ "device" \notin Streams
  /\ {"device", "in", "primary"} \subseteq Mutexes
  /\ {"in", "primary"} \subseteq Streams /\ Outputs \subseteq Streams
  /\ Outputs \subseteq Threads /\ "in" \notin Outputs
  /\ {"primary", "capture", "mode", "effects"} \subseteq Threads
  /\ Directs \subseteq Outputs /\ "primary" \notin Directs
  /\ {"capture", "mode", "effects"} \cap Outputs = {}
  /\ \A t \in Threads : streamOf(t) \in Mutexes \cap Streams
BY AudioAssumption DEF Nobody, Threads, Outputs, Mutexes, Streams, streamOf

\* Taking and giving back a lock disturbs no other thread.
LEMMA Locking ==
  ASSUME ThreadTypes, NEW t \in Threads, NEW m \in Mutexes, locks(t, m)
  PROVE  /\ lock' \in [Mutexes -> Threads \cup {Nobody}] /\ lock'[m] = t
         /\ \A n \in Mutexes : lock[n] \in Threads => lock'[n] = lock[n]
BY Names DEF ThreadTypes, locks, free

\* Giving up locks takes none of another thread.
LEMMA Unlocking ==
  ASSUME ThreadTypes, NEW t \in Threads, NEW ms, unlocks(t, ms)
  PROVE  /\ lock' \in [Mutexes -> Threads \cup {Nobody}]
         /\ \A n \in Mutexes : lock[n] # t \/ n \notin ms => lock'[n] = lock[n]
BY DEF ThreadTypes, unlocks

\* A thread is where it has the locks only after taking them.
LEMMA LocksStep ==
  ASSUME ThreadTypes, LocksHeld, [Next]_vars PROVE ThreadTypes' /\ LocksHeld'
<1> USE Names, Locking, Unlocking DEF ThreadTypes, LocksHeld, Places, goto, returns,
        Nobody
<1>1. CASE UNCHANGED vars
  BY <1>1 DEF vars
<1>2. ASSUME NEW t \in Threads, call(t) PROVE ThreadTypes' /\ LocksHeld'
  BY <1>2 DEF call
<1>3. ASSUME NEW t \in Threads, step(t) PROVE ThreadTypes' /\ LocksHeld'
  <2>1. CASE lockDevice(t)
    BY <2>1 DEF afterLock, lockDevice, streamOf
  <2>2. CASE lockStream(t)
    BY <2>2 DEF lockStream, streamOf
  <2>3. CASE refused(t)
    BY <2>3 DEF refused
  <2>4. CASE proceed(t)
    BY <2>4 DEF proceed
  <2>5. CASE endTransfer(t)
    <3>1. CASE t = "primary" /\ force
      BY <2>5, <3>1 DEF endTransfer
    <3>2. CASE ~(t = "primary" /\ force)
      BY <2>5, <3>2 DEF endTransfer
    <3> QED
      BY <3>1, <3>2
  <2>6. CASE inputStandby(t)
    BY <2>6 DEF inputStandby
  <2>7. CASE t \in Outputs /\ out_standby(t)
    BY <2>7 DEF out_standby
  <2>8. CASE t \in Directs /\ clearPrimary(t)
    BY <2>8 DEF clearPrimary, starting
  <2>9. CASE t \in Directs /\ startDirect(t)
    BY <2>9 DEF startDirect, starting, streamOf
  <2>10. CASE t \in Directs /\ startDirectFails(t)
    BY <2>10 DEF startDirectFails, starting
  <2>11. CASE t = "primary" /\ startPrimary
    BY <2>11 DEF startPrimary, starting, streamOf
  <2>12. CASE t = "primary" /\ startPrimaryFails
    BY <2>12 DEF startPrimaryFails, starting
  <2>13. CASE t = "primary" /\ forceInput
    BY <2>13 DEF forceInput
  <2>14. ASSUME t = "primary", NEW val \in Routes, route(val) PROVE ThreadTypes' /\ LocksHeld'
    BY <2>14 DEF route
  <2>15. CASE t = "capture" /\ changeInput
    BY <2>15 DEF changeInput, streamOf
  <2>16. CASE t = "capture" /\ startInput
    BY <2>16 DEF startInput, starting, streamOf
  <2>17. CASE t = "capture" /\ putEcho
    BY <2>17 DEF putEcho
  <2>18. CASE t = "capture" /\ createEcho
    BY <2>18 DEF createEcho
  <2>19. CASE t = "capture" /\ openInput
    BY <2>19 DEF openInput, streamOf
  <2>20. CASE t = "capture" /\ openInputFails
    BY <2>20 DEF openInputFails
  <2>21. CASE t = "capture" /\ closeInput
    BY <2>21 DEF closeInput
  <2>22. CASE t = "effects" /\ changeEffects
    BY <2>22 DEF changeEffects, streamOf
  <2>23. CASE t = "mode" /\ forceActiveInput
    BY <2>23 DEF forceActiveInput
  <2>24. CASE t = "mode" /\ modeSelected
    BY <2>24 DEF modeSelected
  <2>25. ASSUME t = "mode", NEW m \in {"in_call", "normal"}, setMode(m)
         PROVE  ThreadTypes' /\ LocksHeld'
    BY <2>25 DEF setMode
  <2>26. ASSUME t = "mode", NEW o \in Outputs, forceOutput(o) PROVE ThreadTypes' /\ LocksHeld'
    BY <2>26 DEF forceOutput
  <2> QED
    BY <1>3, <2>1, <2>2, <2>3, <2>4, <2>5, <2>6, <2>7, <2>8, <2>9, <2>10, <2>11,
       <2>12, <2>13, <2>14, <2>15, <2>16, <2>17, <2>18, <2>19, <2>20, <2>21, <2>22,
       <2>23, <2>24, <2>25, <2>26 DEF step
<1> QED
  BY <1>1, <1>2, <1>3 DEF Next

\* So locks are held where they should be.
LEMMA LocksAlways == Spec => [](ThreadTypes /\ LocksHeld)
<1>1. Init => ThreadTypes /\ LocksHeld
  BY Names DEF Init, ThreadTypes, LocksHeld, Places
<1> QED
  BY <1>1, LocksStep, PTL DEF Spec

-----------------------------------------------------------------------------
(* Types. *)

RestTypes == /\ mode \in {"normal", "in_call"}
             /\ {in_call, active_input, need_echo_reference, closing, force} \subseteq BOOLEAN
             /\ standby \in [Streams -> BOOLEAN]
             /\ pcm \in [Streams -> SUBSET {"normal", "hdmi", "microphone"}]
             /\ echo_reference \in Refs \cup {NoRef}
             /\ echo \in [Streams -> Refs \cup {NoRef}]
             /\ source \in {"mic", "voice"}
             /\ todo \subseteq Outputs
             /\ failures \in FailureSets

\* A step keeps the types.
LEMMA TypesStep == ASSUME ThreadTypes, RestTypes, [Next]_vars PROVE RestTypes'
<1> USE Names DEF RestTypes, deviceVars, streamVars, echoVars, inputVars
<1>1. CASE UNCHANGED vars
  BY <1>1 DEF vars
<1>2. ASSUME NEW t \in Threads, call(t) PROVE RestTypes'
  BY <1>2 DEF call
<1>3. ASSUME NEW t \in Threads, step(t) PROVE RestTypes'
  <2>1. CASE \/ t \in Outputs /\ out_standby(t)
             \/ t \in Directs /\ clearPrimary(t)
    BY <2>1 DEF clearPrimary, do_output_standby, out_standby
  <2>2. ASSUME t = "mode", NEW o \in Outputs, forceOutput(o) PROVE RestTypes'
    BY <2>2 DEF forceOutput, do_output_standby
  <2>3. CASE inputStandby(t)
    <3>1. /\ UNCHANGED <<mode, in_call, need_echo_reference, closing, source, todo,
                         failures>>
          /\ pcm' = pcm \/ pcm' = [pcm EXCEPT !["in"] = {}]
          /\ force' = force \/ force' = FALSE
          /\ active_input' = active_input \/ active_input' = FALSE
          /\ standby' = standby \/ standby' = [standby EXCEPT !["in"] = TRUE]
          /\ echo_reference' \in {echo_reference, NoRef}
      BY <2>3 DEF do_input_standby, inputStandby
    <3>2. unlinked \in [Streams -> Refs \cup {NoRef}]
      BY DEF unlinked
    <3>3. echo' \in [Streams -> Refs \cup {NoRef}]
      BY <2>3, <3>2 DEF do_input_standby, inputStandby
    <3> QED
      BY <3>1, <3>3
  <2>4. CASE t = "primary" /\ startPrimary
    BY <2>4 DEF inputFollows, startPrimary, wanted
  <2>5. CASE t = "primary" /\ startPrimaryFails
    <3>1. PICK opened \in SUBSET wanted : pcm' = [pcm EXCEPT !["primary"] = @ \cup opened]
      BY <2>5 DEF startPrimaryFails
    <3>2. opened \subseteq {"normal", "hdmi"}
      BY DEF wanted
    <3> QED
      BY <2>5, <3>1, <3>2 DEF startPrimaryFails
  <2>6. CASE t \in Directs /\ startDirect(t)
    BY <2>6 DEF hardware, startDirect
  <2>7. CASE t = "capture" /\ startInput
    BY <2>7 DEF startInput
  <2>8. CASE t = "capture" /\ putEcho
    BY <2>8 DEF putEcho, unlinked
  <2>9. CASE t = "capture" /\ createEcho
    BY <2>9 DEF createEcho
  <2>10. CASE t = "capture" /\ openInput
    BY <2>10 DEF openInput
  <2>11. CASE \/ t = "capture" /\ openInputFails
              \/ t = "capture" /\ closeInput
    BY <2>11 DEF closeInput, openInputFails
  <2>12. CASE \/ t = "capture" /\ changeInput
              \/ t = "effects" /\ changeEffects
    BY <2>12 DEF changeEffects, changeInput
  <2>13. ASSUME t = "primary", NEW val \in Routes, route(val) PROVE RestTypes'
    BY <2>13 DEF route, do_output_standby
  <2>14. CASE t = "mode" /\ modeSelected
    BY <2>14 DEF modeSelected
  <2>15. ASSUME t = "mode", NEW m \in {"in_call", "normal"}, setMode(m) PROVE RestTypes'
    BY <2>15 DEF setMode
  <2>16. CASE \/ lockDevice(t)
              \/ lockStream(t)
              \/ refused(t)
              \/ proceed(t)
              \/ endTransfer(t)
              \/ t \in Directs /\ startDirectFails(t)
              \/ t = "primary" /\ forceInput
              \/ t = "mode" /\ forceActiveInput
    BY <2>16 DEF endTransfer, forceActiveInput, forceInput, lockDevice, lockStream,
       proceed, refused, startDirectFails
  <2> HIDE Names DEF RestTypes, deviceVars, streamVars, echoVars, inputVars
  <2> QED
    BY <1>3, <2>1, <2>2, <2>3, <2>4, <2>5, <2>6, <2>7, <2>8, <2>9, <2>10, <2>11,
       <2>12, <2>13, <2>14, <2>15, <2>16 DEF step
<1> QED
  BY <1>1, <1>2, <1>3 DEF Next

\* Every variable of the audio streams keeps its type: the places of the threads,
\* the state of the streams and their PCMs, and the references they point to.
THEOREM AudioTyped == Spec => []TypeOK
<1>1. Init => RestTypes
  BY Names DEF Init, RestTypes
<1>2. ThreadTypes /\ RestTypes => TypeOK
  BY DEF TypeOK, ThreadTypes, RestTypes
<1> QED
  BY <1>1, <1>2, LocksAlways, TypesStep, PTL DEF Spec

-----------------------------------------------------------------------------
(* Hardware. *)

\* A stream in standby has nothing open, except where the primary output failed,
\* and an output that takes a whole device opens no more than its own hardware.
PortsInv ==
  /\ \A s \in Streams : standby[s] /\ (s = "primary" => "primary" \notin failures)
                        => pcm[s] = {}
  /\ \A d \in Directs : pcm[d] \subseteq {hardware(d)}
  /\ PortsExclusive

\* An output that is closed, or the input, keeps the invariant.
LEMMA PortsClosed ==
  ASSUME RestTypes, PortsInv, NEW o \in Streams, failures' = failures,
         standby' = [standby EXCEPT ![o] = TRUE], pcm' = [pcm EXCEPT ![o] = {}]
  PROVE  PortsInv'
BY Names DEF PortsInv, PortsExclusive, RestTypes

\* A step keeps the hardware apart.
LEMMA PortsStep ==
  ASSUME RestTypes, PortsInv, [Next]_vars PROVE PortsInv'
<1> USE Names DEF deviceVars, streamVars, echoVars, inputVars
<1>1. CASE UNCHANGED vars
  BY <1>1 DEF vars, PortsInv, PortsExclusive
<1>2. ASSUME NEW t \in Threads, call(t) PROVE PortsInv'
  BY <1>2 DEF call, PortsInv, PortsExclusive
<1>3. ASSUME NEW t \in Threads, step(t) PROVE PortsInv'
  <2>1. CASE t \in Outputs /\ out_standby(t)
    BY <2>1, PortsClosed DEF PortsExclusive, PortsInv, do_output_standby,
       out_standby
  <2>2. CASE t \in Directs /\ clearPrimary(t)
    BY <2>2, PortsClosed DEF PortsExclusive, PortsInv, clearPrimary,
       do_output_standby
  <2>3. ASSUME t = "mode", NEW o \in Outputs, forceOutput(o) PROVE PortsInv'
    BY <2>3, PortsClosed DEF forceOutput, do_output_standby, PortsInv,
       PortsExclusive
  <2>4. ASSUME t = "primary", NEW val \in Routes, route(val) PROVE PortsInv'
    BY <2>4, PortsClosed DEF route, do_output_standby, PortsInv, PortsExclusive
  <2>5. CASE inputStandby(t)
    BY <2>5, PortsClosed DEF PortsExclusive, PortsInv, do_input_standby,
       inputStandby
  <2>6. CASE t = "primary" /\ startPrimary
    BY <2>6 DEF PortsExclusive, PortsInv, RestTypes, startPrimary, wanted
  <2>7. CASE t = "primary" /\ startPrimaryFails
    BY <2>7 DEF PortsExclusive, PortsInv, RestTypes, startPrimaryFails, wanted
  <2>8. CASE t \in Directs /\ startDirect(t)
    BY <2>8 DEF PortsExclusive, PortsInv, RestTypes, startDirect, starting
  <2>9. CASE t = "capture" /\ openInput
    BY <2>9 DEF PortsExclusive, PortsInv, RestTypes, openInput
  <2>10. CASE \/ lockDevice(t)
              \/ lockStream(t)
              \/ refused(t)
              \/ proceed(t)
              \/ endTransfer(t)
              \/ t \in Directs /\ startDirectFails(t)
              \/ t = "primary" /\ forceInput
              \/ t = "capture" /\ changeInput
              \/ t = "capture" /\ startInput
              \/ t = "capture" /\ putEcho
              \/ t = "capture" /\ createEcho
              \/ t = "capture" /\ openInputFails
              \/ t = "capture" /\ closeInput
              \/ t = "effects" /\ changeEffects
              \/ t = "mode" /\ forceActiveInput
              \/ t = "mode" /\ modeSelected
    BY <2>10 DEF changeEffects, changeInput, closeInput, createEcho, endTransfer,
       forceActiveInput, forceInput, lockDevice, lockStream, modeSelected,
       openInputFails, proceed, putEcho, refused, startDirectFails, startInput,
       PortsInv, PortsExclusive
  <2>11. ASSUME t = "mode", NEW m \in {"in_call", "normal"}, setMode(m) PROVE PortsInv'
    BY <2>11 DEF setMode, PortsInv, PortsExclusive
  <2> HIDE Names DEF deviceVars, streamVars, echoVars, inputVars
  <2> QED
    BY <1>3, <2>1, <2>2, <2>3, <2>4, <2>5, <2>6, <2>7, <2>8, <2>9, <2>10, <2>11 DEF
       step
<1> QED
  BY <1>1, <1>2, <1>3 DEF Next

\* So the hardware is apart in every state.
LEMMA PortsAlways == Spec => []PortsInv
<1>1. Init => PortsInv
  BY Names DEF Init, PortsInv, PortsExclusive
<1>2. Init => RestTypes
  BY Names DEF Init, RestTypes
<1> QED
  BY <1>1, <1>2, LocksAlways, TypesStep, PortsStep, PTL DEF Spec

\* The primary output never has the hardware of another output open, for any
\* outputs and routes, if the PCMs it wants can be opened.
THEOREM PortsAlwaysExclusive == Spec => []PortsExclusive
BY PortsAlways, PTL DEF PortsInv

-----------------------------------------------------------------------------
(* Echo references. *)

\* A reference is asked for when the input has none.
EchoInv == EchoShared /\ (pc["capture"] = "getecho" => echo["in"] = NoRef)

\* A step keeps the references.
LEMMA EchoStep ==
  ASSUME ThreadTypes, RestTypes, EchoInv, [Next]_vars PROVE EchoInv'
<1> USE Names DEF EchoInv, EchoShared, RestTypes, ThreadTypes, deviceVars,
        streamVars, echoVars, inputVars, goto, returns
<1>1. CASE UNCHANGED vars
  BY <1>1 DEF vars
<1>2. ASSUME NEW t \in Threads, call(t) PROVE EchoInv'
  BY <1>2 DEF call
<1>3. ASSUME NEW t \in Threads, step(t) PROVE EchoInv'
  <2>1. CASE lockDevice(t)
    BY <2>1 DEF afterLock, lockDevice
  <2>2. CASE \/ t \in Outputs /\ out_standby(t)
             \/ t \in Directs /\ clearPrimary(t)
    BY <2>2 DEF Streams, clearPrimary, do_output_standby, out_standby
  <2>3. ASSUME t = "mode", NEW o \in Outputs, forceOutput(o) PROVE EchoInv'
    BY <2>3 DEF forceOutput, do_output_standby, Streams
  <2>4. ASSUME t = "primary", NEW val \in Routes, route(val) PROVE EchoInv'
    BY <2>4 DEF route, do_output_standby, Streams
  <2>5. CASE t = "primary" /\ startPrimary
    BY <2>5 DEF startPrimary, starting, streamOf
  <2>6. CASE inputStandby(t)
    BY <2>6 DEF do_input_standby, inputStandby, unlinked
  <2>7. CASE t \in Directs /\ startDirect(t)
    BY <2>7 DEF startDirect
  <2>8. CASE t = "capture" /\ startInput
    BY <2>8 DEF startInput
  <2>9. CASE t = "capture" /\ putEcho
    BY <2>9 DEF putEcho, unlinked
  <2>10. CASE t = "capture" /\ createEcho
    BY <2>10 DEF createEcho
  <2>11. CASE t = "capture" /\ openInput
    BY <2>11 DEF openInput
  <2>12. CASE t = "capture" /\ openInputFails
    BY <2>12 DEF openInputFails
  <2>13. CASE t = "capture" /\ closeInput
    BY <2>13 DEF closeInput
  <2>14. CASE endTransfer(t)
    BY <2>14 DEF endTransfer
  <2>15. CASE \/ t = "mode" /\ modeSelected
              \/ t = "capture" /\ changeInput
              \/ t = "effects" /\ changeEffects
    BY <2>15 DEF changeEffects, changeInput, modeSelected
  <2>16. CASE \/ t = "primary" /\ startPrimaryFails
              \/ t \in Directs /\ startDirectFails(t)
    BY <2>16 DEF startDirectFails, startPrimaryFails
  <2>17. CASE \/ lockStream(t)
              \/ refused(t)
              \/ proceed(t)
              \/ t = "primary" /\ forceInput
              \/ t = "mode" /\ forceActiveInput
    BY <2>17 DEF forceActiveInput, forceInput, lockStream, proceed, refused
  <2>18. ASSUME t = "mode", NEW m \in {"in_call", "normal"}, setMode(m) PROVE EchoInv'
    BY <2>18 DEF setMode
  <2> HIDE Names DEF EchoInv, EchoShared, RestTypes, ThreadTypes, deviceVars,
           streamVars, echoVars, inputVars
  <2> QED
    BY <1>3, <2>1, <2>2, <2>3, <2>4, <2>5, <2>6, <2>7, <2>8, <2>9, <2>10, <2>11,
       <2>12, <2>13, <2>14, <2>15, <2>16, <2>17, <2>18 DEF step
<1> QED
  BY <1>1, <1>2, <1>3 DEF Next

\* Nobody holds an echo reference that was released, and an active primary output
\* writes to the one there is, for any references, outputs and failures.
THEOREM EchoAlwaysShared == Spec => []EchoShared
<1>1. Init => EchoInv /\ RestTypes
  BY Names DEF Init, EchoInv, EchoShared, RestTypes
<1>2. EchoInv => EchoShared
  BY DEF EchoInv
<1> QED
  BY <1>1, <1>2, LocksAlways, TypesStep, EchoStep, PTL DEF Spec

-----------------------------------------------------------------------------
(* The active input. *)

Starting == pc["capture"] \in {"getecho", "open"}

\* While a read starts the input, it is in standby and already the active one.
InputInv ==
  /\ ~standby["in"] => active_input
  /\ Starting => active_input /\ standby["in"]
  /\ active_input => ~standby["in"] \/ Starting \/ "card" \in failures

\* A step keeps the active input: who stops it has the locks that starting it takes.
LEMMA InputStep ==
  ASSUME ThreadTypes, LocksHeld, RestTypes, InputInv, [Next]_vars PROVE InputInv'
<1> USE Names DEF InputInv, Starting, RestTypes, ThreadTypes, deviceVars,
        streamVars, echoVars, inputVars, goto, returns
<1>1. CASE UNCHANGED vars
  BY <1>1 DEF vars
<1>2. ASSUME NEW t \in Threads, call(t) PROVE InputInv'
  BY <1>2 DEF call
<1>3. ASSUME NEW t \in Threads, step(t) PROVE InputInv'
  <2>1. CASE lockDevice(t)
    BY <2>1 DEF afterLock, lockDevice
  <2>2. CASE \/ t \in Outputs /\ out_standby(t)
             \/ t \in Directs /\ clearPrimary(t)
    BY <2>2 DEF Streams, clearPrimary, do_output_standby, out_standby
  <2>3. ASSUME t = "mode", NEW o \in Outputs, forceOutput(o) PROVE InputInv'
    BY <2>3 DEF forceOutput, do_output_standby, Streams
  <2>4. ASSUME t = "primary", NEW val \in Routes, route(val) PROVE InputInv'
    BY <2>4 DEF route, do_output_standby, Streams
  <2>5. CASE t = "primary" /\ startPrimary
    BY <2>5 DEF startPrimary
  <2>6. CASE inputStandby(t)
    BY <2>6 DEF LocksHeld, do_input_standby, inputStandby
  <2>7. CASE t \in Directs /\ startDirect(t)
    BY <2>7 DEF startDirect
  <2>8. CASE t = "capture" /\ startInput
    BY <2>8 DEF startInput, starting, streamOf
  <2>9. CASE t = "capture" /\ putEcho
    BY <2>9 DEF putEcho
  <2>10. CASE t = "capture" /\ createEcho
    BY <2>10 DEF createEcho
  <2>11. CASE t = "capture" /\ openInput
    BY <2>11 DEF openInput
  <2>12. CASE t = "capture" /\ openInputFails
    BY <2>12 DEF openInputFails
  <2>13. CASE t = "capture" /\ closeInput
    BY <2>13 DEF closeInput
  <2>14. CASE endTransfer(t)
    BY <2>14 DEF endTransfer
  <2>15. CASE \/ t = "mode" /\ modeSelected
              \/ t = "capture" /\ changeInput
              \/ t = "effects" /\ changeEffects
    BY <2>15 DEF changeEffects, changeInput, modeSelected
  <2>16. CASE \/ t = "primary" /\ startPrimaryFails
              \/ t \in Directs /\ startDirectFails(t)
    BY <2>16 DEF startDirectFails, startPrimaryFails
  <2>17. CASE \/ lockStream(t)
              \/ refused(t)
              \/ proceed(t)
              \/ t = "primary" /\ forceInput
              \/ t = "mode" /\ forceActiveInput
    BY <2>17 DEF forceActiveInput, forceInput, lockStream, proceed, refused
  <2>18. ASSUME t = "mode", NEW m \in {"in_call", "normal"}, setMode(m) PROVE InputInv'
    BY <2>18 DEF setMode
  <2> HIDE Names DEF InputInv, Starting, RestTypes, ThreadTypes, deviceVars,
           streamVars, echoVars, inputVars
  <2> QED
    BY <1>3, <2>1, <2>2, <2>3, <2>4, <2>5, <2>6, <2>7, <2>8, <2>9, <2>10, <2>11,
       <2>12, <2>13, <2>14, <2>15, <2>16, <2>17, <2>18 DEF step
<1> QED
  BY <1>1, <1>2, <1>3 DEF Next

\* So active_input is right in every state.
LEMMA InputAlways == Spec => []InputInv
<1>1. Init => InputInv /\ RestTypes
  BY Names DEF Init, InputInv, Starting, RestTypes
<1> QED
  BY <1>1, LocksAlways, TypesStep, InputStep, PTL DEF Spec

\* Whenever the device's lock is free active_input is set for an input that
\* records, and for no other unless the device of the input has no card.
THEOREM ActiveInputAlwaysExact == Spec => []ActiveInputExact
<1>1. ThreadTypes /\ LocksHeld /\ InputInv => ActiveInputExact
  BY Names DEF ThreadTypes, LocksHeld, InputInv, Starting, ActiveInputExact, free
<1> QED
  BY <1>1, LocksAlways, InputAlways, PTL

-----------------------------------------------------------------------------
(* The echo canceller follows the output. *)

\* An input that is about to open has a reference if it is to have one, and one
\* that is about to be freed has stopped.
FollowInv ==
  /\ EchoFollows
  /\ pc["capture"] = "open" /\ need_echo_reference /\ ~standby["primary"]
     => echo["in"] # NoRef \/ "create" \in failures
  /\ pc["capture"] = "close" => standby["in"]

\* A step keeps the canceller with the output: the device's lock excludes that
\* an output starts, or the canceller changes, while the input starts.
LEMMA FollowStep ==
  ASSUME ThreadTypes, LocksHeld, RestTypes, InputInv, FollowInv, [Next]_vars PROVE FollowInv'
<1> USE Names DEF FollowInv, EchoFollows, InputInv, RestTypes, ThreadTypes,
        deviceVars, streamVars, echoVars, inputVars, goto, returns
<1>1. CASE UNCHANGED vars
  BY <1>1 DEF vars
<1>2. ASSUME NEW t \in Threads, call(t) PROVE FollowInv'
  BY <1>2 DEF call
<1>3. ASSUME NEW t \in Threads, step(t) PROVE FollowInv'
  <2>1. CASE lockDevice(t)
    BY <2>1 DEF afterLock, lockDevice
  <2>2. CASE lockStream(t)
    BY <2>2 DEF lockStream
  <2>3. CASE refused(t)
    BY <2>3 DEF refused
  <2>4. CASE proceed(t)
    BY <2>4 DEF proceed
  <2>5. CASE endTransfer(t)
    BY <2>5 DEF endTransfer
  <2>6. CASE inputStandby(t)
    <3>1. standby'["in"] /\ UNCHANGED <<need_echo_reference, failures>>
      BY <2>6 DEF do_input_standby, inputStandby
    <3>2. pc'["capture"] # "open"
      BY <2>6 DEF inputStandby, LocksHeld
    <3> QED
      BY <3>1, <3>2
  <2>7. CASE t \in Outputs /\ out_standby(t)
    BY <2>7 DEF Streams, do_output_standby, out_standby
  <2>8. CASE t \in Directs /\ clearPrimary(t)
    BY <2>8 DEF Streams, clearPrimary, do_output_standby
  <2>9. CASE t \in Directs /\ startDirect(t)
    BY <2>9 DEF startDirect, starting
  <2>10. CASE t \in Directs /\ startDirectFails(t)
    BY <2>10 DEF startDirectFails, starting
  <2>11. CASE t = "primary" /\ startPrimary
    BY <2>11 DEF LocksHeld, inputFollows, startPrimary, starting
  <2>12. CASE t = "primary" /\ startPrimaryFails
    BY <2>12 DEF startPrimaryFails, starting
  <2>13. CASE t = "primary" /\ forceInput
    BY <2>13 DEF forceInput
  <2>14. ASSUME t = "primary", NEW val \in Routes, route(val) PROVE FollowInv'
    BY <2>14 DEF route, do_output_standby, Streams
  <2>15. CASE t = "capture" /\ changeInput
    BY <2>15 DEF changeInput
  <2>16. CASE t = "capture" /\ startInput
    BY <2>16 DEF startInput, starting
  <2>17. CASE t = "capture" /\ putEcho
    BY <2>17 DEF putEcho, unlinked
  <2>18. CASE t = "capture" /\ createEcho
    BY <2>18, AudioAssumption DEF createEcho, Starting
  <2>19. CASE t = "capture" /\ openInput
    BY <2>19 DEF openInput
  <2>20. CASE t = "capture" /\ openInputFails
    BY <2>20 DEF openInputFails
  <2>21. CASE t = "capture" /\ closeInput
    BY <2>21 DEF closeInput
  <2>22. CASE t = "effects" /\ changeEffects
    BY <2>22 DEF LocksHeld, changeEffects
  <2>23. CASE t = "mode" /\ forceActiveInput
    BY <2>23 DEF forceActiveInput
  <2>24. CASE t = "mode" /\ modeSelected
    BY <2>24 DEF modeSelected
  <2>25. ASSUME t = "mode", NEW m \in {"in_call", "normal"}, setMode(m) PROVE FollowInv'
    BY <2>25 DEF setMode
  <2>26. ASSUME t = "mode", NEW o \in Outputs, forceOutput(o) PROVE FollowInv'
    BY <2>26 DEF forceOutput, do_output_standby, Streams
  <2> HIDE Names DEF FollowInv, EchoFollows, InputInv, RestTypes, ThreadTypes,
           deviceVars, streamVars, echoVars, inputVars
  <2> QED
    BY <1>3, <2>1, <2>2, <2>3, <2>4, <2>5, <2>6, <2>7, <2>8, <2>9, <2>10, <2>11,
       <2>12, <2>13, <2>14, <2>15, <2>16, <2>17, <2>18, <2>19, <2>20, <2>21, <2>22,
       <2>23, <2>24, <2>25, <2>26 DEF step
<1> QED
  BY <1>1, <1>2, <1>3 DEF Next

\* A voice input with an echo canceller gets the reference of the active output,
\* or is restarted, in any order of activations, standbys, effects and sources.
THEOREM EchoAlwaysFollows == Spec => []EchoFollows
<1>1. Init => FollowInv /\ RestTypes
  BY Names DEF Init, FollowInv, EchoFollows, RestTypes
<1>2. FollowInv => EchoFollows
  BY DEF FollowInv
<1> QED
  BY <1>1, <1>2, LocksAlways, TypesStep, InputAlways, FollowStep, PTL DEF Spec

-----------------------------------------------------------------------------
(* Calls. *)

\* While the mode is "in_call" the streams stop one after the other and none
\* starts again; in_call is only set when the last has stopped.
CallInv ==
  /\ in_call => mode = "in_call" /\ pc["mode"] \notin {"all", "instandby", "finish"}
  /\ Starting => mode # "in_call"
  /\ mode = "in_call" =>
       /\ pc["mode"] = "all" => \A o \in Outputs \ todo : standby[o]
       /\ pc["mode"] = "instandby" => \A o \in Outputs : standby[o]
       /\ pc["mode"] \notin {"all", "instandby"} => \A s \in Streams : standby[s]

\* A step keeps the streams stopped.
LEMMA CallStep ==
  ASSUME ThreadTypes, LocksHeld, RestTypes, InputInv, CallInv, [Next]_vars PROVE CallInv'
<1> USE Names DEF CallInv, Starting, RestTypes, ThreadTypes, deviceVars, streamVars,
        echoVars, inputVars, goto, returns
<1>1. CASE UNCHANGED vars
  BY <1>1 DEF vars
<1>2. ASSUME NEW t \in Threads, call(t) PROVE CallInv'
  BY <1>2 DEF call
<1>3. ASSUME NEW t \in Threads, step(t) PROVE CallInv'
  <2>1. CASE lockDevice(t)
    BY <2>1 DEF afterLock, lockDevice
  <2>2. CASE \/ t \in Outputs /\ out_standby(t)
             \/ t \in Directs /\ clearPrimary(t)
    BY <2>2 DEF Streams, clearPrimary, do_output_standby, out_standby
  <2>3. ASSUME t = "primary", NEW val \in Routes, route(val) PROVE CallInv'
    BY <2>3 DEF route, do_output_standby, Streams
  <2>4. ASSUME t = "mode", NEW o \in Outputs, forceOutput(o) PROVE CallInv'
    BY <2>4 DEF forceOutput, do_output_standby, Streams
  <2>5. CASE t = "primary" /\ startPrimary
    BY <2>5 DEF mayStart, startPrimary, starting
  <2>6. CASE inputStandby(t)
    BY <2>6 DEF Streams, do_input_standby, inputStandby
  <2>7. CASE t \in Directs /\ startDirect(t)
    BY <2>7 DEF mayStart, startDirect, starting
  <2>8. CASE t = "capture" /\ startInput
    BY <2>8 DEF mayStart, startInput, starting
  <2>9. CASE t = "capture" /\ putEcho
    BY <2>9 DEF putEcho
  <2>10. CASE t = "capture" /\ createEcho
    BY <2>10 DEF createEcho
  <2>11. CASE t = "capture" /\ openInput
    BY <2>11 DEF openInput
  <2>12. CASE t = "capture" /\ openInputFails
    BY <2>12 DEF openInputFails
  <2>13. CASE t = "capture" /\ closeInput
    BY <2>13 DEF closeInput
  <2>14. CASE endTransfer(t)
    BY <2>14 DEF endTransfer
  <2>15. CASE t = "mode" /\ forceActiveInput
    BY <2>15 DEF InputInv, Streams, forceActiveInput
  <2>16. CASE t = "mode" /\ modeSelected
    BY <2>16 DEF modeSelected
  <2>17. CASE \/ t = "capture" /\ changeInput
              \/ t = "effects" /\ changeEffects
    BY <2>17 DEF changeEffects, changeInput
  <2>18. CASE \/ t = "primary" /\ startPrimaryFails
              \/ t \in Directs /\ startDirectFails(t)
    BY <2>18 DEF startDirectFails, startPrimaryFails
  <2>19. ASSUME t = "mode", NEW m \in {"in_call", "normal"}, setMode(m) PROVE CallInv'
    <3>1. CASE m = mode
      BY <2>19, <3>1 DEF setMode
    <3>2. CASE m # mode
      <4>1. ~Starting
        BY <2>19 DEF setMode, LocksHeld
      <4> QED
        BY <2>19, <3>2, <4>1 DEF setMode
    <3> QED
      BY <3>1, <3>2
  <2>20. CASE \/ lockStream(t)
              \/ refused(t)
              \/ proceed(t)
              \/ t = "primary" /\ forceInput
    BY <2>20 DEF forceInput, lockStream, proceed, refused
  <2> HIDE Names DEF CallInv, Starting, RestTypes, ThreadTypes, deviceVars,
           streamVars, echoVars, inputVars
  <2> QED
    BY <1>3, <2>1, <2>2, <2>3, <2>4, <2>5, <2>6, <2>7, <2>8, <2>9, <2>10, <2>11,
       <2>12, <2>13, <2>14, <2>15, <2>16, <2>17, <2>18, <2>19, <2>20 DEF step
<1> QED
  BY <1>1, <1>2, <1>3 DEF Next

\* During a call every stream is in standby with no PCM open, for any outputs and
\* routes and whichever streams were active or starting; a PCM stays open only if
\* the primary output could not open another.
THEOREM StoppedDuringCalls == Spec => []StoppedInCall
<1>1. Init => CallInv /\ RestTypes
  BY Names DEF Init, CallInv, Starting, RestTypes
<1>2. PortsInv /\ CallInv => StoppedInCall
  BY Names DEF PortsInv, CallInv, StoppedInCall
<1> QED
  BY <1>1, <1>2, LocksAlways, TypesStep, PortsAlways, InputAlways, CallStep, PTL DEF
     Spec

===============================================================================
