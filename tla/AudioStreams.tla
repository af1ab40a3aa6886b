----------------------------- MODULE AudioStreams -----------------------------
(***************************************************************************)
(* The streams of the audio HAL (alsa/tinyalsa_hal.c): the primary output, *)
(* outputs that take a whole device (HDMI and ESAI multichannel), and one  *)
(* input.  The framework runs a playback thread for each output and a      *)
(* capture thread for the input; other threads set the audio mode and add  *)
(* or remove the echo canceller.  Every call takes the device's lock, then *)
(* the stream's; reading and writing go on under the stream's lock alone.  *)
(*                                                                         *)
(* A device is told apart by name, a PCM by the hardware it opens.  The    *)
(* outputs stay open: all code that looks for an output treats a closed    *)
(* one as one in standby.  Mixer routes, formats, resampling and the other *)
(* effects are left out.                                                   *)
(***************************************************************************)
EXTENDS Naturals

CONSTANTS
  Directs,    \* outputs beside the primary one, of {"hdmi", "esai"}
  Routes,     \* sets of devices the framework routes the primary output to
  Refs,       \* echo references
  NoRef,      \* NULL
  FailureSets \* what may fail in a behaviour: sets of FailureKinds

\* Opening the PCMs of the primary output, of another output or of the input;
\* no card for the device of the input; creating an echo reference.
FailureKinds == {"primary", "direct", "input", "card", "create"}

ASSUME AudioAssumption == /\ Directs \subseteq {"hdmi", "esai"}
                          /\ NoRef \notin Refs
                          /\ FailureSets \subseteq SUBSET FailureKinds

Outputs == {"primary"} \cup Directs
Streams == Outputs \cup {"in"}
Mutexes == Streams \cup {"device"}

\* A playback thread has the name of its output.
Threads == Outputs \cup {"capture", "mode", "effects"}

VARIABLES
  lock,                 \* the thread that has each mutex
  mode,                 \* imx_audio_device::mode: "in_call" or "normal", any other
  in_call,
  out_device,           \* imx_audio_device::out_device
  device,               \* imx_stream_out::device of the primary output
  active_input,         \* imx_audio_device::active_input is not NULL
  standby,
  pcm,                  \* the hardware each stream has open
  echo_reference,       \* imx_audio_device::echo_reference, the only one not released
  echo,                 \* echo_reference of each stream
  need_echo_reference,
  source,               \* imx_stream_in::source: "voice" communication or "mic"
  pc,                   \* where each thread is
  closing,              \* the call of the capture thread closes the input
  force,                \* force_input_standby of the primary output's thread
  todo,                 \* outputs force_all_standby has left
  failures              \* what may fail

deviceVars == <<mode, in_call, out_device, device, todo>>
streamVars == <<active_input, standby, pcm>>
echoVars   == <<echo_reference, echo>>
inputVars  == <<need_echo_reference, source>>
vars == <<lock, deviceVars, streamVars, echoVars, inputVars, pc, closing, force, failures>>

Nobody == "nobody"

Init == /\ lock = [m \in Mutexes |-> Nobody]
        /\ mode = "normal"
        /\ in_call = FALSE
        /\ out_device = {"speaker"}
        /\ device = {"speaker"}
        /\ active_input = FALSE
        /\ standby = [s \in Streams |-> TRUE]
        /\ pcm = [s \in Streams |-> {}]
        /\ echo_reference = NoRef
        /\ echo = [s \in Streams |-> NoRef]
        /\ need_echo_reference = FALSE
        /\ source = "mic"
        /\ pc = [t \in Threads |-> "out"]
        /\ closing = FALSE
        /\ force = FALSE
        /\ todo = {}
        /\ failures \in FailureSets

-----------------------------------------------------------------------------
(* Threads and locks *)

goto(t, p) == pc' = [pc EXCEPT ![t] = p]

free(m) == lock[m] = Nobody

locks(t, m) == free(m) /\ lock' = [lock EXCEPT ![m] = t]

unlocks(t, ms) == lock' = [m \in Mutexes |-> IF m \in ms /\ lock[m] = t
                                             THEN Nobody ELSE lock[m]]

\* The stream a thread's calls are about.
streamOf(t) == IF t \in Outputs THEN t ELSE "in"

returns(t) == unlocks(t, {"device", streamOf(t)}) /\ goto(t, "out")

\* The framework makes a call. It does not change the effects of an input that
\* it closes.
call(t) ==
  /\ pc[t] = "out"
  /\ t = "effects" => ~closing
  /\ goto(t, "enter")
  /\ UNCHANGED <<lock, deviceVars, streamVars, echoVars, inputVars, closing, force, failures>>

afterLock(t) == IF pc[t] = "again" THEN "forced" ELSE IF t = "mode" THEN "select" ELSE "own"

\* Mutant: a writer whose stream is active leaves the device's lock alone.
lockDeviceToStart(t) ==
  /\ pc[t] \in {"enter", "again"}
  /\ IF t \in Outputs /\ ~standby[t] THEN UNCHANGED lock ELSE locks(t, "device")
  /\ goto(t, afterLock(t))
  /\ UNCHANGED <<deviceVars, streamVars, echoVars, inputVars, closing, force, failures>>

lockDevice(t) ==
  /\ pc[t] \in {"enter", "again"}
  /\ locks(t, "device")
  /\ goto(t, afterLock(t))
  /\ UNCHANGED <<deviceVars, streamVars, echoVars, inputVars, closing, force, failures>>

lockStream(t) ==
  /\ pc[t] = "own"
  /\ locks(t, streamOf(t))
  /\ goto(t, "body")
  /\ UNCHANGED <<deviceVars, streamVars, echoVars, inputVars, closing, force, failures>>

\* Mutant: as before the modes of the codec, streams start in a call.
alwaysStarts == TRUE

\* cavan_check_audio_mode: the codec belongs to the modem during a call.
mayStart == mode # "in_call"

\* A thread has both locks (which call it makes matters from here on) and writes to
\* or reads from a stream in standby.
starting(t) == pc[t] = "body" /\ standby[streamOf(t)] /\ mayStart

-----------------------------------------------------------------------------
(* Output streams *)

do_output_standby(o) ==
  IF standby[o] THEN UNCHANGED <<standby, pcm, echo>>
  ELSE /\ standby' = [standby EXCEPT ![o] = TRUE]
       /\ pcm' = [pcm EXCEPT ![o] = {}]
       /\ echo' = [echo EXCEPT ![o] = NoRef]

out_standby(o) ==
  /\ pc[o] = "body"
  /\ do_output_standby(o)
  /\ returns(o)
  /\ UNCHANGED <<deviceVars, active_input, echo_reference, inputVars, closing, force, failures>>

\* The hardware an output other than the primary one opens.
hardware(d) == IF d = "hdmi" THEN "hdmi" ELSE "normal"

\* What the primary output opens: not what another output uses.
wanted == {p \in {"normal", "hdmi"} :
             /\ IF p = "hdmi" THEN "hdmi" \in device ELSE device \ {"hdmi"} # {}
             /\ \A d \in Directs : hardware(d) = p => standby[d]}

\* The microphone may change with the output, and the canceller needs what is
\* played: an active voice input is to start again.
inputFollows == active_input /\ source = "voice"

\* Mutant: the input goes on without the reference.
startPrimaryAlone ==
  /\ starting("primary")
  /\ wanted # {}
  /\ pcm' = [pcm EXCEPT !["primary"] = @ \cup wanted]
  /\ standby' = [standby EXCEPT !["primary"] = FALSE]
  /\ echo' = [echo EXCEPT !["primary"] = IF echo_reference # NoRef THEN echo_reference ELSE @]
  /\ unlocks("primary", {"device"})
  /\ goto("primary", "io")
  /\ UNCHANGED <<deviceVars, active_input, echo_reference, inputVars, closing, force, failures>>

startPrimary ==
  /\ starting("primary")
  /\ wanted # {}
  /\ pcm' = [pcm EXCEPT !["primary"] = @ \cup wanted]
  /\ standby' = [standby EXCEPT !["primary"] = FALSE]
  /\ echo' = [echo EXCEPT !["primary"] = IF echo_reference # NoRef THEN echo_reference ELSE @]
  /\ force' = inputFollows
  /\ unlocks("primary", {"device"})
  /\ goto("primary", "io")
  /\ UNCHANGED <<deviceVars, active_input, echo_reference, inputVars, closing, failures>>

\* Nothing can be opened, or something fails: what was opened stays open.
startPrimaryFails ==
  /\ starting("primary")
  /\ \E opened \in SUBSET wanted :
       /\ wanted = {} \/ (opened # wanted /\ "primary" \in failures)
       /\ pcm' = [pcm EXCEPT !["primary"] = @ \cup opened]
  /\ returns("primary")
  /\ UNCHANGED <<deviceVars, active_input, standby, echoVars, inputVars, closing, force,
                 failures>>

\* An output that takes a whole device first puts the primary one in standby.
clearPrimary(d) ==
  /\ starting(d)
  /\ ~standby["primary"]
  /\ free("primary")
  /\ do_output_standby("primary")
  /\ UNCHANGED <<lock, deviceVars, active_input, echo_reference, inputVars, pc, closing,
                 force, failures>>

\* Mutant: it does not.
startDirectBeside(d) ==
  /\ starting(d)
  /\ pcm' = [pcm EXCEPT ![d] = {hardware(d)}]
  /\ standby' = [standby EXCEPT ![d] = FALSE]
  /\ unlocks(d, {"device"})
  /\ goto(d, "io")
  /\ UNCHANGED <<deviceVars, active_input, echoVars, inputVars, closing, force, failures>>

startDirect(d) ==
  /\ starting(d)
  /\ standby["primary"]
  /\ pcm' = [pcm EXCEPT ![d] = {hardware(d)}]
  /\ standby' = [standby EXCEPT ![d] = FALSE]
  /\ unlocks(d, {"device"})
  /\ goto(d, "io")
  /\ UNCHANGED <<deviceVars, active_input, echoVars, inputVars, closing, force, failures>>

startDirectFails(d) ==
  /\ starting(d)
  /\ standby["primary"]
  /\ "direct" \in failures
  /\ returns(d)
  /\ UNCHANGED <<deviceVars, streamVars, echoVars, inputVars, closing, force, failures>>

\* A write or a read of a stream that may not start.
refused(t) ==
  /\ t \in Outputs \cup {"capture"}
  /\ pc[t] = "body" /\ standby[streamOf(t)] /\ ~mayStart
  /\ returns(t)
  /\ UNCHANGED <<deviceVars, streamVars, echoVars, inputVars, closing, force, failures>>

\* ... of a stream that is active.
proceed(t) ==
  /\ t \in Outputs \cup {"capture"}
  /\ pc[t] = "body" /\ ~standby[streamOf(t)]
  /\ unlocks(t, {"device"})
  /\ goto(t, "io")
  /\ UNCHANGED <<deviceVars, streamVars, echoVars, inputVars, closing, force, failures>>

\* The PCM has taken or given the data.
endTransfer(t) ==
  /\ pc[t] = "io"
  /\ IF t = "primary" /\ force
     THEN unlocks(t, {streamOf(t)}) /\ goto(t, "again")
     ELSE returns(t)
  /\ UNCHANGED <<deviceVars, streamVars, echoVars, inputVars, closing, force, failures>>

\* Devices between which the primary output cannot move while it is active.
moves(val) == \/ \E d \in {"hdmi", "dock", "speaker"} : d \in val <=> d \notin out_device
              \/ out_device \cap {"hdmi", "dock"} # {}
              \/ mode = "in_call"

\* out_set_parameters with a route.
route(val) ==
  LET changes == val # out_device /\ val # {}
      stops   == changes /\ ~standby["primary"]
  IN
  /\ pc["primary"] = "body"
  /\ IF stops /\ moves(val) THEN do_output_standby("primary")
     ELSE UNCHANGED <<standby, pcm, echo>>
  /\ IF changes THEN out_device' = val /\ device' = val
     ELSE UNCHANGED <<out_device, device>>
  /\ IF stops /\ inputFollows
     THEN unlocks("primary", {"primary"}) /\ goto("primary", "forced")
     ELSE returns("primary")
  /\ UNCHANGED <<mode, in_call, todo, active_input, echo_reference, inputVars, closing,
                 force, failures>>

\* The primary output's thread puts the input in standby, if it is active still.
forceInput ==
  /\ pc["primary"] = "forced"
  /\ IF active_input
     THEN locks("primary", "in") /\ goto("primary", "instandby") /\ UNCHANGED force
     ELSE returns("primary") /\ force' = FALSE
  /\ UNCHANGED <<deviceVars, streamVars, echoVars, inputVars, closing, failures>>

-----------------------------------------------------------------------------
(* The input stream *)

\* Mutant: the reference is released while the output writes to it.
stillLinked == echo

\* remove_echo_reference: an active primary output stops writing to the reference,
unlinked == IF standby["primary"] THEN echo
            ELSE [echo EXCEPT !["primary"] = IF @ = echo_reference THEN NoRef ELSE @]

\* ... under its lock.
outputFree == standby["primary"] \/ free("primary")

do_input_standby ==
  IF standby["in"] THEN UNCHANGED <<streamVars, echoVars>>
  ELSE LET put == echo["in"] # NoRef /\ echo["in"] = echo_reference IN
       /\ put => outputFree
       /\ pcm' = [pcm EXCEPT !["in"] = {}]
       /\ active_input' = FALSE
       /\ standby' = [standby EXCEPT !["in"] = TRUE]
       /\ echo' = [(IF put THEN unlinked ELSE echo) EXCEPT !["in"] = NoRef]
       /\ echo_reference' = IF put THEN NoRef ELSE echo_reference

\* Whoever holds the locks of the device and of the input puts it in standby.
inputStandby(t) ==
  /\ pc[t] = "instandby"
  /\ do_input_standby
  /\ force' = IF t = "primary" THEN FALSE ELSE force
  /\ unlocks(t, IF t = "mode" THEN {"in"} ELSE {"in", "device"})
  /\ goto(t, IF t = "mode" THEN "finish"
             ELSE IF t = "capture" /\ closing THEN "close" ELSE "out")
  /\ UNCHANGED <<deviceVars, inputVars, closing, failures>>

\* in_standby, in_set_parameters with a device or with a source, and the first
\* half of adev_close_input_stream.
changeInput ==
  /\ pc["capture"] = "body"
  /\ \/ UNCHANGED <<source, closing>>
     \/ source' = (IF source = "mic" THEN "voice" ELSE "mic") /\ UNCHANGED closing
     \/ pc["effects"] = "out" /\ closing' = TRUE /\ UNCHANGED source
  /\ goto("capture", "instandby")
  /\ UNCHANGED <<lock, deviceVars, streamVars, echoVars, need_echo_reference, force, failures>>

\* in_add_audio_effect and in_remove_audio_effect of the echo canceller.
changeEffects ==
  /\ pc["effects"] = "body"
  /\ need_echo_reference' = ~need_echo_reference
  /\ goto("effects", "instandby")
  /\ UNCHANGED <<lock, deviceVars, streamVars, echoVars, source, closing, force, failures>>

\* adev_close_input_stream frees the stream; the next one opened is a new one.
closeInput ==
  /\ pc["capture"] = "close"
  /\ echo' = [echo EXCEPT !["in"] = NoRef]
  /\ need_echo_reference' = FALSE
  /\ source' = "mic"
  /\ closing' = FALSE
  /\ returns("capture")
  /\ UNCHANGED <<deviceVars, streamVars, echo_reference, force, failures>>

startInput ==
  /\ starting("capture")
  /\ active_input' = TRUE
  /\ \/ /\ goto("capture", IF need_echo_reference /\ echo["in"] = NoRef THEN "getecho"
                                                                       ELSE "open")
        /\ UNCHANGED lock
     \/ "card" \in failures /\ returns("capture")
  /\ UNCHANGED <<deviceVars, standby, pcm, echoVars, inputVars, closing, force, failures>>

\* get_echo_reference: the old reference, if any, is put,
putEcho ==
  /\ pc["capture"] = "getecho"
  /\ echo_reference # NoRef
  /\ outputFree
  /\ echo' = unlinked
  /\ echo_reference' = NoRef
  /\ UNCHANGED <<lock, deviceVars, streamVars, inputVars, pc, closing, force, failures>>

\* ... and a new one made if the primary output is active. (Its address is new
\* to every stream, so a reference that was released is told from it.)
createEcho ==
  /\ pc["capture"] = "getecho"
  /\ echo_reference = NoRef
  /\ \/ /\ standby["primary"] \/ "create" \in failures
        /\ UNCHANGED echoVars
     \/ /\ ~standby["primary"] /\ free("primary")
        /\ \E r \in Refs \ {echo[s] : s \in Streams} :
             /\ echo_reference' = r
             /\ echo' = [echo EXCEPT !["primary"] = r, !["in"] = r]
  /\ goto("capture", "open")
  /\ UNCHANGED <<lock, deviceVars, streamVars, inputVars, closing, force, failures>>

openInput ==
  /\ pc["capture"] = "open"
  /\ pcm' = [pcm EXCEPT !["in"] = {"microphone"}]
  /\ standby' = [standby EXCEPT !["in"] = FALSE]
  /\ unlocks("capture", {"device"})
  /\ goto("capture", "io")
  /\ UNCHANGED <<deviceVars, active_input, echoVars, inputVars, closing, force, failures>>

\* Mutant: the device keeps the input that did not start.
openInputLeft ==
  /\ pc["capture"] = "open"
  /\ "input" \in failures
  /\ returns("capture")
  /\ UNCHANGED <<deviceVars, streamVars, echoVars, inputVars, closing, force, failures>>

openInputFails ==
  /\ pc["capture"] = "open"
  /\ "input" \in failures
  /\ active_input' = FALSE
  /\ returns("capture")
  /\ UNCHANGED <<deviceVars, standby, pcm, echoVars, inputVars, closing, force, failures>>

-----------------------------------------------------------------------------
(* The audio mode *)

\* adev_set_mode and the start of select_mode: the streams stop at the start and
\* at the end of a call, not between other modes.
setMode(m) ==
  /\ pc["mode"] = "select"
  /\ mode' = m
  /\ IF m = mode \/ in_call = (m = "in_call")
     THEN returns("mode") /\ UNCHANGED <<in_call, todo>>
     ELSE /\ in_call' = FALSE
          /\ todo' = Outputs
          /\ goto("mode", "all")
          /\ UNCHANGED lock
  /\ UNCHANGED <<out_device, device, streamVars, echoVars, inputVars, closing, force, failures>>

\* The loop of force_all_standby: the primary output, HDMI, then ESAI.
next(o) == /\ o \in todo
           /\ o = "hdmi" => "primary" \notin todo
           /\ o = "esai" => todo = {"esai"}

forceOutput(o) ==
  /\ pc["mode"] = "all"
  /\ next(o)
  /\ free(o)
  /\ do_output_standby(o)
  /\ todo' = todo \ {o}
  /\ UNCHANGED <<lock, mode, in_call, out_device, device, active_input, echo_reference,
                 inputVars, pc, closing, force, failures>>

\* ... and the active input.
forceActiveInput ==
  /\ pc["mode"] = "all"
  /\ todo = {}
  /\ IF active_input THEN locks("mode", "in") /\ goto("mode", "instandby")
     ELSE goto("mode", "finish") /\ UNCHANGED lock
  /\ UNCHANGED <<deviceVars, streamVars, echoVars, inputVars, closing, force, failures>>

\* The rest of select_mode: a call starts on the earpiece.
modeSelected ==
  /\ pc["mode"] = "finish"
  /\ in_call' = (mode = "in_call")
  /\ out_device' = IF mode # "in_call" THEN out_device
                   ELSE IF out_device = {"speaker"} THEN {"earpiece"}
                   ELSE out_device \ {"speaker"}
  /\ returns("mode")
  /\ UNCHANGED <<mode, device, todo, streamVars, echoVars, inputVars, closing, force, failures>>

-----------------------------------------------------------------------------

\* What a thread does once it is in a call.
step(t) ==
  \/ lockDevice(t) \/ lockStream(t)
  \/ refused(t) \/ proceed(t) \/ endTransfer(t)
  \/ inputStandby(t)
  \/ t \in Outputs /\ out_standby(t)
  \/ t \in Directs /\ (clearPrimary(t) \/ startDirect(t) \/ startDirectFails(t))
  \/ /\ t = "primary"
     /\ \/ startPrimary \/ startPrimaryFails \/ forceInput
        \/ \E val \in Routes : route(val)
  \/ /\ t = "capture"
     /\ \/ changeInput \/ startInput \/ putEcho \/ createEcho \/ openInput \/ openInputFails
        \/ closeInput
  \/ t = "effects" /\ changeEffects
  \/ /\ t = "mode"
     /\ \/ forceActiveInput \/ modeSelected
        \/ \E m \in {"in_call", "normal"} : setMode(m)
        \/ \E o \in Outputs : forceOutput(o)

Next == \E t \in Threads : call(t) \/ step(t)

Spec == Init /\ [][Next]_vars

\* A thread in a call goes on when it can: the PCMs take and give data, and the
\* scheduler is preemptive.  A lock that others take and release is not owed to
\* anybody.  The framework need not call.
FairSpec == Spec /\ \A t \in Threads : WF_vars(step(t))

-----------------------------------------------------------------------------
(* Properties *)

Places == {"out", "enter", "own", "body", "io", "again", "forced", "instandby",
           "getecho", "open", "close", "select", "all", "finish"}

TypeOK == /\ lock \in [Mutexes -> Threads \cup {Nobody}]
          /\ mode \in {"normal", "in_call"}
          /\ {in_call, active_input, need_echo_reference, closing, force} \subseteq BOOLEAN
          /\ standby \in [Streams -> BOOLEAN]
          /\ pcm \in [Streams -> SUBSET {"normal", "hdmi", "microphone"}]
          /\ echo_reference \in Refs \cup {NoRef}
          /\ echo \in [Streams -> Refs \cup {NoRef}]
          /\ source \in {"mic", "voice"}
          /\ pc \in [Threads -> Places]
          /\ todo \subseteq Outputs
          /\ failures \in FailureSets

\* The primary output and one that takes a whole device never have the same
\* hardware open, whichever starts or restarts while the other plays. (One of two
\* PCMs that the primary output could not open leaves the other open.)
PortsExclusive == "primary" \notin failures => \A d \in Directs : pcm["primary"] \cap pcm[d] = {}

\* Nobody reads or writes an echo reference that was released, and an active
\* primary output writes to the one there is.
EchoShared == /\ echo["in"] \in {NoRef, echo_reference}
              /\ echo["primary"] = IF standby["primary"] THEN NoRef ELSE echo_reference

\* A voice input with an echo canceller and an active output has a reference, or
\* could not make one, or the playback thread that activated the output will
\* restart the input.
EchoFollows ==
  /\ need_echo_reference /\ source = "voice" /\ ~standby["in"] /\ ~standby["primary"]
  /\ echo["in"] = NoRef
  => "create" \in failures \/ force \/ \E t \in Threads : pc[t] = "instandby"

\* During a call every stream is in standby, also one that was about to start,
\* and has no PCM open.
StoppedInCall ==
  in_call => \A s \in Streams : standby[s] /\ ("primary" \notin failures => pcm[s] = {})

\* active_input is the stream that records: out_set_parameters and select_mode
\* take its lock without looking further. (No card for its device leaves it set.)
ActiveInputExact ==
  free("device") => /\ ~standby["in"] => active_input
                    /\ active_input => ~standby["in"] \/ "card" \in failures

\* Whoever has the device's lock gives it back: the locks are taken in one order
\* ("hw device > in stream > out stream", line 155), and no reader or writer can
\* keep its stream's lock from a thread that has the device's ("acquiring hw device
\* mutex systematically is useful", line 1263).
DeviceLockReleased == ~free("device") ~> free("device")

===============================================================================
