----------------------------- MODULE AgnssActions ----------------------------
(***************************************************************************)
(* The list of actions of CAgnss (ublox_gps/agnss/Agnss.cpp), the functions *)
(* CAssistNowMga carries them out with (AssistNowMga.cpp) and the messages  *)
(* they send and wait for (helper/UbxMsg.cpp and the classes derived from   *)
(* it).  Messages of the receiver and timeouts of one second both call      *)
(* stateCheck, which passes them to the first function of the current       *)
(* action; the user schedules and clears actions from another thread.       *)
(*                                                                         *)
(* Downloads and the transfers of MgaSession are not among the actions.     *)
(***************************************************************************)
EXTENDS Integers, Sequences

CONSTANTS
  Requests,  \* requests the list holds (11 in the code)
  MaxMsg,    \* messages a CUbxMsg object looks at before it gives up (30)
  MaxTries,  \* _num_config_ack_max_send_tries (5)
  Items,     \* the aiding messages in the receiver's database
  MaxJobs    \* bound on the number of actions scheduled

ASSUME AgnssAssumption == /\ Requests \in Nat \ {0}
                          /\ MaxMsg \in Nat \ {0}
                          /\ MaxTries \in Nat \ {0}
                          /\ Items \in Nat \ {0}
                          /\ MaxJobs \in Nat

VARIABLES
  requests,  \* _req_action
  execList,  \* _exec_list
  msg,       \* the CUbxMsg objects
  tries,     \* _num_config_ack_send_tries
  polled,    \* the messages _ubx_poll_mga_dbd stored
  sending,   \* the messages _ubx_mga_dbd has still to send
  saved,     \* the receiver state in the database
  finished,  \* what func_transfer_finished is about to be called with
  running,   \* the job execList was loaded for
  jobs,      \* the number of actions scheduled
  down,      \* messages on the line to the receiver
  up,        \* messages on the line to the host
  rcv,       \* what the receiver accepted for each job
  late       \* something was on the line when an action failed or was cleared

objVars == <<msg, tries, polled, sending, saved>>
lineVars == <<down, up, rcv>>
listVars == <<requests, execList, finished, running>>
vars == <<listVars, objVars, jobs, lineVars, late>>

Actions == {"TIME", "POSITION", "POLL_RECV", "RECV_AID_STATE"}
Objects == {"NAVX5", "INI_TIME", "INI_POS", "DBD", "POLL"}
NoJob == [action |-> "none", n |-> 0]

\* _fun_lookup, which the constructor of CAssistNowMga fills.
functions(action) ==
  CASE action = "TIME"           -> <<"configureAidAck", "timeTransfer", "finishTimeTransfer">>
    [] action = "POSITION"       -> <<"configureAidAck", "timeTransfer", "posTransfer">>
    [] action = "RECV_AID_STATE" -> <<"configureAidAck", "timeTransfer", "recvStateTransfer">>
    [] action = "POLL_RECV"      -> <<"recvStatePoll">>
    [] OTHER                     -> <<>>

functionsOf(action) == {functions(action)[i] : i \in DOMAIN functions(action)}

\* The class and id an MGA-ACK or ACK-ACK names, by the message it is for.
ackOf(o) == CASE o = "NAVX5" -> "CFG"
              [] o \in {"INI_TIME", "INI_POS"} -> "INI"
              [] OTHER -> "DBD"

\* A CUbxMsg after clearData; only the poll is ready to send by default.  The
\* time or position in it is the one of the job number from.
cleared(o) == [sent |-> FALSE, ready |-> o = "POLL", count |-> 0, from |-> 0]

\* A timeout, or a message that no function waits for.
Nothing == [is |-> "nothing", ok |-> FALSE, n |-> 0]

Init == /\ requests = <<>>
        /\ execList = <<>>
        /\ msg = [o \in Objects |-> cleared(o)]
        /\ tries = 0
        /\ polled = <<>>
        /\ sending = <<>>
        /\ saved = <<>>
        /\ finished = <<>>
        /\ running = NoJob
        /\ jobs = 0
        /\ down = <<>>
        /\ up = <<>>
        /\ rcv = {}
        /\ late = FALSE

-----------------------------------------------------------------------------
(* The user's side *)

scheduleAction(action) ==
  /\ jobs < MaxJobs
  /\ jobs' = jobs + 1
  /\ requests' = IF Len(requests) < Requests
                 THEN Append(requests, [action |-> action, n |-> jobs + 1])
                 ELSE requests
  /\ UNCHANGED <<execList, objVars, finished, running, lineVars, late>>

\* Mutant: the functions of the current action stay in the list.
resetStateHalf == UNCHANGED execList

\* What resetState does to the functions.
resetState == execList' = <<>>

lineIdle == down = <<>> /\ up = <<>>

clearActions == /\ requests # <<>>
                /\ requests' = <<>>
                /\ resetState
                /\ late' = (late \/ ~lineIdle)
                /\ UNCHANGED <<objVars, finished, running, jobs, lineVars>>

-----------------------------------------------------------------------------
(* One message object, as it is when stateCheck calls the first function   *)
(* of the list: impl_initAction has cleared some when an action starts.     *)

starting == execList = <<>>
job == IF starting THEN Head(requests) ELSE running

\* The objects impl_initAction clears.
cleanObjects == {"INI_TIME", "DBD", "POLL"}

object(o) == IF starting /\ o \in cleanObjects THEN cleared(o) ELSE msg[o]
noObject == msg' = [p \in Objects |-> object(p)]
setObject(o, value) == msg' = [p \in Objects |-> IF p = o THEN value ELSE object(p)]
polledNow == IF starting THEN <<>> ELSE polled
sendingNow == IF starting THEN <<>> ELSE sending
nothingSent == UNCHANGED down
write(o, payload) == down' = Append(down, [msg |-> o, n |-> payload, job |-> job.n])

\* The setter of the object, and sendData, which writes if the line takes it.
sendData(o, ok, payload) ==
  /\ setObject(o, [sent |-> ok, ready |-> TRUE, count |-> 0, from |-> payload])
  /\ IF ok THEN write(o, payload) ELSE nothingSent

\* Mutant: timeouts are not counted.
countMsgNot(o, b) == IF b = Nothing THEN object(o).count ELSE object(o).count + 1

\* _countMsg after onNewMsg looked at b.
countMsg(o, b) == object(o).count + 1

tooMany(o, b) == countMsg(o, b) > MaxMsg

\* Mutant: an answer that says no is taken for one that says yes.
isExpectedAnswerAny(o, b) == b.is = ackOf(o)

\* impl_isExpectedAnswer of the objects that wait for one answer: a negative
\* one is passed over.
isExpectedAnswer(o, b) == b.is = ackOf(o) /\ b.ok

\* onNewMsg of an object that has sent, with the message b and its result.
onNewMsg(o, b, result) ==
  /\ result = CASE tooMany(o, b) -> "fail"
                [] ~tooMany(o, b) /\ isExpectedAnswer(o, b) -> "success"
                [] OTHER -> "again"
  /\ setObject(o, IF result = "again" THEN [object(o) EXCEPT !.count = countMsg(o, b)]
                                      ELSE cleared(o))

-----------------------------------------------------------------------------
(* The functions of CAssistNowMga, with the message b; have says whether    *)
(* time or position are at hand, ok whether the line takes what is written.  *)

Results == {"success", "fail", "again"}

\* No further try to configure the receiver is made.
lastTry == tries >= MaxTries

configureAidAck(b, ok, result) ==
  /\ polled' = polledNow /\ sending' = sendingNow /\ UNCHANGED saved
  /\ LET retry == tooMany("NAVX5", b) /\ ~lastTry IN
     \/ /\ object("NAVX5").sent /\ ~retry
        /\ onNewMsg("NAVX5", b, result)
        /\ tries' = IF result = "again" THEN tries ELSE 0
        /\ nothingSent
     \/ /\ object("NAVX5").sent => retry
        /\ sendData("NAVX5", ok, 0)
        /\ tries' = IF ok THEN tries + 1 ELSE 0
        /\ result = IF ok THEN "again" ELSE "fail"

\* timeTransfer and posTransfer.  Of an object that is ready but has not sent,
\* because the line did not take it, onNewMsg makes the next attempt.
transferIni(o, b, have, ok, result) ==
  /\ polled' = polledNow /\ sending' = sendingNow /\ UNCHANGED <<tries, saved>>
  /\ \/ /\ ~object(o).ready
        /\ IF have THEN sendData(o, ok, job.n) ELSE noObject /\ nothingSent
        /\ result = IF have /\ ok THEN "again" ELSE "fail"
     \/ /\ object(o).ready /\ object(o).sent
        /\ onNewMsg(o, b, result)
        /\ nothingSent
     \/ /\ object(o).ready /\ ~object(o).sent
        /\ IF ok
           THEN /\ setObject(o, [object(o) EXCEPT !.sent = TRUE, !.count = 1])
                /\ write(o, object(o).from)
                /\ result = "again"
           ELSE setObject(o, cleared(o)) /\ nothingSent /\ result = "fail"

\* recvStateTransfer: the saved messages are sent one after the other, each
\* when the one before was answered, in whatever way.
recvStateTransfer(b, ok, result) ==
  /\ polled' = polledNow /\ UNCHANGED <<tries, saved>>
  /\ \/ /\ ~object("DBD").sent
        /\ sending' = saved
        /\ sendData("DBD", ok, Head(saved))
        /\ result = IF ok THEN "again" ELSE "fail"
     \/ /\ object("DBD").sent
        /\ b.is # "DBD" \/ tooMany("DBD", b)
        /\ onNewMsg("DBD", b, result)
        /\ sending' = IF result = "again" THEN sending ELSE <<>>
        /\ nothingSent
     \/ /\ object("DBD").sent /\ b.is = "DBD" /\ ~tooMany("DBD", b)
        /\ sending' = Tail(sending)
        /\ IF Len(sending) > 1
           THEN /\ setObject("DBD", [object("DBD") EXCEPT !.count = 0])
                /\ result = "again"
                /\ IF ok THEN write("DBD", sending[2]) ELSE nothingSent
           ELSE /\ setObject("DBD", cleared("DBD"))
                /\ result = "success"
                /\ nothingSent

\* The receiver sent as many messages as it says.
allPolled(b) == b.ok /\ b.n = Len(polled)

\* recvStatePoll.  The object is not cleared before the next action.
recvStatePoll(b, ok, result) ==
  LET counted == setObject("POLL", [object("POLL") EXCEPT !.count = countMsg("POLL", b)]) IN
  /\ sending' = sendingNow /\ UNCHANGED tries
  /\ \/ /\ ~object("POLL").sent
        /\ sendData("POLL", ok, 0)
        /\ result = IF ok THEN "again" ELSE "fail"
        /\ polled' = polledNow /\ UNCHANGED saved
     \/ /\ object("POLL").sent /\ ~tooMany("POLL", b) /\ b.is = "DATA"
        /\ polled' = Append(polled, b.n)
        /\ setObject("POLL", [object("POLL") EXCEPT !.count = 0])
        /\ result = "again"
        /\ nothingSent /\ UNCHANGED saved
     \/ /\ object("POLL").sent /\ ~tooMany("POLL", b) /\ b.is = "DBD"
        /\ counted
        /\ IF allPolled(b) /\ polled # <<>>
           THEN saved' = polled /\ result = "success"
           ELSE UNCHANGED saved /\ result = "fail"
        /\ nothingSent /\ UNCHANGED polled
     \/ /\ object("POLL").sent
        /\ tooMany("POLL", b) \/ b.is \notin {"DATA", "DBD"}
        /\ counted
        /\ result = IF tooMany("POLL", b) THEN "fail" ELSE "again"
        /\ nothingSent /\ UNCHANGED <<polled, saved>>

finishTimeTransfer(result) == /\ result = "success"
                              /\ UNCHANGED objVars
                              /\ nothingSent

-----------------------------------------------------------------------------
(* stateCheck *)

passData(f, b, have, ok, result) ==
  CASE f = "configureAidAck"    -> configureAidAck(b, ok, result)
    [] f = "timeTransfer"       -> transferIni("INI_TIME", b, have, ok, result)
    [] f = "posTransfer"        -> transferIni("INI_POS", b, have, ok, result)
    [] f = "recvStateTransfer"  -> recvStateTransfer(b, ok, result)
    [] f = "recvStatePoll"      -> recvStatePoll(b, ok, result)
    [] f = "finishTimeTransfer" -> finishTimeTransfer(result)

\* The action at the front is done; its end will be reported.
finish(success) ==
  /\ requests' = Tail(requests)
  /\ finished' = <<[job |-> Head(requests), success |-> success]>>

\* A transfer needs data: impl_initAction returns no functions.
noFunctions == starting /\ job.action = "RECV_AID_STATE" /\ saved = <<>>

initFails == /\ noFunctions
             /\ finish(FALSE)
             /\ noObject
             /\ polled' = polledNow /\ sending' = sendingNow
             /\ nothingSent
             /\ UNCHANGED <<execList, tries, saved>>

\* The first function of the list, which may just have been loaded, gets b.
callFunction(b, have, ok) ==
  LET list == IF starting THEN functions(job.action) ELSE execList IN
  /\ ~noFunctions
  /\ \E result \in Results :
       /\ passData(Head(list), b, have, ok, result)
       /\ execList' = CASE result = "success" -> Tail(list)
                        [] result = "fail" -> <<>>
                        [] OTHER -> list
       /\ IF execList' = <<>> THEN finish(result = "success")
                              ELSE UNCHANGED <<requests, finished>>

failed(report) == report # <<>> /\ ~report[1].success

stateCheck(b, have, ok) == /\ finished = <<>>
                           /\ requests # <<>>
                           /\ initFails \/ callFunction(b, have, ok)
                           /\ running' = job
                           /\ late' = (late \/ (failed(finished') /\ ~lineIdle'))
                           /\ UNCHANGED <<jobs, rcv>>

\* A second passes, or a message of another kind arrives.
timeout(have, ok) == /\ UNCHANGED up
                     /\ stateCheck(Nothing, have, ok)

processMsg(have, ok) == /\ up # <<>>
                        /\ up' = Tail(up)
                        /\ stateCheck(Head(up), have, ok)

\* No action waits for the message.
unwantedMessage == /\ up # <<>>
                   /\ up' = Tail(up)
                   /\ requests = <<>> /\ finished = <<>>
                   /\ UNCHANGED <<listVars, objVars, jobs, down, rcv, late>>

\* The call of func_transfer_finished, after the lock was released.
transferFinished == /\ finished # <<>>
                    /\ finished' = <<>>
                    /\ UNCHANGED <<requests, execList, objVars, running, jobs, lineVars, late>>

-----------------------------------------------------------------------------
(* The line and the receiver *)

\* The receiver gets a message and answers, positively or not; a poll is
\* answered with all of its database and the number of messages in it.
Receiver(ok) ==
  /\ down # <<>>
  /\ down' = Tail(down)
  /\ LET m == Head(down)
         ack == [is |-> ackOf(m.msg), ok |-> ok, n |-> Items] IN
     /\ up' = up \o (IF m.msg = "POLL" THEN [i \in 1..Items |-> [is |-> "DATA", ok |-> TRUE, n |-> i]]
                                       ELSE <<>>) \o <<ack>>
     /\ rcv' = IF ok THEN rcv \cup {[msg |-> m.msg, n |-> m.n, job |-> m.job]} ELSE rcv
  /\ UNCHANGED <<listVars, objVars, jobs, late>>

Lose == /\ \/ down # <<>> /\ down' = Tail(down) /\ UNCHANGED up
           \/ up # <<>> /\ up' = Tail(up) /\ UNCHANGED down
        /\ UNCHANGED <<listVars, objVars, jobs, rcv, late>>

Thread == \/ \E have, ok \in BOOLEAN : timeout(have, ok) \/ processMsg(have, ok)
          \/ unwantedMessage
          \/ transferFinished

Next == \/ \E action \in Actions : scheduleAction(action)
        \/ clearActions
        \/ Thread
        \/ \E ok \in BOOLEAN : Receiver(ok)
        \/ Lose

\* CComThread calls back at least once a second, and what is on the line
\* arrives or is lost.
Fairness == WF_vars(Thread) /\ WF_vars(Lose \/ \E ok \in BOOLEAN : Receiver(ok))

Spec == Init /\ [][Next]_vars /\ Fairness

-----------------------------------------------------------------------------
(* Properties *)

\* Types and ranges of the variables.
TypeOK == /\ requests \in Seq([action : Actions, n : 1..MaxJobs])
          /\ Len(requests) <= Requests
          /\ msg \in [Objects -> [sent : BOOLEAN, ready : BOOLEAN, count : 0..MaxMsg + 1,
                                  from : 0..MaxJobs + Items]]
          /\ tries \in 0..MaxTries
          /\ \A i \in DOMAIN polled : polled[i] \in 1..Items
          /\ Len(finished) <= 1
          /\ jobs \in 0..MaxJobs
          /\ late \in BOOLEAN

\* The functions being carried out are those of the request at the front, also
\* when requests are added and cleared in between, and it is this request
\* whose end is reported.
CurrentIsFront == /\ execList # <<>> => /\ requests # <<>>
                                        /\ Head(requests) = running
                                        /\ \A i \in DOMAIN execList :
                                             execList[i] \in functionsOf(running.action)
                  /\ finished # <<>> => finished[1].job = running

\* AssistNowMga.cpp on timeTransfer, posTransfer and recvStatePoll: "SUCCESS if
\* the transfer completed successfully".  As long as no answer came too late,
\* the receiver accepted this action's time and, in this action, a position, and
\* a poll saved the whole database of the receiver, in order.
Accepted(o) == \E m \in rcv : m.msg = o /\ m.job = running.n
SuccessAccepted ==
  finished # <<>> /\ finished[1].success /\ ~late =>
    CASE running.action = "POSITION"  -> Accepted("INI_TIME") /\ Accepted("INI_POS")
      [] running.action = "POLL_RECV" -> saved = [i \in 1..Items |-> i]
      [] OTHER                        -> Accepted("INI_TIME")

\* Every action that is scheduled comes to an end or is cleared.
Scheduled(n) == \E i \in DOMAIN requests : requests[i].n = n
ActionEnds == \A n \in 1..MaxJobs : Scheduled(n) ~> ~Scheduled(n)

=============================================================================
