----------------------------- MODULE MgaSession ------------------------------
(***************************************************************************)
(* Transfer of assistance messages to a u-blox receiver: the session of    *)
(* libMga (ublox_gps/agnss/mga/libMga.cpp) as CAssistNowMga drives it      *)
(* (ublox_gps/agnss/AssistNowMga.cpp), over a serial line that loses and   *)
(* delays messages, to a receiver that may accept, refuse or not answer.   *)
(*                                                                         *)
(* The lock of the library and the request lock of CAgnss are held over a  *)
(* whole call, so a call is atomic except for the loop over the list of    *)
(* messages in mgaCheckForTimeOuts, which is taken one message at a time.  *)
(***************************************************************************)
EXTENDS Integers, Sequences, FiniteSets

CONSTANTS
  Flow,        \* MGA_FLOW_SIMPLE, which the client asks for, or MGA_FLOW_SMART
  Window,      \* messages that fit into the receiver's 1000 byte buffer
  Retries,     \* msgRetryCount
  MaxMsgs,     \* bound on the messages of a transfer
  MaxTransfers \* bound on the number of transfers

ASSUME MgaAssumption == /\ Flow \in {"SIMPLE", "SMART"}
                        /\ Window \in Nat \ {0}
                        /\ Retries \in Nat
                        /\ MaxMsgs \in Nat \ {0}
                        /\ MaxTransfers \in Nat

VARIABLES
  session,   \* s_sessionState
  msgs,      \* s_pMgaMsgList: the state of each message; <<>> is NULL
  tries,     \* retryCount of each message
  late,      \* messages waiting for an ACK longer than their timeOut
  last,      \* index of s_pLastMsgSent; 0 is NULL
  acks,      \* s_ackCount
  verdict,   \* _evt_handler_status
  result,    \* what the last transfer came to; "again" while it runs
  scan,      \* where mgaCheckForTimeOuts is in the list; 0 outside
  transfer,  \* the number of transfers started
  size,      \* messages of the current transfer
  clean,     \* nothing of an earlier transfer was on the line when it started
  down,      \* messages on the line to the receiver
  up,        \* answers on the line to the host
  stored,    \* messages of the current transfer the receiver accepted
  refused    \* messages of the current transfer the receiver refused

libVars    == <<session, msgs, tries, late, last, acks>>
clientVars == <<result, transfer, size, clean>>
rcvVars    == <<stored, refused>>
vars == <<libVars, verdict, scan, clientVars, down, up, rcvVars>>

\* FAILED is split by its reason: an answer of the receiver, or none.
MsgStates == {"TO_SEND", "WAITING_FOR_ACK", "RECEIVED", "NACKED", "GIVEN_UP"}
WaitingIn(list) == {i \in DOMAIN list : list[i] = "WAITING_FOR_ACK"}
AnsweredIn(list) == {i \in DOMAIN list : list[i] \in {"RECEIVED", "NACKED"}}
Waiting == WaitingIn(msgs)
Answered == AnsweredIn(msgs)

\* What the first burst of sendInitialMsgBatch, or the single message of
\* MGA_FLOW_SIMPLE, may contain.
Burst == IF Flow = "SMART" THEN Window ELSE 1

\* A message on the line.  Index 0 is the MGA-INI-TIME of an offline transfer,
\* which is not in the list.
OnLine(i, t) == [msg |-> i, transfer |-> t]

Init == /\ session = "IDLE"
        /\ msgs = <<>>
        /\ tries = <<>>
        /\ late = {}
        /\ last = 0
        /\ acks = 0
        /\ verdict = "again"
        /\ result = "none"
        /\ scan = 0
        /\ transfer = 0
        /\ size = 0
        /\ clean = TRUE
        /\ down = <<>>
        /\ up = <<>>
        /\ stored = {}
        /\ refused = {}

-----------------------------------------------------------------------------
(* libMga *)

sessionStop == /\ session' = "IDLE"
               /\ msgs' = <<>>
               /\ tries' = <<>>
               /\ late' = {}
               /\ last' = 0
               /\ acks' = 0

\* Mutant: the pointer is advanced twice.
nextToSendSkips == last + 2

\* The message s_pLastMsgSent is moved on to.
nextToSend == last + 1

\* sendNextMgaMessage, given the list as the caller leaves it.  The pointer
\* moves on also when the list is at its end.
sendNextMgaMessage(list) ==
  /\ last' = nextToSend
  /\ IF nextToSend \in DOMAIN list
     THEN /\ msgs' = [list EXCEPT ![nextToSend] = "WAITING_FOR_ACK"]
          /\ down' = Append(down, OnLine(nextToSend, transfer))
     ELSE /\ msgs' = list
          /\ UNCHANGED down

\* Mutant: the loop over the first burst ignores the size of the buffer.
firstBurstUnlimited(n) == n

\* The number of messages initiateMessageTransfer sends of a list of n.
firstBurst(n) == IF n < Burst THEN n ELSE Burst

\* mgaSessionStart, mgaSessionSendOnlineData or mgaSessionSendOfflineData, and
\* initiateMessageTransfer, after mgaSessionStop: n messages are in the list,
\* and ini are written ahead of it.
initiateMessageTransfer(n, ini) ==
  LET sent == firstBurst(n) IN
  /\ down' = down \o ini \o [i \in 1..sent |-> OnLine(i, transfer + 1)]
  /\ session' = "ACTIVE"
  /\ msgs' = [i \in 1..n |-> IF i <= sent THEN "WAITING_FOR_ACK" ELSE "TO_SEND"]
  /\ tries' = [i \in 1..n |-> 0]
  /\ late' = {}
  /\ last' = IF n < Burst THEN n + 1 ELSE sent
  /\ acks' = 0
  /\ verdict' = "again"

\* Mutant: an answer is counted whatever the state of its message.
findMsgBlockAny(i) == last # 0 /\ i \in DOMAIN msgs

\* An answer is for message i of the list (findMsgBlock).
findMsgBlock(i) == last # 0 /\ i \in Waiting

\* This answer is the one s_mgaBlockCount is waiting for.
lastAck == acks + 1 = Len(msgs)

\* Mutant: a NACK is taken for an ACK.
settledAsReceived(a) == "RECEIVED"

\* The state of a message that answer a is for.
settledAs(a) == IF a.ok THEN "RECEIVED" ELSE "NACKED"

\* handleMgaAckMsg for the answer a.
handleMgaAckMsg(a) ==
  IF findMsgBlock(a.msg)
  THEN LET list == [msgs EXCEPT ![a.msg] = settledAs(a)] IN
       IF lastAck
       THEN /\ sessionStop
            /\ verdict' = "success"
            /\ UNCHANGED down
       ELSE /\ acks' = acks + 1
            /\ late' = late \ {a.msg}
            /\ IF last <= Len(msgs)
               THEN sendNextMgaMessage(list)
               ELSE msgs' = list /\ UNCHANGED <<last, down>>
            /\ UNCHANGED <<session, tries, verdict>>
  ELSE UNCHANGED <<libVars, verdict, down>>

\* Message i, which is late, is sent once more.
mayResend(i) == tries[i] < Retries

\* Mutant: a message given up is not reported, so the client never learns.
reportFailureNot == "again"

\* evtProgHandler when a message failed with TOO_MANY_RETRIES.
reportFailure == "fail"

\* Mutant: the loop looks at every message, settled or not.
timedOutAny(i) == i \in DOMAIN msgs /\ i <= last /\ (i \in late \/ i \notin Waiting)

\* The loop of mgaCheckForTimeOuts has to act on message i.
timedOut(i) == i \in late

\* One round of the loop of mgaCheckForTimeOuts.
checkForTimeOut(i) ==
  IF ~timedOut(i)
  THEN UNCHANGED <<libVars, verdict, down>>
  ELSE /\ late' = late \ {i}
       /\ UNCHANGED <<session, acks>>
       /\ IF mayResend(i)
          THEN /\ tries' = [tries EXCEPT ![i] = @ + 1]
               /\ msgs' = [msgs EXCEPT ![i] = "WAITING_FOR_ACK"]
               /\ down' = Append(down, OnLine(i, transfer))
               /\ UNCHANGED <<last, verdict>>
          ELSE /\ sendNextMgaMessage([msgs EXCEPT ![i] = "GIVEN_UP"])
               /\ verdict' = reportFailure
               /\ UNCHANGED tries

-----------------------------------------------------------------------------
(* CAssistNowMga, called from CAgnss::stateCheck under its request lock *)

Running == result = "again" /\ scan = 0

\* A transfer is started: impl_initAction, initMga and initMgaTransfer.  A
\* session that is still active is stopped, which is not reported.
BeginTransfer(n) == /\ result # "again"
                    /\ transfer < MaxTransfers
                    /\ transfer' = transfer + 1
                    /\ size' = n
                    /\ clean' = (down = <<>> /\ up = <<>>)
                    /\ stored' = {}
                    /\ refused' = {}
                    /\ UNCHANGED <<scan, up>>

onlineTransfer(n) == /\ BeginTransfer(n)
                     /\ initiateMessageTransfer(n, <<>>)
                     /\ result' = "again"

offlineTransfer(n) == /\ BeginTransfer(n)
                      /\ initiateMessageTransfer(n, <<OnLine(0, transfer + 1)>>)
                      /\ result' = "again"

\* The first message is not MGA-INI-TIME, or today has no data: the session is
\* stopped before anything is sent.
transferRefused == /\ BeginTransfer(0)
                   /\ sessionStop
                   /\ verdict' = "again"
                   /\ result' = "fail"
                   /\ UNCHANGED down

\* continueMgaTransfer with an answer of the receiver...
receiverMessage == /\ Running
                   /\ up # <<>>
                   /\ up' = Tail(up)
                   /\ handleMgaAckMsg(Head(up))
                   /\ scan' = 1
                   /\ UNCHANGED <<clientVars, rcvVars>>

\* ... and from impl_timeout, every second.
timeoutMessage == /\ Running
                  /\ up = <<>>
                  /\ scan' = 1
                  /\ UNCHANGED <<libVars, verdict, clientVars, down, up, rcvVars>>

checkForTimeOuts == /\ scan \in DOMAIN msgs
                    /\ checkForTimeOut(scan)
                    /\ scan' = scan + 1
                    /\ UNCHANGED <<clientVars, up, rcvVars>>

\* Mutant: the transfer is reported as done when a message was answered.
transferResultEarly == IF Answered # {} THEN "success" ELSE verdict

\* What continueMgaTransfer returns.
transferResult == verdict

\* The end of the call: a transfer that succeeded or failed is reported.  The
\* session is left as it is.
continueReturns == /\ scan > Len(msgs)
                   /\ scan' = 0
                   /\ result' = transferResult
                   /\ UNCHANGED <<libVars, verdict, transfer, size, clean, down, up,
                                  rcvVars>>

\* clearActions: the action is dropped, the session stays active.
clearActions == /\ Running
                /\ result' = "cancelled"
                /\ UNCHANGED <<libVars, verdict, scan, transfer, size, clean, down, up,
                               rcvVars>>

\* An answer nobody waits for.
unwantedMessage == /\ result # "again"
                   /\ up # <<>>
                   /\ up' = Tail(up)
                   /\ UNCHANGED <<libVars, verdict, scan, clientVars, down, rcvVars>>

-----------------------------------------------------------------------------
(* Time, the line and the receiver *)

\* The messages of late1 have waited too long.  Messages are sent in the order
\* of the list, so the n-th transmission of one is not later than that of its
\* successors.
Tick(late1) == /\ late1 # late
               /\ late \subseteq late1
               /\ \A i \in late1, j \in Waiting :
                    j < i /\ tries[j] <= tries[i] => j \in late1
               /\ late' = late1
               /\ UNCHANGED <<session, msgs, tries, last, acks, verdict, scan,
                              clientVars, down, up, rcvVars>>

\* The receiver gets the oldest message on the line; it answers each one it
\* gets, but the answer may be lost.
Receiver(ok, answered) ==
  /\ down # <<>>
  /\ LET m == Head(down)
         mine == IF m.transfer = transfer THEN {m.msg} ELSE {} IN
     /\ stored' = IF ok THEN stored \cup mine ELSE stored
     /\ refused' = IF ok THEN refused ELSE refused \cup mine
     /\ up' = IF answered THEN Append(up, [msg |-> m.msg, ok |-> ok]) ELSE up
  /\ down' = Tail(down)
  /\ UNCHANGED <<libVars, verdict, scan, clientVars>>

LoseMessage == /\ down # <<>>
               /\ down' = Tail(down)
               /\ UNCHANGED <<libVars, verdict, scan, clientVars, up, rcvVars>>

Step == receiverMessage \/ timeoutMessage \/ checkForTimeOuts \/ continueReturns

Next == \/ \E n \in 1..MaxMsgs : onlineTransfer(n) \/ offlineTransfer(n)
        \/ transferRefused
        \/ Step
        \/ clearActions
        \/ unwantedMessage
        \/ \E late1 \in SUBSET Waiting : Tick(late1)
        \/ \E ok, answered \in BOOLEAN : Receiver(ok, answered)
        \/ LoseMessage

\* The thread of CAgnss keeps calling stateCheck, at the latest after a second
\* without a message, and time passes.  Nothing is assumed of the receiver.
Fairness == WF_vars(Step) /\ WF_vars(Waiting # {} /\ Tick(Waiting))

Spec == Init /\ [][Next]_vars /\ Fairness

-----------------------------------------------------------------------------
(* Properties *)

\* Types and ranges of the variables.
TypeOK == /\ session \in {"IDLE", "ACTIVE"}
          /\ msgs \in Seq(MsgStates)
          /\ tries \in Seq(0..Retries)
          /\ Len(tries) = Len(msgs)
          /\ late \subseteq Waiting
          /\ last \in Nat
          /\ acks \in Nat
          /\ verdict \in {"again", "success", "fail"}
          /\ result \in {"none", "again", "success", "fail", "cancelled"}
          /\ scan \in Nat
          /\ transfer \in Nat
          /\ size \in Nat
          /\ clean \in BOOLEAN
          /\ down \in Seq([msg : Nat, transfer : Nat])
          /\ up \in Seq([msg : Nat, ok : BOOLEAN])
          /\ stored \subseteq Nat
          /\ refused \subseteq Nat

\* libMga.h on MGA_FLOW_SIMPLE and MGA_FLOW_SMART: no more messages wait for an
\* answer than the first burst, however answers, timeouts and retries follow.
FlowControl == Cardinality(Waiting) <= Burst

\* Each answer is counted once and none is counted for nothing, so the count
\* of the session reaches the number of messages exactly when all are answered.
AckCountExact == acks = Cardinality(Answered) /\ (msgs # <<>> => acks < Len(msgs))

\* The messages sent are a prefix of the list.
SentInOrder == \A i \in DOMAIN msgs : msgs[i] = "TO_SEND" <=> i > last

\* A message is recorded as received or as refused only if the receiver got it
\* and said so, and a transfer is reported as successful only when the receiver
\* answered every message of it. (An answer names a message, not a transfer: one
\* that an earlier transfer left on the line is taken for an answer to this one.)
ReportsTrue ==
  clean => /\ \A i \in DOMAIN msgs : /\ msgs[i] = "RECEIVED" => i \in stored
                                     /\ msgs[i] = "NACKED" => i \in refused
           /\ result = "success" => 1..size \subseteq stored \cup refused

\* libMga.h on MGA_MSG_FAILED and MGA_MSG_RECEIVED: once a message is settled
\* the session does not write it again.
Written == SubSeq(down', Len(down) + 1, Len(down'))
SettledNotResent == [][transfer' = transfer =>
  \A k \in 1..Len(Written) : \/ Written[k].msg = 0
                             \/ msgs[Written[k].msg] \in {"TO_SEND", "WAITING_FOR_ACK"}]_vars

\* A transfer comes to an end whatever the line and the receiver do.
TransferEnds == result = "again" ~> result # "again"

=============================================================================
