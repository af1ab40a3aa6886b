--------------------------- MODULE MgaSessionProofs ---------------------------
(***************************************************************************)
(* Proofs about MgaSession, for any first burst, any number of retries,    *)
(* messages and transfers.                                                 *)
(***************************************************************************)
EXTENDS MgaSession, FiniteSetTheorems, SequenceTheorems, TLAPS

\* A list of messages with one of them in another state.
LEMMA SetState ==
  ASSUME NEW list \in Seq(MsgStates), NEW i \in DOMAIN list, NEW v \in MsgStates
  PROVE  /\ [list EXCEPT ![i] = v] \in Seq(MsgStates)
         /\ Len([list EXCEPT ![i] = v]) = Len(list)
         /\ DOMAIN [list EXCEPT ![i] = v] = DOMAIN list
         /\ DOMAIN list = 1..Len(list)
<1>1. DOMAIN list = 1..Len(list)
  BY LenProperties
<1>2. i \in 1..Len(list)
  BY <1>1
<1>3. /\ [list EXCEPT ![i] = v] \in Seq(MsgStates)
      /\ Len([list EXCEPT ![i] = v]) = Len(list)
  BY <1>2, ExceptSeq
<1>4. DOMAIN [list EXCEPT ![i] = v] = DOMAIN list
  OBVIOUS
<1> QED
  BY <1>1, <1>3, <1>4

\* The sets of messages a list has are finite.
LEMMA ListFinite ==
  ASSUME NEW list \in Seq(MsgStates)
  PROVE  /\ IsFiniteSet(WaitingIn(list))
         /\ IsFiniteSet(AnsweredIn(list))
         /\ Cardinality(WaitingIn(list)) \in Nat
         /\ Cardinality(AnsweredIn(list)) \in Nat
         /\ Cardinality(AnsweredIn(list)) <= Len(list)
<1>0. Len(list) \in Nat
  BY LenProperties
<1>1. IsFiniteSet(1..Len(list)) /\ Cardinality(1..Len(list)) = Len(list)
  BY <1>0, FS_Interval
<1>2. WaitingIn(list) \in SUBSET (1..Len(list)) /\ AnsweredIn(list) \in SUBSET (1..Len(list))
  BY LenProperties DEF WaitingIn, AnsweredIn
<1>3. /\ IsFiniteSet(WaitingIn(list))
      /\ IsFiniteSet(AnsweredIn(list))
      /\ Cardinality(AnsweredIn(list)) <= Cardinality(1..Len(list))
  BY <1>1, <1>2, FS_Subset
<1> QED
  BY <1>1, <1>3, FS_CardinalityType

\* A message that waits is answered: one less waits, one more is answered.
LEMMA SettleCounts ==
  ASSUME NEW list \in Seq(MsgStates), NEW i \in WaitingIn(list),
         NEW v \in {"RECEIVED", "NACKED"}
  PROVE  LET t == [list EXCEPT ![i] = v] IN
         /\ Cardinality(WaitingIn(t)) = Cardinality(WaitingIn(list)) - 1
         /\ Cardinality(AnsweredIn(t)) = Cardinality(AnsweredIn(list)) + 1
<1> DEFINE t == [list EXCEPT ![i] = v]
<1>1. WaitingIn(t) = WaitingIn(list) \ {i}
  BY DEF WaitingIn
<1>2. AnsweredIn(t) = AnsweredIn(list) \cup {i} /\ i \notin AnsweredIn(list)
  BY DEF AnsweredIn, WaitingIn
<1>3. IsFiniteSet(WaitingIn(list)) /\ IsFiniteSet(AnsweredIn(list))
  BY ListFinite
<1> QED
  BY <1>1, <1>2, <1>3, FS_AddElement, FS_RemoveElement

\* A message that waits is given up: one less waits.
LEMMA GiveUpCounts ==
  ASSUME NEW list \in Seq(MsgStates), NEW i \in WaitingIn(list)
  PROVE  LET t == [list EXCEPT ![i] = "GIVEN_UP"] IN
         /\ Cardinality(WaitingIn(t)) = Cardinality(WaitingIn(list)) - 1
         /\ AnsweredIn(t) = AnsweredIn(list)
<1> DEFINE t == [list EXCEPT ![i] = "GIVEN_UP"]
<1>1. WaitingIn(t) = WaitingIn(list) \ {i} /\ AnsweredIn(t) = AnsweredIn(list)
  BY DEF WaitingIn, AnsweredIn
<1>2. IsFiniteSet(WaitingIn(list))
  BY ListFinite
<1> QED
  BY <1>1, <1>2, FS_RemoveElement

\* A message is sent for the first time: one more waits.
LEMMA SendCounts ==
  ASSUME NEW list \in Seq(MsgStates), NEW i \in DOMAIN list, list[i] = "TO_SEND"
  PROVE  LET t == [list EXCEPT ![i] = "WAITING_FOR_ACK"] IN
         /\ Cardinality(WaitingIn(t)) = Cardinality(WaitingIn(list)) + 1
         /\ AnsweredIn(t) = AnsweredIn(list)
<1> DEFINE t == [list EXCEPT ![i] = "WAITING_FOR_ACK"]
<1>1. /\ WaitingIn(t) = WaitingIn(list) \cup {i}
      /\ i \notin WaitingIn(list)
      /\ AnsweredIn(t) = AnsweredIn(list)
  BY DEF WaitingIn, AnsweredIn
<1>2. IsFiniteSet(WaitingIn(list))
  BY ListFinite
<1> QED
  BY <1>1, <1>2, FS_AddElement

\* What sendNextMgaMessage does to a list whose sent messages are a prefix.
LEMMA SendNext ==
  ASSUME NEW list \in Seq(MsgStates), last \in Nat,
         \A i \in DOMAIN list : list[i] = "TO_SEND" <=> i > last,
         sendNextMgaMessage(list)
  PROVE  /\ msgs' \in Seq(MsgStates)
         /\ Len(msgs') = Len(list)
         /\ last' \in Nat
         /\ WaitingIn(list) \subseteq WaitingIn(msgs')
         /\ \A i \in DOMAIN msgs' : msgs'[i] = "TO_SEND" <=> i > last'
         /\ Cardinality(WaitingIn(msgs')) <= Cardinality(WaitingIn(list)) + 1
         /\ AnsweredIn(msgs') = AnsweredIn(list)
<1>1. last' = last + 1
  BY DEF sendNextMgaMessage, nextToSend
<1>2. CASE last + 1 \in DOMAIN list
  <2>1. msgs' = [list EXCEPT ![last + 1] = "WAITING_FOR_ACK"]
    BY <1>2 DEF sendNextMgaMessage, nextToSend
  <2>2. list[last + 1] = "TO_SEND"
    BY <1>2
  <2>3. /\ Cardinality(WaitingIn(msgs')) = Cardinality(WaitingIn(list)) + 1
        /\ AnsweredIn(msgs') = AnsweredIn(list)
    BY <1>2, <2>1, <2>2, SendCounts
  <2>4. /\ msgs' \in Seq(MsgStates)
        /\ Len(msgs') = Len(list)
        /\ DOMAIN msgs' = DOMAIN list
    BY <1>2, <2>1, SetState DEF MsgStates
  <2>5. \A i \in DOMAIN msgs' : msgs'[i] = "TO_SEND" <=> i > last'
    BY <1>1, <1>2, <2>1, <2>4
  <2>6. WaitingIn(list) \subseteq WaitingIn(msgs')
    BY <1>2, <2>1 DEF WaitingIn
  <2>7. Cardinality(WaitingIn(list)) \in Nat
    BY ListFinite
  <2> QED
    BY <1>1, <2>3, <2>4, <2>5, <2>6, <2>7
<1>3. CASE last + 1 \notin DOMAIN list
  <2>1. msgs' = list
    BY <1>3 DEF sendNextMgaMessage, nextToSend
  <2>2. \A i \in DOMAIN msgs' : msgs'[i] = "TO_SEND" <=> i > last'
    BY <1>1, <1>3, <2>1
  <2>3. Cardinality(WaitingIn(list)) \in Nat
    BY ListFinite
  <2> QED
    BY <1>1, <2>1, <2>2, <2>3
<1> QED
  BY <1>2, <1>3

-----------------------------------------------------------------------------
(* The inductive invariant *)

ListType == /\ msgs \in Seq(MsgStates)
            /\ last \in Nat
            /\ acks \in Nat
            /\ late \subseteq Waiting

ListInv == ListType /\ SentInOrder /\ FlowControl /\ AckCountExact

\* What a step may do to the list of messages: it is freed, built, an answer
\* or a timeout settles a message, or a message is sent again.
listVars == <<msgs, last, acks, late>>
Freed == msgs' = <<>> /\ late' = {} /\ last' = 0 /\ acks' = 0
Built == \E n \in 1..MaxMsgs :
  /\ msgs' = [i \in 1..n |-> IF i <= firstBurst(n) THEN "WAITING_FOR_ACK" ELSE "TO_SEND"]
  /\ late' = {}
  /\ last' = IF n < Burst THEN n + 1 ELSE firstBurst(n)
  /\ acks' = 0
Sends(list) == \/ sendNextMgaMessage(list)
               \/ msgs' = list /\ UNCHANGED last
Settles == \E i \in Waiting, v \in {"RECEIVED", "NACKED"} :
  /\ acks + 1 # Len(msgs)
  /\ acks' = acks + 1
  /\ late' = late \ {i}
  /\ Sends([msgs EXCEPT ![i] = v])
GivesUp == \E i \in late :
  /\ late' = late \ {i}
  /\ UNCHANGED acks
  /\ sendNextMgaMessage([msgs EXCEPT ![i] = "GIVEN_UP"])
Resends == \E i \in late :
  /\ late' = late \ {i}
  /\ UNCHANGED <<acks, last>>
  /\ msgs' = [msgs EXCEPT ![i] = "WAITING_FOR_ACK"]
Waits == /\ late' \subseteq Waiting
         /\ UNCHANGED <<msgs, last, acks>>

ListStep == UNCHANGED listVars \/ Freed \/ Built \/ Settles \/ GivesUp \/ Resends \/ Waits

\* Every step does one of a few things to the list.
LEMMA ListSteps == ASSUME [Next]_vars PROVE ListStep
<1> USE DEF ListStep, listVars
<1>1. ASSUME NEW n \in 1..MaxMsgs, onlineTransfer(n) \/ offlineTransfer(n)
      PROVE  Built
  BY <1>1 DEF onlineTransfer, offlineTransfer, initiateMessageTransfer, Built
<1>2. CASE transferRefused
  BY <1>2 DEF transferRefused, sessionStop, Freed
<1>3. CASE receiverMessage
  <2>1. up # <<>> /\ handleMgaAckMsg(Head(up))
    BY <1>3 DEF receiverMessage
  <2> DEFINE a == Head(up)
  <2>2. CASE findMsgBlock(a.msg) /\ lastAck
    BY <2>1, <2>2 DEF handleMgaAckMsg, sessionStop, Freed
  <2>3. CASE findMsgBlock(a.msg) /\ ~lastAck
    <3>1. settledAs(a) \in {"RECEIVED", "NACKED"}
      BY DEF settledAs
    <3>2. a.msg \in Waiting
      BY <2>3 DEF findMsgBlock
    <3>3. /\ acks + 1 # Len(msgs)
          /\ acks' = acks + 1
          /\ late' = late \ {a.msg}
          /\ Sends([msgs EXCEPT ![a.msg] = settledAs(a)])
      BY <2>1, <2>3 DEF handleMgaAckMsg, lastAck, Sends
    <3> QED
      BY <3>1, <3>2, <3>3 DEF Settles
  <2>4. CASE ~findMsgBlock(a.msg)
    BY <2>1, <2>4 DEF handleMgaAckMsg, libVars
  <2> QED
    BY <2>2, <2>3, <2>4
<1>4. CASE timeoutMessage \/ continueReturns \/ clearActions \/ unwantedMessage \/ LoseMessage
  BY <1>4 DEF timeoutMessage, continueReturns, clearActions, unwantedMessage,
              LoseMessage, libVars
<1>5. CASE checkForTimeOuts
  <2>1. checkForTimeOut(scan)
    BY <1>5 DEF checkForTimeOuts
  <2>2. CASE ~timedOut(scan)
    BY <2>1, <2>2 DEF checkForTimeOut, libVars
  <2>3. CASE timedOut(scan) /\ mayResend(scan)
    BY <2>1, <2>3 DEF checkForTimeOut, timedOut, Resends
  <2>4. CASE timedOut(scan) /\ ~mayResend(scan)
    BY <2>1, <2>4 DEF checkForTimeOut, timedOut, GivesUp
  <2> QED
    BY <2>2, <2>3, <2>4
<1>6. ASSUME NEW late1 \in SUBSET Waiting, Tick(late1) PROVE Waits
  BY <1>6 DEF Tick, Waits
<1>7. ASSUME NEW ok, NEW answered, Receiver(ok, answered) PROVE UNCHANGED listVars
  BY <1>7 DEF Receiver, libVars
<1>8. CASE UNCHANGED vars
  BY <1>8 DEF vars, libVars
<1> QED
  BY <1>1, <1>2, <1>3, <1>4, <1>5, <1>6, <1>7, <1>8 DEF Next, Step

\* A list built afresh.
LEMMA BuiltList ==
  ASSUME NEW n \in 1..MaxMsgs,
         msgs' = [i \in 1..n |-> IF i <= firstBurst(n) THEN "WAITING_FOR_ACK" ELSE "TO_SEND"]
  PROVE  /\ msgs' \in Seq(MsgStates)
         /\ Len(msgs') = n
         /\ n \in Nat \ {0}
         /\ firstBurst(n) \in 1..n
         /\ firstBurst(n) <= Burst
         /\ Burst \in Nat \ {0}
         /\ Cardinality(WaitingIn(msgs')) <= Burst
         /\ AnsweredIn(msgs') = {}
<1>1. n \in Nat \ {0} /\ Burst \in Nat \ {0}
  BY MgaAssumption DEF Burst
<1>2. firstBurst(n) \in 1..n /\ firstBurst(n) <= Burst
  BY <1>1 DEF firstBurst
<1>3. msgs' \in [1..n -> MsgStates]
  BY DEF MsgStates
<1>4. msgs' \in Seq(MsgStates) /\ Len(msgs') = n
  BY <1>1, <1>3
<1>5. WaitingIn(msgs') = 1..firstBurst(n) /\ AnsweredIn(msgs') = {}
  BY <1>1, <1>2 DEF WaitingIn, AnsweredIn
<1>6. Cardinality(1..firstBurst(n)) = firstBurst(n)
  BY <1>1, <1>2, FS_Interval
<1> QED
  BY <1>1, <1>2, <1>4, <1>5, <1>6

\* A step keeps the invariant of the list.
LEMMA ListInvStep == ASSUME ListInv, ListStep PROVE ListInv'
<1> USE DEF ListInv
<1>0. /\ msgs \in Seq(MsgStates)
      /\ last \in Nat
      /\ acks \in Nat
      /\ late \subseteq WaitingIn(msgs)
      /\ \A i \in DOMAIN msgs : msgs[i] = "TO_SEND" <=> i > last
      /\ Cardinality(WaitingIn(msgs)) <= Burst
      /\ acks = Cardinality(AnsweredIn(msgs))
      /\ msgs # <<>> => acks < Len(msgs)
      /\ Burst \in Nat \ {0}
      /\ Cardinality(WaitingIn(msgs)) \in Nat
      /\ Cardinality(AnsweredIn(msgs)) \in Nat
      /\ DOMAIN msgs = 1..Len(msgs)
      /\ Len(msgs) \in Nat
  BY MgaAssumption, ListFinite, LenProperties
     DEF ListType, SentInOrder, FlowControl, AckCountExact, Waiting, Answered, Burst
<1>q. ASSUME /\ msgs' \in Seq(MsgStates)
             /\ last' \in Nat
             /\ acks' \in Nat
             /\ late' \subseteq WaitingIn(msgs')
             /\ \A i \in DOMAIN msgs' : msgs'[i] = "TO_SEND" <=> i > last'
             /\ Cardinality(WaitingIn(msgs')) <= Burst
             /\ acks' = Cardinality(AnsweredIn(msgs'))
             /\ msgs' # <<>> => acks' < Len(msgs')
      PROVE  ListInv'
  BY <1>q DEF ListType, SentInOrder, FlowControl, AckCountExact, Waiting, Answered, Burst
<1>1. CASE UNCHANGED listVars
  BY <1>0, <1>1, <1>q DEF listVars
<1>2. CASE Freed
  <2>1. WaitingIn(msgs') = {} /\ AnsweredIn(msgs') = {}
    BY <1>2 DEF Freed, WaitingIn, AnsweredIn
  <2>2. Cardinality(WaitingIn(msgs')) = 0 /\ Cardinality(AnsweredIn(msgs')) = 0
    BY <2>1, FS_EmptySet
  <2>3. msgs' \in Seq(MsgStates) /\ DOMAIN msgs' = {} /\ msgs' = <<>>
    BY <1>2 DEF Freed
  <2>4. late' \subseteq WaitingIn(msgs') /\ last' = 0 /\ acks' = 0
    BY <1>2 DEF Freed
  <2> QED
    BY <1>0, <1>q, <2>2, <2>3, <2>4
<1>3. CASE Built
  <2>1. PICK n \in 1..MaxMsgs :
          /\ msgs' = [i \in 1..n |-> IF i <= firstBurst(n) THEN "WAITING_FOR_ACK" ELSE "TO_SEND"]
          /\ late' = {}
          /\ last' = IF n < Burst THEN n + 1 ELSE firstBurst(n)
          /\ acks' = 0
    BY <1>3 DEF Built
  <2>2. /\ msgs' \in Seq(MsgStates)
        /\ Len(msgs') = n
        /\ n \in Nat \ {0}
        /\ firstBurst(n) \in 1..n
        /\ Cardinality(WaitingIn(msgs')) <= Burst
        /\ AnsweredIn(msgs') = {}
    BY <2>1, BuiltList
  <2>3. Cardinality(AnsweredIn(msgs')) = 0
    BY <2>2, FS_EmptySet
  <2>4. last' \in Nat /\ \A i \in 1..n : i <= firstBurst(n) <=> i <= last'
    BY <1>0, <2>1, <2>2 DEF firstBurst
  <2>5. \A i \in DOMAIN msgs' : msgs'[i] = "TO_SEND" <=> i > last'
    BY <2>1, <2>2, <2>4
  <2>6. late' \subseteq WaitingIn(msgs') /\ acks' = 0 /\ acks' < Len(msgs')
    BY <2>1, <2>2
  <2> QED
    BY <1>q, <2>2, <2>3, <2>4, <2>5, <2>6
<1>4. CASE Settles
  <2>1. PICK i \in Waiting, v \in {"RECEIVED", "NACKED"} :
          /\ acks + 1 # Len(msgs)
          /\ acks' = acks + 1
          /\ late' = late \ {i}
          /\ Sends([msgs EXCEPT ![i] = v])
    BY <1>4 DEF Settles
  <2> DEFINE list == [msgs EXCEPT ![i] = v]
  <2>2. i \in WaitingIn(msgs) /\ i \in DOMAIN msgs /\ v \in MsgStates /\ i <= last
    BY <1>0, <2>1 DEF Waiting, WaitingIn, MsgStates
  <2>3. /\ list \in Seq(MsgStates)
        /\ Len(list) = Len(msgs)
        /\ DOMAIN list = DOMAIN msgs
        /\ Cardinality(WaitingIn(list)) = Cardinality(WaitingIn(msgs)) - 1
        /\ Cardinality(AnsweredIn(list)) = Cardinality(AnsweredIn(msgs)) + 1
    BY <1>0, <2>1, <2>2, SetState, SettleCounts
  <2>4. \A j \in DOMAIN list : list[j] = "TO_SEND" <=> j > last
    BY <1>0, <2>1, <2>2
  <2>5. late' \subseteq WaitingIn(list)
    BY <1>0, <2>1, <2>2 DEF WaitingIn
  <2>6. msgs # <<>> /\ acks' < Len(msgs)
    BY <1>0, <2>1, <2>2
  <2> HIDE DEF list
  <2>7. CASE sendNextMgaMessage(list)
    <3>1. /\ msgs' \in Seq(MsgStates)
          /\ Len(msgs') = Len(list)
          /\ last' \in Nat
          /\ WaitingIn(list) \subseteq WaitingIn(msgs')
          /\ \A j \in DOMAIN msgs' : msgs'[j] = "TO_SEND" <=> j > last'
          /\ Cardinality(WaitingIn(msgs')) <= Cardinality(WaitingIn(list)) + 1
          /\ AnsweredIn(msgs') = AnsweredIn(list)
      BY <1>0, <2>3, <2>4, <2>7, SendNext
    <3>2. Cardinality(WaitingIn(msgs')) \in Nat
      BY <3>1, ListFinite
    <3> QED
      BY <1>0, <1>q, <2>1, <2>3, <2>5, <2>6, <3>1, <3>2
  <2>8. CASE msgs' = list /\ UNCHANGED last
    BY <1>0, <1>q, <2>1, <2>3, <2>4, <2>5, <2>6, <2>8
  <2> QED
    BY <2>1, <2>7, <2>8 DEF Sends, list
<1>5. CASE GivesUp
  <2>1. PICK i \in late : /\ late' = late \ {i}
                          /\ UNCHANGED acks
                          /\ sendNextMgaMessage([msgs EXCEPT ![i] = "GIVEN_UP"])
    BY <1>5 DEF GivesUp
  <2> DEFINE list == [msgs EXCEPT ![i] = "GIVEN_UP"]
  <2>2. i \in WaitingIn(msgs) /\ i \in DOMAIN msgs /\ i <= last
    BY <1>0, <2>1 DEF WaitingIn
  <2>3. /\ list \in Seq(MsgStates)
        /\ Len(list) = Len(msgs)
        /\ DOMAIN list = DOMAIN msgs
        /\ Cardinality(WaitingIn(list)) = Cardinality(WaitingIn(msgs)) - 1
        /\ AnsweredIn(list) = AnsweredIn(msgs)
    BY <1>0, <2>2, SetState, GiveUpCounts DEF MsgStates
  <2>4. \A j \in DOMAIN list : list[j] = "TO_SEND" <=> j > last
    BY <1>0, <2>2
  <2>5. late' \subseteq WaitingIn(list)
    BY <1>0, <2>1, <2>2 DEF WaitingIn
  <2>6. msgs # <<>>
    BY <1>0, <2>2
  <2> HIDE DEF list
  <2>7. /\ msgs' \in Seq(MsgStates)
        /\ Len(msgs') = Len(list)
        /\ last' \in Nat
        /\ WaitingIn(list) \subseteq WaitingIn(msgs')
        /\ \A j \in DOMAIN msgs' : msgs'[j] = "TO_SEND" <=> j > last'
        /\ Cardinality(WaitingIn(msgs')) <= Cardinality(WaitingIn(list)) + 1
        /\ AnsweredIn(msgs') = AnsweredIn(list)
    BY <1>0, <2>1, <2>3, <2>4, SendNext DEF list
  <2>8. Cardinality(WaitingIn(msgs')) \in Nat
    BY <2>7, ListFinite
  <2> QED
    BY <1>0, <1>q, <2>1, <2>3, <2>5, <2>6, <2>7, <2>8
<1>6. CASE Resends
  <2>1. PICK i \in late : /\ late' = late \ {i}
                          /\ UNCHANGED <<acks, last>>
                          /\ msgs' = [msgs EXCEPT ![i] = "WAITING_FOR_ACK"]
    BY <1>6 DEF Resends
  <2>2. msgs' = msgs
    BY <1>0, <2>1, LenProperties DEF WaitingIn
  <2> QED
    BY <1>0, <1>q, <2>1, <2>2
<1>7. CASE Waits
  BY <1>0, <1>7, <1>q DEF Waits, Waiting
<1> QED
  BY <1>1, <1>2, <1>3, <1>4, <1>5, <1>6, <1>7 DEF ListStep

\* The list invariant holds in every behaviour.
LEMMA ListInvariant == Spec => []ListInv
<1>1. Init => ListInv
  <2> SUFFICES ASSUME Init PROVE ListInv
    OBVIOUS
  <2>1. msgs = <<>> /\ late = {} /\ last = 0 /\ acks = 0
    BY DEF Init
  <2>2. Waiting = {} /\ Answered = {}
    BY <2>1 DEF Waiting, Answered, WaitingIn, AnsweredIn
  <2>3. Cardinality(Waiting) = 0 /\ Cardinality(Answered) = 0 /\ Burst \in Nat
    BY <2>2, FS_EmptySet, MgaAssumption DEF Burst
  <2>4. ListType /\ SentInOrder
    BY <2>1, <2>2 DEF ListType, SentInOrder
  <2>5. FlowControl /\ AckCountExact
    BY <2>1, <2>3 DEF FlowControl, AckCountExact
  <2> QED
    BY <2>4, <2>5 DEF ListInv
<1>2. ListInv /\ [Next]_vars => ListInv'
  BY ListSteps, ListInvStep
<1> QED
  BY <1>1, <1>2, PTL DEF Spec

\* The window of unanswered messages is never exceeded, for any number of
\* messages, retries and transfers, in both modes of flow control.
THEOREM WindowKept == Spec => []FlowControl
  BY ListInvariant, PTL DEF ListInv

\* Every answer counts once: the session never ends early, and it ends with the
\* last answer.
THEOREM AnswersCounted == Spec => []AckCountExact
  BY ListInvariant, PTL DEF ListInv

\* Messages are sent in the order of the list, none is left out.
THEOREM OrderKept == Spec => []SentInOrder
  BY ListInvariant, PTL DEF ListInv

-----------------------------------------------------------------------------
(* The remaining variables, and what is written *)

Lines == [msg : Nat, transfer : Nat]
Answers == [msg : Nat, ok : BOOLEAN]
RestType == /\ session \in {"IDLE", "ACTIVE"}
            /\ verdict \in {"again", "success", "fail"}
            /\ result \in {"none", "again", "success", "fail", "cancelled"}
            /\ scan \in Nat
            /\ transfer \in Nat
            /\ size \in Nat
            /\ down \in Seq(Lines)
            /\ up \in Seq(Answers)
            /\ stored \subseteq Nat
            /\ refused \subseteq Nat

\* What a step may write: nothing but the messages of a new transfer, a message
\* of the list that was not sent yet, or one that is late.
Writes == \/ transfer' # transfer /\ down' \in Seq(Lines)
          \/ UNCHANGED down
          \/ down # <<>> /\ down' = Tail(down)
          \/ \E i \in DOMAIN msgs : /\ i > last \/ i \in late
                                   /\ down' = Append(down, OnLine(i, transfer))

\* sendNextMgaMessage writes the message after the last one, or nothing.
LEMMA SendNextWrites ==
  ASSUME NEW list, DOMAIN list = DOMAIN msgs, last \in Nat, sendNextMgaMessage(list)
  PROVE  Writes
<1>1. CASE nextToSend \in DOMAIN list
  BY <1>1 DEF sendNextMgaMessage, nextToSend, Writes
<1>2. CASE nextToSend \notin DOMAIN list
  BY <1>2 DEF sendNextMgaMessage, Writes
<1> QED
  BY <1>1, <1>2

\* Which steps write a message, and when.
LEMMA WriteSteps == ASSUME ListInv, RestType, [Next]_vars PROVE Writes
<1>0. last \in Nat
  BY DEF ListInv, ListType
<1>1. ASSUME NEW n \in 1..MaxMsgs, onlineTransfer(n) \/ offlineTransfer(n)
      PROVE  Writes
  <2>1. transfer' = transfer + 1 /\ transfer' # transfer /\ transfer + 1 \in Nat
    BY <1>1 DEF onlineTransfer, offlineTransfer, BeginTransfer, RestType
  <2>2. PICK ini \in {<<>>, <<OnLine(0, transfer + 1)>>} : initiateMessageTransfer(n, ini)
    BY <1>1 DEF onlineTransfer, offlineTransfer
  <2> DEFINE batch == [i \in 1..firstBurst(n) |-> OnLine(i, transfer + 1)]
  <2>3. down' = down \o ini \o batch
    BY <2>2 DEF initiateMessageTransfer
  <2>4. firstBurst(n) \in Nat
    BY MgaAssumption DEF firstBurst, Burst
  <2>5. ini \in Seq(Lines)
    <3>1. OnLine(0, transfer + 1) \in Lines
      BY <2>1 DEF OnLine, Lines
    <3>2. CASE ini = <<>>
      BY <3>2
    <3>3. ASSUME NEW x \in Lines PROVE <<x>> \in Seq(Lines)
      OBVIOUS
    <3> QED
      BY <3>1, <3>2, <3>3
  <2>6. batch \in Seq(Lines)
    <3>1. \A i \in 1..firstBurst(n) : OnLine(i, transfer + 1) \in Lines
      BY <2>1, <2>4 DEF OnLine, Lines
    <3>2. batch \in [1..firstBurst(n) -> Lines]
      BY <3>1
    <3> HIDE DEF batch
    <3> QED
      BY <2>4, <3>2, SeqDef
  <2>7. down \in Seq(Lines)
    BY DEF RestType
  <2>8. down' \in Seq(Lines)
    <3> HIDE DEF batch
    <3>1. down \o ini \in Seq(Lines)
      BY <2>5, <2>7
    <3> QED
      BY <2>3, <2>6, <3>1
  <2> QED
    BY <2>1, <2>8 DEF Writes
<1>2. CASE transferRefused \/ timeoutMessage \/ continueReturns \/ clearActions \/ unwantedMessage
  BY <1>2 DEF transferRefused, timeoutMessage, continueReturns, clearActions,
              unwantedMessage, Writes
<1>3. CASE receiverMessage
  <2>1. handleMgaAckMsg(Head(up))
    BY <1>3 DEF receiverMessage
  <2> DEFINE a == Head(up)
             list == [msgs EXCEPT ![a.msg] = settledAs(a)]
  <2>2. DOMAIN list = DOMAIN msgs
    OBVIOUS
  <2>3. \/ UNCHANGED down
        \/ sendNextMgaMessage(list)
    BY <2>1 DEF handleMgaAckMsg
  <2> QED
    BY <1>0, <2>2, <2>3, SendNextWrites DEF Writes
<1>4. CASE checkForTimeOuts
  <2>1. checkForTimeOut(scan) /\ scan \in DOMAIN msgs
    BY <1>4 DEF checkForTimeOuts
  <2>2. CASE ~timedOut(scan)
    BY <2>1, <2>2 DEF checkForTimeOut, Writes
  <2>3. CASE timedOut(scan) /\ mayResend(scan)
    BY <2>1, <2>3 DEF checkForTimeOut, timedOut, Writes
  <2>4. CASE timedOut(scan) /\ ~mayResend(scan)
    <3>1. sendNextMgaMessage([msgs EXCEPT ![scan] = "GIVEN_UP"])
      BY <2>1, <2>4 DEF checkForTimeOut
    <3> QED
      BY <1>0, <3>1, SendNextWrites
  <2> QED
    BY <2>2, <2>3, <2>4
<1>5. ASSUME NEW late1, Tick(late1) PROVE Writes
  BY <1>5 DEF Tick, Writes
<1>6. ASSUME NEW ok, NEW answered, Receiver(ok, answered) PROVE Writes
  BY <1>6 DEF Receiver, Writes
<1>7. CASE LoseMessage
  BY <1>7 DEF LoseMessage, Writes
<1>8. CASE UNCHANGED vars
  BY <1>8 DEF vars, Writes
<1> QED
  BY <1>1, <1>2, <1>3, <1>4, <1>5, <1>6, <1>7, <1>8 DEF Next, Step

\* Every step keeps the types of the remaining variables.
LEMMA RestTypeStep == ASSUME ListInv, RestType, [Next]_vars PROVE RestType'
<1> USE DEF RestType
<1>1. down' \in Seq(Lines)
  <2>1. Writes
    BY WriteSteps
  <2>2. ASSUME NEW i \in DOMAIN msgs PROVE OnLine(i, transfer) \in Lines
    <3>1. i \in Nat
      BY <2>2, LenProperties DEF ListInv, ListType
    <3> QED
      BY <3>1 DEF OnLine, Lines
  <2>3. down # <<>> => Tail(down) \in Seq(Lines)
    BY HeadTailProperties
  <2>4. \A i \in DOMAIN msgs : Append(down, OnLine(i, transfer)) \in Seq(Lines)
    BY <2>2, AppendProperties
  <2> QED
    BY <2>1, <2>3, <2>4 DEF Writes
<1>2. ASSUME NEW n \in 0..MaxMsgs, BeginTransfer(n)
      PROVE  /\ scan' \in Nat
             /\ transfer' \in Nat
             /\ size' \in Nat
             /\ up' \in Seq(Answers)
             /\ stored' \subseteq Nat
             /\ refused' \subseteq Nat
  BY <1>2, MgaAssumption DEF BeginTransfer
<1>3. ASSUME NEW n \in 1..MaxMsgs, onlineTransfer(n) \/ offlineTransfer(n)
      PROVE  RestType'
  <2>1. BeginTransfer(n) /\ n \in 0..MaxMsgs
    BY <1>3, MgaAssumption DEF onlineTransfer, offlineTransfer
  <2>2. session' = "ACTIVE" /\ verdict' = "again" /\ result' = "again"
    BY <1>3 DEF onlineTransfer, offlineTransfer, initiateMessageTransfer
  <2> QED
    BY <1>1, <1>2, <2>1, <2>2
<1>4. CASE transferRefused
  <2>1. BeginTransfer(0) /\ 0 \in 0..MaxMsgs
    BY <1>4, MgaAssumption DEF transferRefused
  <2> QED
    BY <1>1, <1>2, <1>4, <2>1 DEF transferRefused, sessionStop
<1>5. CASE receiverMessage
  <2>1. /\ handleMgaAckMsg(Head(up))
        /\ up # <<>>
        /\ up' = Tail(up)
        /\ scan' = 1
        /\ UNCHANGED <<clientVars, rcvVars>>
    BY <1>5 DEF receiverMessage
  <2>2. session' \in {session, "IDLE"} /\ verdict' \in {verdict, "success"}
    BY <2>1 DEF handleMgaAckMsg, sessionStop, libVars
  <2>3. up' \in Seq(Answers)
    BY <2>1, HeadTailProperties
  <2>4. UNCHANGED <<result, transfer, size, stored, refused>> /\ scan' \in Nat
    BY <2>1 DEF clientVars, rcvVars
  <2>5. session' \in {"IDLE", "ACTIVE"} /\ verdict' \in {"again", "success", "fail"}
    BY <2>2
  <2> QED
    BY <1>1, <2>3, <2>4, <2>5
<1>6. CASE timeoutMessage
  BY <1>1, <1>6 DEF timeoutMessage, libVars, clientVars, rcvVars
<1>14. CASE clearActions
  BY <1>1, <1>14 DEF clearActions, libVars, rcvVars
<1>13. CASE unwantedMessage
  <2>1. up # <<>> /\ up' = Tail(up)
    BY <1>13 DEF unwantedMessage
  <2>2. up' \in Seq(Answers)
    BY <2>1, HeadTailProperties
  <2> QED
    BY <1>1, <1>13, <2>2 DEF unwantedMessage, libVars, clientVars, rcvVars
<1>7. CASE continueReturns
  BY <1>1, <1>7 DEF continueReturns, transferResult, libVars, rcvVars
<1>8. CASE checkForTimeOuts
  <2>1. /\ checkForTimeOut(scan)
        /\ scan' = scan + 1
        /\ UNCHANGED <<clientVars, up, rcvVars>>
    BY <1>8 DEF checkForTimeOuts
  <2>2. session' = session /\ verdict' \in {verdict, "fail"}
    BY <2>1 DEF checkForTimeOut, reportFailure, libVars
  <2> QED
    BY <1>1, <2>1, <2>2 DEF clientVars, rcvVars
<1>9. ASSUME NEW late1, Tick(late1) PROVE RestType'
  BY <1>1, <1>9 DEF Tick, clientVars, rcvVars
<1>10. ASSUME NEW ok \in BOOLEAN, NEW answered \in BOOLEAN, Receiver(ok, answered)
       PROVE  RestType'
  <2> DEFINE m == Head(down)
             mine == IF m.transfer = transfer THEN {m.msg} ELSE {}
  <2>1. m.msg \in Nat
    <3>1. Head(down) \in Lines
      BY <1>10, HeadTailProperties DEF Receiver
    <3> QED
      BY <3>1 DEF Lines
  <2>2. /\ stored' \in {stored, stored \cup mine}
        /\ refused' \in {refused, refused \cup mine}
        /\ up' \in {up, Append(up, [msg |-> m.msg, ok |-> ok])}
        /\ UNCHANGED <<session, verdict, scan, result, transfer, size>>
    BY <1>10 DEF Receiver, libVars, clientVars
  <2>3. up' \in Seq(Answers)
    <3>1. [msg |-> m.msg, ok |-> ok] \in Answers
      BY <2>1 DEF Answers
    <3> DEFINE answer == [msg |-> m.msg, ok |-> ok]
    <3>2. up' \in {up, Append(up, answer)} /\ answer \in Answers
      BY <2>2, <3>1
    <3> HIDE DEF answer
    <3> QED
      BY <3>2, AppendProperties
  <2>4. stored' \subseteq Nat /\ refused' \subseteq Nat
    BY <2>1, <2>2
  <2> QED
    BY <1>1, <2>2, <2>3, <2>4
<1>11. CASE LoseMessage
  BY <1>1, <1>11 DEF LoseMessage, libVars, clientVars, rcvVars
<1>12. CASE UNCHANGED vars
  BY <1>1, <1>12 DEF vars, libVars, clientVars, rcvVars
<1> QED
  BY <1>3, <1>4, <1>5, <1>6, <1>7, <1>8, <1>9, <1>10, <1>11, <1>12, <1>13, <1>14 DEF Next, Step

\* These types hold in every behaviour.
LEMMA RestTyped == Spec => [](ListInv /\ RestType)
<1>1. Init => RestType
  BY DEF Init, RestType
<1>2. ListInv /\ RestType /\ [Next]_vars => RestType'
  BY RestTypeStep
<1> QED
  BY <1>1, <1>2, ListInvariant, PTL DEF Spec

TriesType == tries \in Seq(0..Retries) /\ Len(tries) = Len(msgs)

\* Sending the next message keeps the length of the list.
LEMMA SendNextLength ==
  ASSUME NEW list \in Seq(MsgStates), sendNextMgaMessage(list)
  PROVE  Len(msgs') = Len(list)
  BY ExceptSeq DEF sendNextMgaMessage, MsgStates

\* Every step keeps the bound on the tries.
LEMMA TriesStep == ASSUME ListInv, TriesType, [Next]_vars PROVE TriesType'
<1>0. msgs \in Seq(MsgStates) /\ 0 \in 0..Retries
  BY MgaAssumption DEF ListInv, ListType
<1> USE DEF TriesType
<1>1. ASSUME NEW n \in 1..MaxMsgs, onlineTransfer(n) \/ offlineTransfer(n)
      PROVE  TriesType'
  <2>1. /\ tries' = [i \in 1..n |-> 0]
        /\ \E sent : msgs' = [i \in 1..n |-> IF i <= sent THEN "WAITING_FOR_ACK" ELSE "TO_SEND"]
    BY <1>1 DEF onlineTransfer, offlineTransfer, initiateMessageTransfer
  <2>2. n \in Nat
    BY MgaAssumption
  <2>3. Len(tries') = n /\ Len(msgs') = n
    BY <2>1, <2>2
  <2>4. tries' \in [1..n -> 0..Retries]
    BY <1>0, <2>1
  <2> QED
    BY <2>2, <2>3, <2>4, SeqDef
<1>2. CASE transferRefused
  BY <1>2 DEF transferRefused, sessionStop
<1>3. CASE receiverMessage
  <2>1. handleMgaAckMsg(Head(up))
    BY <1>3 DEF receiverMessage
  <2>2. CASE ~findMsgBlock(Head(up).msg)
    BY <2>1, <2>2 DEF handleMgaAckMsg, libVars
  <2>3. CASE findMsgBlock(Head(up).msg) /\ lastAck
    BY <2>1, <2>3 DEF handleMgaAckMsg, sessionStop
  <2>4. CASE findMsgBlock(Head(up).msg) /\ ~lastAck
    <3> DEFINE list == [msgs EXCEPT ![Head(up).msg] = settledAs(Head(up))]
    <3>1. list \in Seq(MsgStates) /\ Len(list) = Len(msgs)
      <4>1. settledAs(Head(up)) \in MsgStates
        BY DEF settledAs, MsgStates
      <4>2. Head(up).msg \in 1..Len(msgs)
        BY <1>0, <2>4, LenProperties DEF findMsgBlock, Waiting, WaitingIn
      <4> QED
        BY <1>0, <4>1, <4>2, ExceptSeq
    <3>2. tries' = tries /\ (sendNextMgaMessage(list) \/ msgs' = list)
      BY <2>1, <2>4 DEF handleMgaAckMsg
    <3> HIDE DEF list
    <3> QED
      BY <3>1, <3>2, SendNextLength
  <2> QED
    BY <2>2, <2>3, <2>4
<1>4. CASE checkForTimeOuts
  <2>1. checkForTimeOut(scan) /\ scan \in DOMAIN msgs
    BY <1>4 DEF checkForTimeOuts
  <2>2. scan \in 1..Len(msgs) /\ scan \in 1..Len(tries)
    BY <1>0, <2>1, LenProperties
  <2>3. CASE ~timedOut(scan)
    BY <2>1, <2>3 DEF checkForTimeOut, libVars
  <2>4. CASE timedOut(scan) /\ mayResend(scan)
    <3>1. /\ tries' = [tries EXCEPT ![scan] = tries[scan] + 1]
          /\ msgs' = [msgs EXCEPT ![scan] = "WAITING_FOR_ACK"]
      BY <2>1, <2>4 DEF checkForTimeOut
    <3>2. tries[scan] \in 0..Retries /\ tries[scan] + 1 \in 0..Retries
      BY <2>2, <2>4, MgaAssumption, ElementOfSeq DEF mayResend
    <3>3. tries' \in Seq(0..Retries) /\ Len(tries') = Len(tries)
      BY <2>2, <3>1, <3>2, ExceptSeq
    <3>4. Len(msgs') = Len(msgs)
      BY <1>0, <2>2, <3>1, ExceptSeq DEF MsgStates
    <3> QED
      BY <3>3, <3>4
  <2>5. CASE timedOut(scan) /\ ~mayResend(scan)
    <3> DEFINE list == [msgs EXCEPT ![scan] = "GIVEN_UP"]
    <3>1. list \in Seq(MsgStates) /\ Len(list) = Len(msgs)
      BY <1>0, <2>2, ExceptSeq DEF MsgStates
    <3>2. tries' = tries /\ sendNextMgaMessage(list)
      BY <2>1, <2>5 DEF checkForTimeOut
    <3> HIDE DEF list
    <3> QED
      BY <3>1, <3>2, SendNextLength
  <2> QED
    BY <2>3, <2>4, <2>5
<1>5. CASE timeoutMessage \/ continueReturns \/ clearActions \/ unwantedMessage \/ LoseMessage
  BY <1>5 DEF timeoutMessage, continueReturns, clearActions, unwantedMessage, LoseMessage, libVars
<1>6. ASSUME NEW late1, Tick(late1) PROVE TriesType'
  BY <1>6 DEF Tick
<1>7. ASSUME NEW ok, NEW answered, Receiver(ok, answered) PROVE TriesType'
  BY <1>7 DEF Receiver, libVars
<1>8. CASE UNCHANGED vars
  BY <1>8 DEF vars, libVars
<1> QED
  BY <1>1, <1>2, <1>3, <1>4, <1>5, <1>6, <1>7, <1>8 DEF Next, Step

\* Whether the line was empty is recorded when a transfer starts, then kept.
LEMMA CleanSteps ==
  ASSUME [Next]_vars
  PROVE  clean' = clean \/ clean' = (down = <<>> /\ up = <<>>)
<1>1. ASSUME NEW n, onlineTransfer(n) \/ offlineTransfer(n)
      PROVE  clean' = (down = <<>> /\ up = <<>>)
  BY <1>1 DEF onlineTransfer, offlineTransfer, BeginTransfer
<1>2. CASE transferRefused
  BY <1>2 DEF transferRefused, BeginTransfer
<1>3. CASE Step \/ clearActions \/ unwantedMessage \/ LoseMessage
  BY <1>3 DEF Step, receiverMessage, timeoutMessage, checkForTimeOuts, continueReturns,
              clearActions, unwantedMessage, LoseMessage, clientVars
<1>4. ASSUME NEW late1, Tick(late1) PROVE clean' = clean
  BY <1>4 DEF Tick, clientVars
<1>5. ASSUME NEW ok, NEW answered, Receiver(ok, answered) PROVE clean' = clean
  BY <1>5 DEF Receiver, clientVars
<1>6. CASE UNCHANGED vars
  BY <1>6 DEF vars, clientVars
<1> QED
  BY <1>1, <1>2, <1>3, <1>4, <1>5, <1>6 DEF Next

CleanType == clean \in BOOLEAN

\* It is a Boolean.
LEMMA CleanTyped == Spec => []CleanType
<1>1. Init => CleanType
  BY Zenon DEF Init, CleanType
<1>2. CleanType /\ [Next]_vars => CleanType'
  <2> SUFFICES ASSUME clean \in BOOLEAN, [Next]_vars PROVE clean' \in BOOLEAN
    BY DEF CleanType
  <2> QED
    BY CleanSteps, Zenon
<1> QED
  BY <1>1, <1>2, PTL DEF Spec

\* The variables of the session, the client, the line and the receiver keep
\* their types; in particular a message is not sent again more than Retries times.
THEOREM SessionTyped == Spec => []TypeOK
<1>1. Init => TriesType
  BY EmptySeq DEF Init, TriesType
<1>2. ListInv /\ TriesType /\ [Next]_vars => TriesType'
  BY TriesStep
<1>3. ListInv /\ RestType /\ TriesType /\ CleanType => TypeOK
  BY DEF CleanType, ListInv, ListType, RestType, TriesType, TypeOK, Lines, Answers
<1> QED
  BY <1>1, <1>2, <1>3, RestTyped, CleanTyped, PTL DEF Spec

\* A message that was received, refused or given up is never written again in
\* the same transfer.
THEOREM NeverResent == Spec => SettledNotResent
<1> DEFINE A == transfer' = transfer =>
                  \A k \in 1..Len(Written) :
                     \/ Written[k].msg = 0
                     \/ msgs[Written[k].msg] \in {"TO_SEND", "WAITING_FOR_ACK"}
<1>1. ASSUME ListInv, RestType, [Next]_vars PROVE A
  <2> SUFFICES ASSUME transfer' = transfer, NEW k \in 1..Len(Written)
               PROVE  msgs[Written[k].msg] \in {"TO_SEND", "WAITING_FOR_ACK"}
    OBVIOUS
  <2>1. down \in Seq(Lines) /\ Len(down) \in Nat
    BY <1>1 DEF RestType
  <2>2. Writes
    BY <1>1, WriteSteps
  <2>3. CASE down' = down \/ (down # <<>> /\ down' = Tail(down))
    <3>1. Len(down') \in Nat /\ Len(down') <= Len(down)
      BY <2>1, <2>3
    <3>2. Written = <<>>
      BY <2>1, <3>1 DEF Written
    <3> QED
      BY <3>2
  <2>4. ASSUME NEW i \in DOMAIN msgs, i > last \/ i \in late,
               down' = Append(down, OnLine(i, transfer))
        PROVE  Written[k].msg = i /\ msgs[i] \in {"TO_SEND", "WAITING_FOR_ACK"}
    <3>1. msgs[i] \in {"TO_SEND", "WAITING_FOR_ACK"}
      BY <1>1, <2>4 DEF ListInv, ListType, SentInOrder, Waiting, WaitingIn
    <3>2. i \in Nat
      BY <1>1, <2>4, LenProperties DEF ListInv, ListType
    <3>3. OnLine(i, transfer) \in Lines /\ OnLine(i, transfer).msg = i
      BY <1>1, <3>2 DEF OnLine, Lines, RestType
    <3> DEFINE e == OnLine(i, transfer)
    <3> HIDE DEF e
    <3>4. Len(Append(down, e)) = Len(down) + 1 /\ Append(down, e)[Len(down) + 1] = e
      BY <2>1, <3>3 DEF e
    <3>5. Written = SubSeq(Append(down, e), Len(down) + 1, Len(down) + 1)
      BY <2>4, <3>4 DEF Written, e
    <3>6. Append(down, e) \in Seq(Lines)
      BY <2>1, <3>3 DEF e
    <3>7. Len(Written) = 1 /\ Written[1] = e
      BY <2>1, <3>4, <3>5, <3>6
    <3> QED
      BY <3>1, <3>3, <3>7 DEF e
  <2> QED
    BY <2>2, <2>3, <2>4 DEF Writes
<1>2. ListInv /\ RestType /\ [Next]_vars => [A]_vars
  BY <1>1
<1> QED
  BY <1>2, RestTyped, PTL DEF Spec, SettledNotResent

-----------------------------------------------------------------------------
(* What is reported is true *)

\* The receiver said what the answer says, of a message of this transfer.
Said(a) == IF a.ok THEN a.msg \in stored ELSE a.msg \in refused

AllAnswered == 1..size \subseteq stored \cup refused

\* When the line was empty at the start of the transfer, what is on it belongs
\* to this transfer, and whatever is recorded was said.
ReportInv ==
  /\ msgs # <<>> => Len(msgs) = size
  /\ clean => /\ \A k \in DOMAIN down : down[k].transfer = transfer
              /\ \A k \in DOMAIN up : Said(up[k])
              /\ \A i \in DOMAIN msgs : /\ msgs[i] = "RECEIVED" => i \in stored
                                        /\ msgs[i] = "NACKED" => i \in refused
              /\ verdict = "success" \/ result = "success" => AllAnswered

\* What a line holds after something was taken from it or added to it.
LEMMA LineChanges ==
  ASSUME NEW S, NEW line \in Seq(S)
  PROVE  /\ line # <<>> => /\ Head(line) = line[1] /\ 1 \in DOMAIN line
                           /\ \A k \in DOMAIN Tail(line) :
                                k + 1 \in DOMAIN line /\ Tail(line)[k] = line[k + 1]
         /\ \A e \in S : \A k \in DOMAIN Append(line, e) :
                \/ k \in DOMAIN line /\ Append(line, e)[k] = line[k]
                \/ Append(line, e)[k] = e
<1>1. ASSUME line # <<>>
      PROVE  /\ Head(line) = line[1] /\ 1 \in DOMAIN line
             /\ \A k \in DOMAIN Tail(line) : k + 1 \in DOMAIN line /\ Tail(line)[k] = line[k + 1]
  BY <1>1
<1>2. ASSUME NEW e \in S, NEW k \in DOMAIN Append(line, e)
      PROVE  \/ k \in DOMAIN line /\ Append(line, e)[k] = line[k]
             \/ Append(line, e)[k] = e
  BY <1>2
<1> QED
  BY <1>1, <1>2

\* How many positions a list has.
LEMMA PositionCount == \A n \in Nat : IsFiniteSet(1..n) /\ Cardinality(1..n) = n
<1> TAKE n \in Nat
<1> QED
  BY FS_Interval

\* A list in which all messages but one are answered is answered with that one.
LEMMA LastAnswer ==
  ASSUME NEW list \in Seq(MsgStates), NEW i \in WaitingIn(list),
         Cardinality(AnsweredIn(list)) + 1 = Len(list)
  PROVE  AnsweredIn(list) \cup {i} = 1..Len(list)
<1>1. Len(list) \in Nat /\ DOMAIN list = 1..Len(list)
  BY LenProperties
<1>2. IsFiniteSet(1..Len(list)) /\ Cardinality(1..Len(list)) = Len(list)
  BY <1>1, PositionCount
<1>3. IsFiniteSet(AnsweredIn(list)) /\ i \notin AnsweredIn(list) /\ i \in 1..Len(list)
  BY <1>1, ListFinite DEF WaitingIn, AnsweredIn
<1>4. Cardinality(AnsweredIn(list) \cup {i}) = Len(list)
  BY <1>3, FS_AddElement
<1>5. AnsweredIn(list) \cup {i} \subseteq 1..Len(list)
  BY <1>1, <1>3 DEF AnsweredIn
<1> QED
  BY <1>2, <1>4, <1>5, FS_Subset

\* A new transfer starts with nothing recorded, and with its own messages only.
LEMMA ReportBegins ==
  ASSUME ListInv, RestType, NEW n \in 1..MaxMsgs, onlineTransfer(n) \/ offlineTransfer(n)
  PROVE  ReportInv'
<1>1. /\ transfer' = transfer + 1 /\ size' = n /\ up' = up
      /\ clean' = (down = <<>> /\ up = <<>>)
      /\ result' = "again"
  BY DEF onlineTransfer, offlineTransfer, BeginTransfer
<1>2. PICK ini \in {<<>>, <<OnLine(0, transfer + 1)>>} : initiateMessageTransfer(n, ini)
  BY DEF onlineTransfer, offlineTransfer
<1> DEFINE batch == [i \in 1..firstBurst(n) |-> OnLine(i, transfer + 1)]
<1>3. /\ down' = down \o ini \o batch
      /\ msgs' = [i \in 1..n |-> IF i <= firstBurst(n) THEN "WAITING_FOR_ACK" ELSE "TO_SEND"]
      /\ verdict' = "again"
  BY <1>2 DEF initiateMessageTransfer
<1>4. n \in Nat /\ firstBurst(n) \in Nat
  BY MgaAssumption DEF firstBurst, Burst
<1>5. Len(msgs') = n
  BY <1>3, <1>4
<1>6. \A i \in DOMAIN msgs' : msgs'[i] \in {"WAITING_FOR_ACK", "TO_SEND"}
  BY <1>3
<1>7. ASSUME clean' PROVE \A k \in DOMAIN down' : down'[k].transfer = transfer'
  <2>1. down = <<>>
    BY <1>1, <1>7
  <2>2. \A i : OnLine(i, transfer + 1).transfer = transfer'
    BY <1>1 DEF OnLine
  <2> DEFINE L == {OnLine(i, transfer + 1) : i \in 0..firstBurst(n)}
  <2>3. ini \in Seq(L)
    <3>1. OnLine(0, transfer + 1) \in L
      BY <1>4
    <3> HIDE DEF L
    <3>2. <<OnLine(0, transfer + 1)>> \in Seq(L) /\ <<>> \in Seq(L)
      BY <3>1
    <3> QED
      BY <3>2
  <2>4. batch \in Seq(L)
    <3>1. batch \in [1..firstBurst(n) -> L]
      BY <1>4
    <3> HIDE DEF batch, L
    <3> QED
      BY <1>4, <3>1, SeqDef
  <2>5. <<>> \o ini \o batch \in Seq(L)
    <3> HIDE DEF batch, L
    <3>1. <<>> \o ini \in Seq(L)
      BY <2>3, EmptySeq, ConcatProperties
    <3> QED
      BY <2>4, <3>1, ConcatProperties
  <2>6. down' \in Seq(L)
    BY <1>3, <2>1, <2>5
  <2>7. \A k \in DOMAIN down' : down'[k] \in L
    <3> HIDE DEF L
    <3> QED
      BY <2>6, LenProperties, ElementOfSeq
  <2> QED
    BY <2>2, <2>7
<1>8. ASSUME clean' PROVE \A k \in DOMAIN up' : Said(up[k])'
  <2>1. up' = <<>>
    BY <1>1, <1>8
  <2> QED
    BY <2>1 DEF Said
<1> QED
  BY <1>1, <1>3, <1>5, <1>6, <1>7, <1>8 DEF ReportInv

\* What is said stays said while the transfer lasts.
SameTransfer == /\ UNCHANGED <<transfer, size, clean>>
                /\ stored \subseteq stored' /\ refused \subseteq refused'

\* sendNextMgaMessage records nothing as answered.
LEMMA SendNextRecords ==
  ASSUME NEW list \in Seq(MsgStates), sendNextMgaMessage(list), RestType, last \in Nat
  PROVE  /\ Len(msgs') = Len(list) /\ DOMAIN msgs' = DOMAIN list
         /\ \A i \in DOMAIN list : msgs'[i] \in {list[i], "WAITING_FOR_ACK"}
         /\ \/ down' = down
            \/ \E i \in DOMAIN list : down' = Append(down, OnLine(i, transfer))
<1>1. CASE last + 1 \in DOMAIN list
  <2>1. /\ msgs' = [list EXCEPT ![last + 1] = "WAITING_FOR_ACK"]
        /\ down' = Append(down, OnLine(last + 1, transfer))
    BY <1>1 DEF sendNextMgaMessage, nextToSend
  <2>2. Len(msgs') = Len(list) /\ DOMAIN msgs' = DOMAIN list
    BY <1>1, <2>1, SetState DEF MsgStates
  <2> QED
    BY <1>1, <2>1, <2>2
<1>2. CASE last + 1 \notin DOMAIN list
  BY <1>2 DEF sendNextMgaMessage, nextToSend
<1> QED
  BY <1>1, <1>2


\* Every other step keeps what is reported true.
LEMMA ReportGoesOn ==
  ASSUME ListInv, RestType, ReportInv, SameTransfer, down' \in Seq(Lines),
         \* The list is freed, or grows no records but those of a said answer.
         \/ msgs' = <<>>
         \/ /\ Len(msgs') = Len(msgs) /\ DOMAIN msgs' = DOMAIN msgs
            /\ msgs # <<>>
            /\ \A i \in DOMAIN msgs :
                 \/ msgs'[i] \in {msgs[i], "WAITING_FOR_ACK", "GIVEN_UP"}
                 \/ clean => \/ msgs'[i] = "RECEIVED" /\ i \in stored'
                             \/ msgs'[i] = "NACKED" /\ i \in refused',
         clean => \A k \in DOMAIN down' : down'[k].transfer = transfer,
         clean => \A k \in DOMAIN up' : Said(up[k])',
         clean /\ (verdict' = "success" \/ result' = "success")
           => verdict = "success" \/ result = "success" \/ AllAnswered
  PROVE  ReportInv'
<1> USE DEF SameTransfer
<1>1. ASSUME clean, AllAnswered PROVE AllAnswered'
  BY <1>1 DEF AllAnswered
<1>2. msgs' # <<>> => Len(msgs') = size'
  BY DEF ReportInv
<1>3. ASSUME clean, NEW i \in DOMAIN msgs'
      PROVE  (msgs'[i] = "RECEIVED" => i \in stored') /\ (msgs'[i] = "NACKED" => i \in refused')
  <2>1. CASE msgs' = <<>>
    BY <1>3, <2>1
  <2>2. CASE msgs' # <<>>
    BY <1>3, <2>2 DEF ReportInv
  <2> QED
    BY <2>1, <2>2
<1> QED
  BY <1>1, <1>2, <1>3 DEF ReportInv


\* An answer of the receiver: the message it names is recorded as answered.
LEMMA ReportAnswered ==
  ASSUME ListInv, RestType, RestType', ReportInv, receiverMessage
  PROVE  ReportInv'
<1> DEFINE a == Head(up)
           list == [msgs EXCEPT ![a.msg] = settledAs(a)]
<1>1. /\ up # <<>> /\ up' = Tail(up) /\ handleMgaAckMsg(a)
      /\ UNCHANGED <<transfer, size, clean, result, stored, refused>>
  BY DEF receiverMessage, clientVars, rcvVars
<1>2. /\ msgs \in Seq(MsgStates) /\ DOMAIN msgs = 1..Len(msgs) /\ last \in Nat
      /\ up \in Seq(Answers) /\ down \in Seq(Lines) /\ down' \in Seq(Lines)
  BY LenProperties DEF ListInv, ListType, RestType
<1>3. SameTransfer
  BY <1>1 DEF SameTransfer
<1>4. clean => Said(a) /\ \A k \in DOMAIN up' : Said(up[k + 1]) /\ up'[k] = up[k + 1]
  BY <1>1, <1>2, LineChanges DEF ReportInv
<1>5. clean => \A k \in DOMAIN up' : Said(up[k])'
  BY <1>1, <1>4 DEF Said
<1>6. CASE ~findMsgBlock(a.msg)
  <2>1. UNCHANGED <<msgs, down, verdict>>
    BY <1>1, <1>6 DEF handleMgaAckMsg, libVars
  <2> QED
    BY <1>1, <1>2, <1>3, <1>5, <2>1, ReportGoesOn DEF ReportInv
<1>7. CASE findMsgBlock(a.msg)
  <2> HIDE DEF a
  <2>1. a.msg \in WaitingIn(msgs) /\ a.msg \in DOMAIN msgs
    BY <1>7 DEF findMsgBlock, Waiting, WaitingIn
  <2>2. CASE lastAck
    <3>1. msgs' = <<>> /\ down' = down
      BY <1>1, <1>7, <2>2 DEF handleMgaAckMsg, sessionStop
    <3>2. AnsweredIn(msgs) \cup {a.msg} = 1..Len(msgs)
      BY <1>2, <2>1, <2>2, LastAnswer DEF lastAck, ListInv, AckCountExact, Answered
    <3>3. clean => AllAnswered
      <4>1. ASSUME clean, NEW i \in 1..Len(msgs) PROVE i \in stored \cup refused
        BY <1>2, <1>4, <3>2, <4>1 DEF ReportInv, Said, AnsweredIn
      <4>2. Len(msgs) = size
        BY <1>2, <2>1 DEF ReportInv
      <4> QED
        BY <4>1, <4>2 DEF AllAnswered
    <3> QED
      BY <1>1, <1>2, <1>3, <1>5, <3>1, <3>3, ReportGoesOn DEF ReportInv
  <2>3. CASE ~lastAck
    <3>1. /\ verdict' = verdict
          /\ sendNextMgaMessage(list) \/ (msgs' = list /\ down' = down)
      BY <1>1, <1>7, <2>3 DEF handleMgaAckMsg
    <3>2. settledAs(a) \in MsgStates
      BY DEF settledAs, MsgStates
    <3>3. /\ list \in Seq(MsgStates) /\ Len(list) = Len(msgs) /\ DOMAIN list = DOMAIN msgs
      BY <1>2, <2>1, <3>2, SetState
    <3>4. \A i \in DOMAIN msgs : list[i] = IF i = a.msg THEN settledAs(a) ELSE msgs[i]
      BY <1>2
    <3>5. clean => \/ settledAs(a) = "RECEIVED" /\ a.msg \in stored'
                   \/ settledAs(a) = "NACKED" /\ a.msg \in refused'
      BY <1>1, <1>4 DEF Said, settledAs
    <3> HIDE DEF list
    <3>6. /\ Len(msgs') = Len(msgs) /\ DOMAIN msgs' = DOMAIN msgs
          /\ \A i \in DOMAIN msgs : msgs'[i] \in {list[i], "WAITING_FOR_ACK"}
          /\ \/ down' = down
             \/ \E i \in DOMAIN msgs : down' = Append(down, OnLine(i, transfer))
      BY <1>2, <3>1, <3>3, SendNextRecords
    <3>7. clean => \A k \in DOMAIN down' : down'[k].transfer = transfer
      <4>1. ASSUME NEW i \in DOMAIN msgs
            PROVE  OnLine(i, transfer) \in Lines /\ OnLine(i, transfer).transfer = transfer
        BY <1>2, <4>1 DEF OnLine, Lines, RestType
      <4> QED
        BY <1>2, <3>6, <4>1, LineChanges DEF ReportInv
    <3>8. \A i \in DOMAIN msgs :
            \/ msgs'[i] \in {msgs[i], "WAITING_FOR_ACK", "GIVEN_UP"}
            \/ clean => \/ msgs'[i] = "RECEIVED" /\ i \in stored'
                        \/ msgs'[i] = "NACKED" /\ i \in refused'
      BY <3>4, <3>5, <3>6
    <3>9. msgs # <<>>
      BY <1>2, <2>1
    <3> QED
      BY <1>1, <1>2, <1>3, <1>5, <3>1, <3>6, <3>7, <3>8, <3>9, ReportGoesOn DEF ReportInv
  <2> QED
    BY <2>2, <2>3
<1> QED
  BY <1>6, <1>7

\* A message that is late is sent again or given up: nothing is recorded.
LEMMA ReportTimedOut ==
  ASSUME ListInv, RestType, RestType', ReportInv, checkForTimeOuts
  PROVE  ReportInv'
<1>1. /\ scan \in DOMAIN msgs /\ checkForTimeOut(scan)
      /\ UNCHANGED <<transfer, size, clean, result, up, stored, refused>>
  BY DEF checkForTimeOuts, clientVars, rcvVars
<1>2. /\ msgs \in Seq(MsgStates) /\ DOMAIN msgs = 1..Len(msgs) /\ last \in Nat
      /\ down \in Seq(Lines) /\ down' \in Seq(Lines)
  BY LenProperties DEF ListInv, ListType, RestType
<1>3. SameTransfer
  BY <1>1 DEF SameTransfer
<1>4. clean => \A k \in DOMAIN up' : Said(up[k])'
  BY <1>1 DEF Said, ReportInv
<1>5. ASSUME NEW i \in DOMAIN msgs
      PROVE  OnLine(i, transfer) \in Lines /\ OnLine(i, transfer).transfer = transfer
  BY <1>2, <1>5 DEF OnLine, Lines, RestType
<1>6. verdict' = verdict \/ verdict' = "fail"
  BY <1>1 DEF checkForTimeOut, reportFailure
<1>7. /\ Len(msgs') = Len(msgs) /\ DOMAIN msgs' = DOMAIN msgs
      /\ \A i \in DOMAIN msgs : msgs'[i] \in {msgs[i], "WAITING_FOR_ACK", "GIVEN_UP"}
      /\ \/ down' = down
         \/ \E i \in DOMAIN msgs : down' = Append(down, OnLine(i, transfer))
  <2>1. CASE ~timedOut(scan)
    BY <1>1, <2>1 DEF checkForTimeOut, libVars
  <2>2. CASE timedOut(scan) /\ mayResend(scan)
    <3>1. /\ msgs' = [msgs EXCEPT ![scan] = "WAITING_FOR_ACK"]
          /\ down' = Append(down, OnLine(scan, transfer))
      BY <1>1, <2>2 DEF checkForTimeOut
    <3>2. Len(msgs') = Len(msgs) /\ DOMAIN msgs' = DOMAIN msgs
      BY <1>1, <1>2, <3>1, SetState DEF MsgStates
    <3> QED
      BY <1>1, <3>1, <3>2
  <2>3. CASE timedOut(scan) /\ ~mayResend(scan)
    <3> DEFINE list == [msgs EXCEPT ![scan] = "GIVEN_UP"]
    <3>1. sendNextMgaMessage(list)
      BY <1>1, <2>3 DEF checkForTimeOut
    <3>2. list \in Seq(MsgStates) /\ Len(list) = Len(msgs) /\ DOMAIN list = DOMAIN msgs
      BY <1>1, <1>2, SetState DEF MsgStates
    <3>3. \A i \in DOMAIN msgs : list[i] \in {msgs[i], "GIVEN_UP"}
      BY <1>1
    <3> HIDE DEF list
    <3>4. /\ Len(msgs') = Len(list) /\ DOMAIN msgs' = DOMAIN list
          /\ \A i \in DOMAIN list : msgs'[i] \in {list[i], "WAITING_FOR_ACK"}
          /\ \/ down' = down
             \/ \E i \in DOMAIN list : down' = Append(down, OnLine(i, transfer))
      BY <1>2, <3>1, <3>2, SendNextRecords
    <3> QED
      BY <3>2, <3>3, <3>4
  <2> QED
    BY <2>1, <2>2, <2>3
<1>8. clean => \A k \in DOMAIN down' : down'[k].transfer = transfer
  <2> SUFFICES ASSUME clean, NEW k \in DOMAIN down' PROVE down'[k].transfer = transfer
    OBVIOUS
  <2>1. CASE down' = down
    BY <2>1 DEF ReportInv
  <2>2. ASSUME NEW i \in DOMAIN msgs, down' = Append(down, OnLine(i, transfer))
        PROVE  down'[k].transfer = transfer
    <3>1. (k \in DOMAIN down /\ down'[k] = down[k]) \/ down'[k] = OnLine(i, transfer)
      BY <1>2, <1>5, <2>2, LineChanges
    <3> QED
      BY <1>5, <3>1 DEF ReportInv
  <2> QED
    BY <1>7, <2>1, <2>2
<1>9. msgs # <<>>
  BY <1>1
<1> QED
  BY <1>1, <1>2, <1>3, <1>4, <1>6, <1>7, <1>8, <1>9, ReportGoesOn DEF ReportInv

\* The receiver gets a message: what it answers it also did.
LEMMA ReportReceived ==
  ASSUME ListInv, RestType, RestType', ReportInv,
         NEW ok \in BOOLEAN, NEW answered \in BOOLEAN, Receiver(ok, answered)
  PROVE  ReportInv'
<1> DEFINE m == Head(down)
           a == [msg |-> m.msg, ok |-> ok]
<1>1. /\ down # <<>> /\ down' = Tail(down)
      /\ m.transfer = transfer => /\ stored' = IF ok THEN stored \cup {m.msg} ELSE stored
                                  /\ refused' = IF ok THEN refused ELSE refused \cup {m.msg}
      /\ stored \subseteq stored' /\ refused \subseteq refused'
      /\ up' = IF answered THEN Append(up, a) ELSE up
      /\ UNCHANGED <<msgs, verdict, transfer, size, clean, result>>
  BY DEF Receiver, libVars, clientVars
<1>2. down \in Seq(Lines) /\ down' \in Seq(Lines) /\ up \in Seq(Answers)
  BY DEF RestType
<1>3. SameTransfer
  BY <1>1 DEF SameTransfer
<1>4. clean => m.transfer = transfer /\ \A k \in DOMAIN down' : down'[k].transfer = transfer
  BY <1>1, <1>2, LineChanges DEF ReportInv
<1>5. a \in Answers
  <2>1. m \in Lines
    BY <1>1, <1>2, HeadTailProperties
  <2> QED
    BY <2>1 DEF Lines, Answers
<1>6. clean => IF a.ok THEN a.msg \in stored' ELSE a.msg \in refused'
  BY <1>1, <1>4
<1> HIDE DEF a
<1>7. clean => \A k \in DOMAIN up' : Said(up[k])'
  <2> SUFFICES ASSUME clean, NEW k \in DOMAIN up'
               PROVE  IF up'[k].ok THEN up'[k].msg \in stored' ELSE up'[k].msg \in refused'
    BY DEF Said
  <2>1. (k \in DOMAIN up /\ up'[k] = up[k]) \/ up'[k] = a
    BY <1>1, <1>2, <1>5, LineChanges
  <2> QED
    BY <1>1, <1>6, <2>1 DEF ReportInv, Said
<1> QED
  BY <1>1, <1>2, <1>3, <1>4, <1>7, ReportGoesOn DEF ReportInv

\* Every step keeps it.
LEMMA ReportStep ==
  ASSUME ListInv, RestType, ReportInv, [Next]_vars
  PROVE  ReportInv'
<1>0. RestType'
  BY RestTypeStep
<1>1. CASE transferRefused
  <2>1. /\ UNCHANGED <<down, up>> /\ msgs' = <<>>
        /\ verdict' = "again" /\ result' = "fail"
        /\ clean' = (down = <<>> /\ up = <<>>)
    BY <1>1 DEF transferRefused, BeginTransfer, sessionStop
  <2>2. clean' => down' = <<>> /\ up' = <<>>
    BY <2>1
  <2> QED
    BY <2>1, <2>2 DEF ReportInv, Said
<1>2. ASSUME UNCHANGED <<msgs, transfer, size, clean, stored, refused, verdict>>,
             result' \in {result, verdict, "cancelled"},
             \/ UNCHANGED <<down, up>>
             \/ down # <<>> /\ down' = Tail(down) /\ up' = up
             \/ up # <<>> /\ up' = Tail(up) /\ down' = down
      PROVE  ReportInv'
  <2>1. down \in Seq(Lines) /\ down' \in Seq(Lines) /\ up \in Seq(Answers)
    BY <1>0 DEF RestType
  <2>2. SameTransfer
    BY <1>2 DEF SameTransfer
  <2>3. clean => \A k \in DOMAIN down' : down'[k].transfer = transfer
    <3> SUFFICES ASSUME clean, NEW k \in DOMAIN down' PROVE down'[k].transfer = transfer
      OBVIOUS
    <3>1. (k \in DOMAIN down /\ down'[k] = down[k])
            \/ (k + 1 \in DOMAIN down /\ down'[k] = down[k + 1])
      BY <1>2, <2>1, LineChanges
    <3> QED
      BY <3>1 DEF ReportInv
  <2>4. clean => \A k \in DOMAIN up' : Said(up'[k])
    <3> SUFFICES ASSUME clean, NEW k \in DOMAIN up' PROVE Said(up'[k])
      OBVIOUS
    <3>1. (k \in DOMAIN up /\ up'[k] = up[k]) \/ (k + 1 \in DOMAIN up /\ up'[k] = up[k + 1])
      <4>1. CASE UNCHANGED up
        BY <4>1
      <4>2. CASE up # <<>> /\ up' = Tail(up)
        BY <2>1, <4>2, LineChanges
      <4> QED
        BY <1>2, <4>1, <4>2
    <3> QED
      BY <3>1 DEF ReportInv
  <2>5. clean => \A k \in DOMAIN up' : Said(up[k])'
    BY <1>2, <2>4 DEF Said
  <2>6. msgs' = <<>> \/ msgs # <<>>
    BY <1>2
  <2> QED
    BY <1>2, <2>1, <2>2, <2>3, <2>5, <2>6, ReportGoesOn
<1>3. CASE timeoutMessage \/ continueReturns \/ clearActions \/ unwantedMessage \/ LoseMessage
  BY <1>2, <1>3 DEF timeoutMessage, continueReturns, clearActions, unwantedMessage, LoseMessage,
                    transferResult, libVars, clientVars, rcvVars
<1>4. ASSUME NEW late1, Tick(late1) PROVE ReportInv'
  BY <1>2, <1>4 DEF Tick, clientVars, rcvVars
<1>5. CASE UNCHANGED vars
  BY <1>2, <1>5 DEF vars, libVars, clientVars, rcvVars
<1> QED
  BY <1>0, <1>1, <1>3, <1>4, <1>5, ReportBegins, ReportAnswered, ReportTimedOut, ReportReceived
     DEF Next, Step

\* What the session records the receiver said, and a transfer that is reported
\* as successful was answered message by message, whatever is lost, repeated or
\* late and however many transfers there are, if the line was empty when the
\* transfer began.
THEOREM ReportsAlwaysTrue == Spec => []ReportsTrue
<1>1. Init => ReportInv
  BY DEF Init, ReportInv
<1>2. ListInv /\ RestType /\ ReportInv /\ [Next]_vars => ReportInv'
  BY ReportStep
<1>3. ReportInv => ReportsTrue
  BY DEF ReportInv, ReportsTrue, AllAnswered
<1> QED
  BY <1>1, <1>2, <1>3, RestTyped, PTL DEF Spec


=============================================================================
