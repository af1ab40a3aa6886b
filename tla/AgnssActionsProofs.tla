-------------------------- MODULE AgnssActionsProofs --------------------------
(***************************************************************************)
(* For any number of requests, tries, messages and jobs: the list of       *)
(* actions and the list of functions stay together; the types; and what an *)
(* action that succeeds has achieved.  The last rests on what is on the    *)
(* line: as long as no answer was left over when an action failed or was   *)
(* cleared, the line holds, apart from the configuration that is tried     *)
(* several times, only what the current function sent and its answers.     *)
(***************************************************************************)
EXTENDS AgnssActions, SequenceTheorems, TLAPS

Jobs == [action : Actions, n : 1..MaxJobs]
Names == {"configureAidAck", "timeTransfer", "posTransfer", "recvStateTransfer",
          "recvStatePoll", "finishTimeTransfer"}
ListTypes == requests \in Seq(Jobs) /\ execList \in Seq(Names) /\ jobs \in 0..MaxJobs
ListInv == ListTypes /\ CurrentIsFront

\* Every action has functions, and they are those of CAssistNowMga.
LEMMA FunctionsTyped ==
  ASSUME NEW action \in Actions
  PROVE  functions(action) \in Seq(Names) /\ functions(action) # <<>>
<1>1. CASE action = "TIME"
  BY <1>1 DEF functions, Names
<1>2. CASE action = "POSITION"
  BY <1>2 DEF functions, Names
<1>3. CASE action = "RECV_AID_STATE"
  BY <1>3 DEF functions, Names
<1>4. CASE action = "POLL_RECV"
  BY <1>4 DEF functions, Names
<1> QED
  BY <1>1, <1>2, <1>3, <1>4 DEF Actions

\* The functions left after a call belong to the same action.
LEMMA ListAfterCall ==
  ASSUME NEW list \in Seq(Names), list # <<>>, NEW S,
         \A i \in DOMAIN list : list[i] \in S,
         NEW rest \in {list, Tail(list), <<>>}
  PROVE  rest \in Seq(Names) /\ \A i \in DOMAIN rest : rest[i] \in S
<1>1. CASE rest = Tail(list)
  <2>1. Tail(list) \in Seq(Names) /\ Len(Tail(list)) = Len(list) - 1
    BY HeadTailProperties
  <2>2. \A i \in 1..Len(Tail(list)) : Tail(list)[i] = list[i + 1]
    BY HeadTailProperties
  <2>3. \A i \in 1..Len(Tail(list)) : i + 1 \in DOMAIN list
    BY <2>1, LenProperties
  <2>4. DOMAIN Tail(list) = 1..Len(Tail(list))
    BY <2>1, LenProperties
  <2> QED
    BY <1>1, <2>1, <2>2, <2>3, <2>4
<1>2. CASE rest = <<>>
  BY <1>2
<1>3. CASE rest = list
  BY <1>3
<1> QED
  BY <1>1, <1>2, <1>3

\* stateCheck, which starts, carries on and ends an action, keeps the invariant.
LEMMA StateCheckStep ==
  ASSUME ListInv, NEW b, NEW have, NEW ok, stateCheck(b, have, ok)
  PROVE  ListInv'
<1> USE DEF ListInv
<1>1. /\ finished = <<>> /\ requests # <<>>
      /\ running' = job /\ jobs' = jobs
      /\ initFails \/ callFunction(b, have, ok)
  BY DEF stateCheck
<1>2. /\ requests \in Seq(Jobs) /\ Head(requests) \in Jobs
      /\ Tail(requests) \in Seq(Jobs)
  BY <1>1, HeadTailProperties DEF ListTypes
<1>3. job = Head(requests)
  BY <1>1 DEF job, starting, CurrentIsFront
<1>4. ASSUME NEW success, finish(success), execList' = <<>> PROVE ListInv'
  <2>1. requests' = Tail(requests) /\ finished'[1].job = Head(requests)
    BY <1>4 DEF finish
  <2> QED
    BY <1>1, <1>2, <1>3, <1>4, <2>1 DEF CurrentIsFront, ListTypes
<1>5. CASE initFails
  <2>1. finish(FALSE) /\ execList' = <<>>
    BY <1>5 DEF initFails, noFunctions, starting
  <2> QED
    BY <1>4, <2>1
<1>6. CASE callFunction(b, have, ok)
  <2> DEFINE list == IF starting THEN functions(job.action) ELSE execList
  <2>1. job.action \in Actions
    BY <1>2, <1>3 DEF Jobs
  <2>2. list \in Seq(Names) /\ list # <<>>
    BY <2>1, FunctionsTyped DEF starting, ListTypes
  <2>3. \A i \in DOMAIN list : list[i] \in functionsOf(job.action)
    <3>1. CASE starting
      BY <3>1 DEF functionsOf
    <3>2. CASE ~starting
      BY <3>2 DEF starting, CurrentIsFront, job
    <3> QED
      BY <3>1, <3>2
  <2>4. PICK result \in Results :
          /\ execList' = CASE result = "success" -> Tail(list)
                           [] result = "fail" -> <<>>
                           [] OTHER -> list
          /\ IF execList' = <<>> THEN finish(result = "success")
                                 ELSE UNCHANGED <<requests, finished>>
    BY <1>6 DEF callFunction
  <2>5. execList' \in {list, Tail(list), <<>>}
    BY <2>4
  <2>6. /\ execList' \in Seq(Names)
        /\ \A i \in DOMAIN execList' : execList'[i] \in functionsOf(job.action)
    <3> HIDE DEF list
    <3> QED
      BY <2>2, <2>3, <2>5, ListAfterCall
  <2>7. CASE execList' = <<>>
    BY <1>4, <2>4, <2>7
  <2>8. CASE execList' # <<>>
    <3>1. requests' = requests /\ finished' = finished
      BY <2>4, <2>8
    <3> QED
      BY <1>1, <1>2, <1>3, <2>6, <3>1 DEF CurrentIsFront, ListTypes
  <2> QED
    BY <2>7, <2>8
<1> QED
  BY <1>1, <1>5, <1>6

\* Every step keeps the invariant.
LEMMA ListStep == ASSUME ListInv, [Next]_vars PROVE ListInv'
<1> USE DEF ListInv
<1>1. ASSUME NEW action \in Actions, scheduleAction(action) PROVE ListInv'
  <2>1. /\ jobs < MaxJobs /\ jobs' = jobs + 1
        /\ UNCHANGED <<execList, finished, running>>
        /\ requests' \in {requests, Append(requests, [action |-> action, n |-> jobs + 1])}
    BY <1>1 DEF scheduleAction
  <2>2. [action |-> action, n |-> jobs + 1] \in Jobs
    BY <2>1, AgnssAssumption DEF ListTypes, Jobs
  <2> DEFINE job1 == [action |-> action, n |-> jobs + 1]
  <2> HIDE DEF job1
  <2>3. Append(requests, job1) \in Seq(Jobs) /\ Append(requests, job1) # <<>>
    BY <2>2, AppendProperties DEF ListTypes, job1
  <2>4. requests # <<>> => Head(Append(requests, job1)) = Head(requests)
    BY <2>2 DEF ListTypes, job1
  <2>5. requests' \in {requests, Append(requests, job1)}
    BY <2>1 DEF job1
  <2>6. ListTypes'
    <3>1. requests' \in Seq(Jobs)
      BY <2>3, <2>5 DEF ListTypes
    <3>2. jobs' \in 0..MaxJobs /\ execList' \in Seq(Names)
      BY <2>1, AgnssAssumption DEF ListTypes
    <3> QED
      BY <3>1, <3>2 DEF ListTypes
  <2>7. requests # <<>> => requests' # <<>> /\ Head(requests') = Head(requests)
    BY <2>3, <2>4, <2>5
  <2> QED
    BY <2>1, <2>6, <2>7 DEF CurrentIsFront
<1>2. CASE clearActions
  BY <1>2 DEF clearActions, resetState, ListTypes, CurrentIsFront
<1>3. ASSUME NEW have \in BOOLEAN, NEW ok \in BOOLEAN, timeout(have, ok) \/ processMsg(have, ok)
      PROVE  ListInv'
  BY <1>3, StateCheckStep DEF timeout, processMsg
<1>4. CASE unwantedMessage
  BY <1>4 DEF unwantedMessage, listVars, ListTypes, CurrentIsFront
<1>5. CASE transferFinished
  BY <1>5 DEF transferFinished, ListTypes, CurrentIsFront
<1>6. ASSUME NEW ok \in BOOLEAN, Receiver(ok) PROVE ListInv'
  BY <1>6 DEF Receiver, listVars, ListTypes, CurrentIsFront
<1>7. CASE Lose
  BY <1>7 DEF Lose, listVars, ListTypes, CurrentIsFront
<1>8. CASE UNCHANGED vars
  BY <1>8 DEF vars, listVars, ListTypes, CurrentIsFront
<1> QED
  BY <1>1, <1>2, <1>3, <1>4, <1>5, <1>6, <1>7, <1>8 DEF Next, Thread

\* The functions carried out are always those of the request at the front, and
\* its end is the one reported, whatever is scheduled and cleared meanwhile.
THEOREM FrontIsCurrent == Spec => []CurrentIsFront
<1>1. Init => ListInv
  BY AgnssAssumption DEF Init, ListInv, ListTypes, CurrentIsFront
<1>2. ListInv /\ [Next]_vars => ListInv'
  BY ListStep
<1>3. ListInv => CurrentIsFront
  BY DEF ListInv
<1> QED
  BY <1>1, <1>2, <1>3, PTL DEF Spec

-----------------------------------------------------------------------------
(* What is on the line *)

Payloads == 0..MaxJobs + Items
Downs == [msg : Objects, n : Payloads, job : 1..MaxJobs]
Acks == [is : {"CFG", "INI", "DBD"}, ok : BOOLEAN, n : {Items}]
Datas == [is : {"DATA"}, ok : {TRUE}, n : 1..Items]
Ups == Acks \cup Datas

\* Nothing but the configuration and its answers.
Quiet(d, u) == /\ \A i \in DOMAIN d : d[i].msg = "NAVX5"
               /\ \A i \in DOMAIN u : u[i].is = "CFG"

\* Besides, at most one message of the object o, sent for job n, or its answer.
OneLine(d, u, o, n) ==
  /\ \A i \in DOMAIN d : d[i].msg = "NAVX5" \/ (d[i].msg = o /\ d[i].job = n)
  /\ \A i \in DOMAIN u : u[i].is = "CFG" \/ u[i].is = ackOf(o)
  /\ \A i, j \in DOMAIN d : d[i].msg # "NAVX5" /\ d[j].msg # "NAVX5" => i = j
  /\ \A i, j \in DOMAIN u : u[i].is # "CFG" /\ u[j].is # "CFG" => i = j
  /\ \A i \in DOMAIN d, j \in DOMAIN u : d[i].msg = "NAVX5" \/ u[j].is = "CFG"

\* Besides, a poll that nothing was stored for yet, or a part of its answer: the
\* messages of the database in their order, all behind those stored in p, and
\* their number at the end.
PollLine(d, u, p) ==
  /\ \A i \in DOMAIN d : d[i].msg = "NAVX5" \/ (d[i].msg = "POLL" /\ p = <<>>)
  /\ \A i, j \in DOMAIN d : d[i].msg # "NAVX5" /\ d[j].msg # "NAVX5" => i = j
  /\ \A i \in DOMAIN d, j \in DOMAIN u : d[i].msg = "NAVX5" \/ u[j].is = "CFG"
  /\ \A i \in DOMAIN u : u[i].is \in {"CFG", "DBD", "DATA"}
  /\ \A i, j \in DOMAIN u : i < j /\ u[i].is # "CFG" /\ u[j].is # "CFG" =>
       u[i].is = "DATA" /\ (u[j].is = "DATA" => u[i].n < u[j].n)
  /\ \A k, l \in DOMAIN p : k < l => l - k <= p[l] - p[k]
  /\ \A k \in DOMAIN p, i \in DOMAIN u : u[i].is = "DATA" => p[k] < u[i].n

\* The parts of a sequence from which the first element was taken.
LEMMA TailPart ==
  ASSUME NEW S, NEW s \in Seq(S), s # <<>>
  PROVE  /\ Head(s) \in S /\ Head(s) = s[1] /\ 1 \in DOMAIN s
         /\ Tail(s) \in Seq(S)
         /\ \A i \in DOMAIN Tail(s) : i \in 1..Len(s) - 1 /\ i + 1 \in DOMAIN s
                                      /\ Tail(s)[i] = s[i + 1]
<1>1. Tail(s) \in Seq(S) /\ Len(Tail(s)) = Len(s) - 1 /\ Head(s) \in S
      /\ \A i \in 1..Len(Tail(s)) : Tail(s)[i] = s[i + 1]
  BY HeadTailProperties
<1>2. DOMAIN s = 1..Len(s) /\ DOMAIN Tail(s) = 1..Len(Tail(s)) /\ Len(s) \in Nat /\ Len(s) # 0
  BY <1>1, LenProperties
<1>3. Head(s) = s[1] /\ 1 \in DOMAIN s
  BY <1>2
<1> QED
  BY <1>1, <1>2, <1>3

\* The parts of a sequence to which an element was added.
LEMMA AppendPart ==
  ASSUME NEW S, NEW s \in Seq(S), NEW e \in S
  PROVE  /\ Append(s, e) \in Seq(S)
         /\ DOMAIN Append(s, e) = 1..Len(s) + 1 /\ DOMAIN s = 1..Len(s) /\ Len(s) \in Nat
         /\ \A i \in DOMAIN s : Append(s, e)[i] = s[i]
         /\ Append(s, e)[Len(s) + 1] = e
<1>1. /\ Append(s, e) \in Seq(S) /\ Len(Append(s, e)) = Len(s) + 1
      /\ \A i \in 1..Len(s) : Append(s, e)[i] = s[i]
      /\ Append(s, e)[Len(s) + 1] = e
  BY AppendProperties
<1>2. DOMAIN s = 1..Len(s) /\ DOMAIN Append(s, e) = 1..Len(Append(s, e)) /\ Len(s) \in Nat
  BY <1>1, LenProperties
<1> QED
  BY <1>1, <1>2

\* What is taken from the line leaves no more on it.
LEMMA LineShrinks ==
  ASSUME NEW d \in Seq(Downs), NEW u \in Seq(Ups)
  PROVE  /\ Quiet(d, u) => /\ d # <<>> => Quiet(Tail(d), u)
                           /\ u # <<>> => Quiet(d, Tail(u))
         /\ \A o, n : OneLine(d, u, o, n) => /\ d # <<>> => OneLine(Tail(d), u, o, n)
                                             /\ u # <<>> => OneLine(d, Tail(u), o, n)
         /\ \A p : PollLine(d, u, p) => /\ d # <<>> => PollLine(Tail(d), u, p)
                                        /\ u # <<>> => PollLine(d, Tail(u), p)
<1> DEFINE T(s) == Tail(s)
<1>1. d # <<>> => \A i \in DOMAIN Tail(d) : i \in Int /\ i + 1 \in DOMAIN d /\ Tail(d)[i] = d[i + 1]
  BY TailPart
<1>2. u # <<>> => \A i \in DOMAIN Tail(u) : i \in Int /\ i + 1 \in DOMAIN u /\ Tail(u)[i] = u[i + 1]
  BY TailPart
<1> HIDE DEF T
<1>3. d # <<>> => \A i \in DOMAIN T(d) : i \in Int /\ i + 1 \in DOMAIN d /\ T(d)[i] = d[i + 1]
  BY <1>1 DEF T
<1>4. u # <<>> => \A i \in DOMAIN T(u) : i \in Int /\ i + 1 \in DOMAIN u /\ T(u)[i] = u[i + 1]
  BY <1>2 DEF T
<1>5. Quiet(d, u) /\ d # <<>> => Quiet(T(d), u)
  BY <1>3 DEF Quiet
<1>6. Quiet(d, u) /\ u # <<>> => Quiet(d, T(u))
  BY <1>4 DEF Quiet
<1>7. ASSUME NEW o, NEW n, OneLine(d, u, o, n), d # <<>> PROVE OneLine(T(d), u, o, n)
  BY <1>3, <1>7 DEF OneLine
<1>8. ASSUME NEW o, NEW n, OneLine(d, u, o, n), u # <<>> PROVE OneLine(d, T(u), o, n)
  BY <1>4, <1>8 DEF OneLine
<1>9. ASSUME NEW p, PollLine(d, u, p), d # <<>> PROVE PollLine(T(d), u, p)
  BY <1>3, <1>9 DEF PollLine
<1>10. ASSUME NEW p, PollLine(d, u, p), u # <<>> PROVE PollLine(d, T(u), p)
  <2>1. \A i, j \in DOMAIN T(u) : i < j => i + 1 < j + 1
    BY <1>4, <1>10
  <2> QED
    BY <1>4, <1>10, <2>1 DEF PollLine
<1> QED
  BY <1>5, <1>6, <1>7, <1>8, <1>9, <1>10 DEF T

\* When the answer arrives, nothing is left.
LEMMA LineAnswered ==
  ASSUME NEW d \in Seq(Downs), NEW u \in Seq(Ups), NEW o, NEW n, OneLine(d, u, o, n),
         u # <<>>, Head(u).is # "CFG"
  PROVE  Quiet(d, Tail(u)) /\ Head(u).is = ackOf(o)
<1>1. Head(u) = u[1] /\ 1 \in DOMAIN u
  BY TailPart
<1> DEFINE t == Tail(u)
<1>2. \A i \in DOMAIN t : i \in 1..Len(u) - 1 /\ i + 1 \in DOMAIN u /\ t[i] = u[i + 1]
  BY TailPart
<1> HIDE DEF t
<1>3. \A i \in DOMAIN t : i + 1 # 1
  BY <1>2, LenProperties
<1> QED
  BY <1>1, <1>2, <1>3 DEF OneLine, Quiet, t

\* The line after a message is written.
LEMMA LineWritten ==
  ASSUME NEW d \in Seq(Downs), NEW u \in Seq(Ups), NEW m \in Downs, Quiet(d, u)
  PROVE  /\ m.msg = "NAVX5" => Quiet(Append(d, m), u)
         /\ OneLine(Append(d, m), u, m.msg, m.job)
         /\ m.msg = "POLL" => PollLine(Append(d, m), u, <<>>)
         /\ \A o, n : OneLine(d, u, o, n)
<1> DEFINE a == Append(d, m)
<1>1. DOMAIN a = 1..Len(d) + 1 /\ DOMAIN d = 1..Len(d) /\ Len(d) \in Nat
      /\ (\A i \in DOMAIN d : a[i] = d[i]) /\ a[Len(d) + 1] = m
  BY AppendPart
<1> HIDE DEF a
<1>2. \A i \in DOMAIN a : i = Len(d) + 1 \/ (i \in DOMAIN d /\ a[i] = d[i])
  BY <1>1
<1>3. m.msg = "NAVX5" => Quiet(a, u)
  BY <1>1, <1>2 DEF Quiet
<1>4. OneLine(a, u, m.msg, m.job)
  BY <1>1, <1>2 DEF Quiet, OneLine
<1>5. m.msg = "POLL" => PollLine(a, u, <<>>)
  <2> SUFFICES ASSUME m.msg = "POLL" PROVE PollLine(a, u, <<>>)
    OBVIOUS
  <2>1. DOMAIN <<>> = {}
    OBVIOUS
  <2> QED
    BY <1>1, <1>2, <2>1 DEF Quiet, PollLine
<1>6. \A o, n : OneLine(d, u, o, n)
  BY DEF Quiet, OneLine
<1> QED
  BY <1>3, <1>4, <1>5, <1>6 DEF a

\* The receiver answers a message that is not a poll.
LEMMA LineReceived ==
  ASSUME NEW d \in Seq(Downs), NEW u \in Seq(Ups), d # <<>>, Head(d).msg # "POLL",
         NEW a \in Acks, a.is = ackOf(Head(d).msg)
  PROVE  /\ Quiet(d, u) => Quiet(Tail(d), Append(u, a))
         /\ \A o, n : OneLine(d, u, o, n) => /\ OneLine(Tail(d), Append(u, a), o, n)
                                             /\ a.is # "CFG" => Head(d).msg = o /\ Head(d).job = n
         /\ \A p : PollLine(d, u, p) => PollLine(Tail(d), Append(u, a), p)
<1> DEFINE t == Tail(d)
           v == Append(u, a)
<1>1. /\ 1 \in DOMAIN d /\ Head(d) = d[1] /\ Head(d) \in Downs
      /\ \A i \in DOMAIN t : i \in Int /\ i # 0 /\ i + 1 \in DOMAIN d /\ t[i] = d[i + 1]
  BY TailPart
<1>2. DOMAIN v = 1..Len(u) + 1 /\ DOMAIN u = 1..Len(u) /\ Len(u) \in Nat
      /\ (\A i \in DOMAIN u : v[i] = u[i]) /\ v[Len(u) + 1] = a
  <2>1. a \in Ups
    BY DEF Ups
  <2> QED
    BY <2>1, AppendPart
<1> DEFINE h == Head(d)
<1> HIDE DEF t, v, h
<1>3. \A i \in DOMAIN v : i \in Int /\ (i = Len(u) + 1 \/ (i \in DOMAIN u /\ v[i] = u[i] /\ i # Len(u) + 1))
  BY <1>2
<1>4. h \in Downs /\ h = d[1] /\ h.msg # "POLL" /\ a.is = ackOf(h.msg)
  BY <1>1 DEF h
<1>5. h.msg = "NAVX5" <=> a.is = "CFG"
  BY <1>4 DEF Downs, Objects, ackOf
<1>6. \A i \in DOMAIN t : i + 1 # 1
  BY <1>1
<1>7. Quiet(d, u) => Quiet(t, v)
  BY <1>1, <1>2, <1>3, <1>4, <1>5 DEF Quiet
<1>8. ASSUME NEW o, NEW n, OneLine(d, u, o, n)
      PROVE  OneLine(t, v, o, n) /\ (a.is # "CFG" => h.msg = o /\ h.job = n)
  <2>1. h.msg = "NAVX5" \/ (h.msg = o /\ h.job = n)
    BY <1>1, <1>4, <1>8 DEF OneLine
  <2>2. h.msg # "NAVX5" => Quiet(t, u)
    BY <1>1, <1>4, <1>6, <1>8 DEF OneLine, Quiet
  <2>3. CASE h.msg = "NAVX5"
    BY <1>1, <1>2, <1>3, <1>4, <1>5, <1>8, <2>1, <2>3 DEF OneLine
  <2>4. CASE h.msg # "NAVX5"
    BY <1>2, <1>3, <1>4, <2>1, <2>2, <2>4 DEF OneLine, Quiet
  <2> QED
    BY <1>5, <2>1, <2>3, <2>4
<1>9. ASSUME NEW p, PollLine(d, u, p) PROVE PollLine(t, v, p)
  <2>1. h.msg = "NAVX5" /\ a.is = "CFG"
    BY <1>1, <1>4, <1>5, <1>9 DEF PollLine
  <2>2. /\ \A i \in DOMAIN t : t[i].msg = "NAVX5" \/ (t[i].msg = "POLL" /\ p = <<>>)
        /\ \A i, j \in DOMAIN t : t[i].msg # "NAVX5" /\ t[j].msg # "NAVX5" => i = j
    BY <1>1, <1>9 DEF PollLine
  <2>3. \A i \in DOMAIN t, j \in DOMAIN v : t[i].msg = "NAVX5" \/ v[j].is = "CFG"
    BY <1>1, <1>2, <1>3, <1>9, <2>1 DEF PollLine
  <2>4. \A i \in DOMAIN v : v[i].is \in {"CFG", "DBD", "DATA"}
    BY <1>2, <1>3, <1>9, <2>1 DEF PollLine
  <2>5. \A i, j \in DOMAIN v : i < j /\ v[i].is # "CFG" /\ v[j].is # "CFG" =>
          v[i].is = "DATA" /\ (v[j].is = "DATA" => v[i].n < v[j].n)
    <3>1. \A i \in DOMAIN v : v[i].is # "CFG" => i \in DOMAIN u /\ v[i] = u[i]
      BY <1>2, <1>3, <2>1
    <3> QED
      BY <1>9, <3>1 DEF PollLine
  <2>6. \A k, l \in DOMAIN p : k < l => l - k <= p[l] - p[k]
    BY <1>9 DEF PollLine
  <2>7. \A k \in DOMAIN p, i \in DOMAIN v : v[i].is = "DATA" => p[k] < v[i].n
    BY <1>2, <1>3, <1>9, <2>1 DEF PollLine
  <2> QED
    BY <2>2, <2>3, <2>4, <2>5, <2>6, <2>7 DEF PollLine
<1> QED
  BY <1>7, <1>8, <1>9 DEF t, v, h

\* The messages of the database.
Database == [i \in 1..Items |-> [is |-> "DATA", ok |-> TRUE, n |-> i]]

\* A poll is answered with them and their number.
LEMMA PollReceived ==
  ASSUME NEW d \in Seq(Downs), NEW u \in Seq(Ups), d # <<>>, Head(d).msg = "POLL",
         NEW p, PollLine(d, u, p), NEW a \in Acks, a.is = "DBD"
  PROVE  PollLine(Tail(d), u \o Database \o <<a>>, p)
<1> DEFINE t == Tail(d)
           w == u \o Database
           v == w \o <<a>>
<1>1. /\ 1 \in DOMAIN d /\ Head(d) = d[1]
      /\ \A i \in DOMAIN t : i \in Int /\ i # 0 /\ i + 1 \in DOMAIN d /\ t[i] = d[i + 1]
  BY TailPart
<1>2. Database \in Seq(Ups) /\ Len(Database) = Items
      /\ \A i \in 1..Items : Database[i].is = "DATA" /\ Database[i].n = i
  <2>1. \A i \in 1..Items : [is |-> "DATA", ok |-> TRUE, n |-> i] \in Ups
    BY DEF Ups, Datas
  <2>2. Database \in [1..Items -> Ups] /\ Items \in Nat
    BY <2>1, AgnssAssumption DEF Database
  <2>3. Database \in Seq(Ups)
    BY <2>2
  <2> QED
    BY <2>2, <2>3 DEF Database
<1>3. a \in Ups /\ <<a>> \in Seq(Ups) /\ Len(<<a>>) = 1 /\ <<a>>[1] = a
  BY DEF Ups
<1> DEFINE D == Database
           s == <<a>>
<1> HIDE DEF t, D, s
<1>4. w \in Seq(Ups) /\ Len(w) = Len(u) + Items
      /\ \A i \in 1..Len(u) + Items : w[i] = IF i <= Len(u) THEN u[i] ELSE Database[i - Len(u)]
  BY <1>2, ConcatProperties
<1> HIDE DEF w
<1>5. v \in Seq(Ups) /\ Len(v) = Len(w) + 1
      /\ \A i \in 1..Len(w) + 1 : v[i] = IF i <= Len(w) THEN w[i] ELSE <<a>>[i - Len(w)]
  BY <1>3, <1>4, ConcatProperties
<1> HIDE DEF v
<1>6. Len(u) \in Nat /\ DOMAIN u = 1..Len(u) /\ Items \in Nat
      /\ DOMAIN v = 1..Len(u) + Items + 1
  BY <1>4, <1>5, LenProperties, AgnssAssumption
<1>7. \A i \in 1..Len(u) : v[i] = u[i] /\ i \in DOMAIN u
  BY <1>4, <1>5, <1>6
<1>8. \A i \in Len(u) + 1..Len(u) + Items : v[i] = Database[i - Len(u)] /\ i - Len(u) \in 1..Items
  BY <1>4, <1>5, <1>6
<1>9. \A i \in Len(u) + 1..Len(u) + Items : v[i].is = "DATA" /\ v[i].n = i - Len(u)
  BY <1>2, <1>8
<1>10. v[Len(u) + Items + 1] = a
  BY <1>3, <1>4, <1>5, <1>6
<1>11. \A i \in DOMAIN u : u[i].is = "CFG"
  BY <1>1 DEF PollLine
<1>12. p = <<>> /\ DOMAIN p = {}
  BY <1>1 DEF PollLine
<1>13. \A i \in DOMAIN v : i \in 1..Len(u) \/ i \in Len(u) + 1..Len(u) + Items \/ i = Len(u) + Items + 1
  BY <1>6
<1>14. \A i \in DOMAIN t : t[i].msg = "NAVX5"
  <2>1. \A i \in DOMAIN t : i + 1 # 1
    BY <1>1
  <2> QED
    BY <1>1, <2>1 DEF PollLine
<1>15. \A i \in DOMAIN v : v[i].is \in {"CFG", "DBD", "DATA"}
  BY <1>7, <1>9, <1>10, <1>11, <1>13
<1>16. ASSUME NEW i \in DOMAIN v, NEW j \in DOMAIN v, i < j, v[i].is # "CFG", v[j].is # "CFG"
       PROVE  v[i].is = "DATA" /\ (v[j].is = "DATA" => v[i].n < v[j].n)
  <2>1. i \notin 1..Len(u) /\ j \notin 1..Len(u)
    BY <1>7, <1>11, <1>16
  <2>2. i \in Len(u) + 1..Len(u) + Items
    BY <1>6, <1>13, <1>16, <2>1
  <2>3. v[i].is = "DATA" /\ v[i].n = i - Len(u)
    BY <1>9, <2>2
  <2>4. j = Len(u) + Items + 1 => v[j].is = "DBD"
    BY <1>10
  <2>5. j # Len(u) + Items + 1 => v[j].n = j - Len(u)
    BY <1>9, <1>13, <2>1
  <2>6. i - Len(u) < j - Len(u)
    BY <1>6, <1>16
  <2> QED
    BY <2>3, <2>4, <2>5, <2>6
<1>17. PollLine(t, v, p)
  BY <1>12, <1>14, <1>15, <1>16 DEF PollLine
<1> QED
  BY <1>17 DEF t, v, w

\* A message of the database is stored.
LEMMA PollStores ==
  ASSUME NEW d \in Seq(Downs), NEW u \in Seq(Ups), NEW p \in Seq(1..Items),
         PollLine(d, u, p), u # <<>>, Head(u).is = "DATA"
  PROVE  PollLine(d, Tail(u), Append(p, Head(u).n)) /\ Head(u).n \in 1..Items
<1> DEFINE h == Head(u)
           t == Tail(u)
           q == Append(p, h.n)
<1>1. h \in Ups /\ h = u[1] /\ 1 \in DOMAIN u
      /\ \A i \in DOMAIN t : i \in 1..Len(u) - 1 /\ i + 1 \in DOMAIN u /\ t[i] = u[i + 1]
  BY TailPart
<1>2. h.n \in 1..Items
  BY <1>1 DEF Ups, Acks, Datas
<1>3. DOMAIN q = 1..Len(p) + 1 /\ DOMAIN p = 1..Len(p) /\ Len(p) \in Nat
      /\ (\A i \in DOMAIN p : q[i] = p[i]) /\ q[Len(p) + 1] = h.n
  <2> DEFINE e == h.n
  <2>1. e \in 1..Items
    BY <1>2
  <2> HIDE DEF e
  <2>2. DOMAIN Append(p, e) = 1..Len(p) + 1 /\ DOMAIN p = 1..Len(p) /\ Len(p) \in Nat
        /\ (\A i \in DOMAIN p : Append(p, e)[i] = p[i]) /\ Append(p, e)[Len(p) + 1] = e
    BY <2>1, AppendPart
  <2> QED
    BY <2>2 DEF e
<1>4. PollLine(d, t, p)
  BY LineShrinks
<1>5. \A k \in DOMAIN p : p[k] \in 1..Items /\ p[k] < h.n
  BY <1>1, <1>3, ElementOfSeq DEF PollLine
<1> HIDE DEF h, t, q
<1>6. h.is = "DATA"
  BY DEF h
<1>7. \A i \in DOMAIN d : d[i].msg = "NAVX5"
  BY <1>1, <1>6 DEF PollLine
<1>8. \A i \in DOMAIN t : t[i].is = "DATA" => h.n < t[i].n
  <2>1. \A i \in DOMAIN t : i \in Int /\ 1 < i + 1
    BY <1>1
  <2> QED
    BY <1>1, <1>6, <2>1 DEF PollLine
<1>9. ASSUME NEW k \in DOMAIN q, NEW l \in DOMAIN q, k < l PROVE l - k <= q[l] - q[k]
  <2>1. k \in DOMAIN p /\ q[k] = p[k]
    BY <1>3, <1>9
  <2>2. CASE l \in DOMAIN p
    BY <1>3, <1>9, <2>1, <2>2 DEF PollLine
  <2>3. CASE l = Len(p) + 1
    <3>1. Len(p) \in DOMAIN p /\ k \in Int /\ k <= Len(p)
      BY <1>3, <1>9, <2>1, <2>3
    <3>2. k < Len(p) => Len(p) - k <= p[Len(p)] - p[k]
      BY <2>1, <3>1 DEF PollLine
    <3>3. p[Len(p)] \in Int /\ p[k] \in Int /\ p[Len(p)] < h.n /\ h.n \in Int /\ p[k] < h.n
      BY <1>2, <1>5, <2>1, <3>1
    <3>4. q[l] = h.n
      BY <1>3, <2>3
    <3>5. CASE k = Len(p)
      BY <2>1, <2>3, <3>1, <3>3, <3>4, <3>5
    <3>6. CASE k < Len(p)
      BY <2>1, <2>3, <3>1, <3>2, <3>3, <3>4, <3>6
    <3> QED
      BY <3>1, <3>5, <3>6
  <2> QED
    BY <1>3, <2>2, <2>3
<1>10. \A k \in DOMAIN q, i \in DOMAIN t : t[i].is = "DATA" => q[k] < t[i].n
  BY <1>3, <1>4, <1>8 DEF PollLine
<1>11. PollLine(d, t, q)
  BY <1>4, <1>7, <1>9, <1>10 DEF PollLine
<1> QED
  BY <1>2, <1>11 DEF h, t, q

\* When as many messages are stored as the receiver says it sent, it is the
\* database in its order.
LEMMA PollComplete ==
  ASSUME NEW d \in Seq(Downs), NEW u \in Seq(Ups), NEW p \in Seq(1..Items),
         PollLine(d, u, p), u # <<>>, Head(u).is = "DBD"
  PROVE  Quiet(d, Tail(u)) /\ (Head(u).n = Len(p) => p = [i \in 1..Items |-> i])
<1> DEFINE h == Head(u)
           t == Tail(u)
<1>1. h \in Ups /\ h = u[1] /\ 1 \in DOMAIN u
      /\ \A i \in DOMAIN t : i \in 1..Len(u) - 1 /\ i + 1 \in DOMAIN u /\ t[i] = u[i + 1]
  BY TailPart
<1> HIDE DEF h, t
<1>2. h.is = "DBD" /\ h.n = Items
  BY <1>1 DEF h, Ups, Acks, Datas
<1>3. Quiet(d, t)
  <2>1. \A i \in DOMAIN d : d[i].msg = "NAVX5"
    BY <1>1, <1>2 DEF PollLine
  <2>2. \A i \in DOMAIN t : i \in Int /\ 1 < i + 1
    BY <1>1
  <2>3. \A i \in DOMAIN t : t[i].is = "CFG"
    BY <1>1, <1>2, <2>2 DEF PollLine
  <2> QED
    BY <2>1, <2>3 DEF Quiet
<1>4. ASSUME h.n = Len(p) PROVE p = [i \in 1..Items |-> i]
  <2>1. Len(p) = Items /\ Items \in Nat \ {0} /\ DOMAIN p = 1..Items /\ p \in [1..Items -> 1..Items]
    BY <1>2, <1>4, AgnssAssumption, LenProperties
  <2>2. ASSUME NEW i \in 1..Items PROVE p[i] = i
    <3>1. /\ 1 < i => i - 1 <= p[i] - p[1]
          /\ i < Items => Items - i <= p[Items] - p[i]
      BY <2>1 DEF PollLine
    <3>2. p[1] \in 1..Items /\ p[Items] \in 1..Items /\ p[i] \in 1..Items
      BY <2>1
    <3>3. p[i] >= i
      BY <2>1, <3>1, <3>2
    <3>4. p[i] <= i
      BY <2>1, <3>1, <3>2
    <3> QED
      BY <3>2, <3>3, <3>4
  <2> QED
    BY <2>1, <2>2
<1> QED
  BY <1>3, <1>4 DEF h, t

-----------------------------------------------------------------------------
(* The types *)

\* What has been sent was ready to be sent.
Message == {m \in [sent : BOOLEAN, ready : BOOLEAN, count : 0..MaxMsg + 1, from : Payloads] :
              m.sent => m.ready}
ItemLists == Seq(1..Items)

\* What can be left of the functions of an action while they are carried out.
Rests(action) ==
  CASE action = "TIME"           -> {<<"configureAidAck", "timeTransfer", "finishTimeTransfer">>,
                                     <<"timeTransfer", "finishTimeTransfer">>,
                                     <<"finishTimeTransfer">>}
    [] action = "POSITION"       -> {<<"configureAidAck", "timeTransfer", "posTransfer">>,
                                     <<"timeTransfer", "posTransfer">>,
                                     <<"posTransfer">>}
    [] action = "RECV_AID_STATE" -> {<<"configureAidAck", "timeTransfer", "recvStateTransfer">>,
                                     <<"timeTransfer", "recvStateTransfer">>,
                                     <<"recvStateTransfer">>}
    [] OTHER                     -> {<<"recvStatePoll">>}

\* The message objects, and the data their functions need.
ObjectInv ==
  /\ msg \in [Objects -> Message]
  /\ \A o \in Objects : msg[o].count > MaxMsg => o = "POLL" /\ execList = <<>>
  /\ tries \in 0..MaxTries /\ (~msg["NAVX5"].sent => tries = 0)
  /\ polled \in ItemLists /\ sending \in ItemLists /\ saved \in ItemLists
  /\ execList # <<>> /\ msg["DBD"].sent => sending # <<>>
  /\ execList # <<>> /\ running.action = "RECV_AID_STATE" => saved # <<>>

LineTyped == down \in Seq(Downs) /\ up \in Seq(Ups)

TypeInv == /\ ListInv
           /\ execList # <<>> => execList \in Rests(running.action)
           /\ Len(requests) <= Requests
           /\ Len(finished) <= 1
           /\ late \in BOOLEAN
           /\ ObjectInv
           /\ LineTyped

\* What every function leaves behind.
After(result) ==
  /\ msg' \in [Objects -> Message]
  /\ \A o \in Objects : msg'[o].count > MaxMsg => o = "POLL" /\ result = "fail"
  /\ tries' \in 0..MaxTries /\ (~msg'["NAVX5"].sent => tries' = 0)
  /\ polled' \in ItemLists /\ sending' \in ItemLists /\ saved' \in ItemLists
  /\ result # "fail" /\ msg'["DBD"].sent => sending' # <<>>
  /\ saved # <<>> => saved' # <<>>
  /\ down' \in Seq(Downs)

\* The objects as the first function of an action or a later one finds them.
LEMMA ObjectTyped ==
  ASSUME ObjectInv
  PROVE  /\ \A o \in Objects : /\ object(o) \in Message /\ object(o).count \in 0..MaxMsg
                               /\ cleared(o) \in Message /\ cleared(o).count = 0
                               /\ ~cleared(o).sent
         /\ object("NAVX5") = msg["NAVX5"]
         /\ object("DBD").sent => sendingNow # <<>>
         /\ polledNow \in ItemLists /\ sendingNow \in ItemLists
<1>1. ASSUME NEW o \in Objects
      PROVE  cleared(o) \in Message /\ cleared(o).count = 0 /\ ~cleared(o).sent
  BY AgnssAssumption DEF cleared, Message, Payloads
<1>2. ASSUME NEW o \in Objects PROVE object(o) \in Message /\ object(o).count \in 0..MaxMsg
  <2>1. CASE object(o) = cleared(o)
    BY <1>1, <2>1, AgnssAssumption
  <2>2. CASE object(o) = msg[o] /\ ~(starting /\ o \in cleanObjects)
    <3>1. msg[o] \in Message /\ ~(msg[o].count > MaxMsg)
      BY <2>2 DEF ObjectInv, starting, cleanObjects
    <3> QED
      BY <2>2, <3>1, AgnssAssumption DEF Message
  <2> QED
    BY <2>1, <2>2 DEF object
<1>3. object("NAVX5") = msg["NAVX5"]
  BY DEF object, cleanObjects
<1>4. object("DBD").sent => sendingNow # <<>>
  BY DEF object, cleanObjects, cleared, sendingNow, starting, ObjectInv
<1>5. polledNow \in ItemLists /\ sendingNow \in ItemLists
  <2>1. <<>> \in ItemLists
    BY DEF ItemLists
  <2> QED
    BY <2>1 DEF polledNow, sendingNow, ObjectInv
<1> QED
  BY <1>1, <1>2, <1>3, <1>4, <1>5

\* An object is set, the others are as the function found them.
LEMMA SetTyped ==
  ASSUME ObjectInv, NEW o \in Objects, NEW value \in Message, setObject(o, value)
  PROVE  /\ msg' \in [Objects -> Message] /\ msg'[o] = value
         /\ \A p \in Objects : p # o => msg'[p] = object(p) /\ msg'[p].count <= MaxMsg
<1>1. \A p \in Objects : object(p) \in Message /\ object(p).count \in 0..MaxMsg
  BY ObjectTyped
<1>2. msg' = [p \in Objects |-> IF p = o THEN value ELSE object(p)]
  BY DEF setObject
<1> QED
  BY <1>1, <1>2, AgnssAssumption

\* The message write puts on the line.
Written(o, payload) == [msg |-> o, n |-> payload, job |-> job.n]

\* What is written is a message for the receiver, behind those before it.
LEMMA WriteTyped ==
  ASSUME LineTyped, job \in Jobs, NEW o \in Objects, NEW payload \in Payloads
  PROVE  /\ Written(o, payload) \in Downs
         /\ write(o, payload) => /\ down' = Append(down, Written(o, payload))
                                 /\ down' \in Seq(Downs)
<1>1. Written(o, payload) \in Downs
  BY DEF Written, Downs, Jobs
<1>2. write(o, payload) <=> down' = Append(down, Written(o, payload))
  BY DEF write, Written
<1> DEFINE w == Written(o, payload)
<1> HIDE DEF w
<1>3. w \in Downs => Append(down, w) \in Seq(Downs)
  BY AppendPart DEF LineTyped
<1> QED
  BY <1>1, <1>2, <1>3 DEF w

\* A message is set and sent, if the line takes it.
LEMMA SendTyped ==
  ASSUME ObjectInv, LineTyped, job \in Jobs, NEW o \in Objects, NEW ok \in BOOLEAN,
         NEW payload \in Payloads, sendData(o, ok, payload)
  PROVE  /\ msg' \in [Objects -> Message] /\ msg'[o].sent = ok
         /\ \A p \in Objects : msg'[p].count <= MaxMsg /\ (p # o => msg'[p] = object(p))
         /\ down' \in Seq(Downs)
         /\ down' = IF ok THEN Append(down, Written(o, payload)) ELSE down
<1> DEFINE value == [sent |-> ok, ready |-> TRUE, count |-> 0, from |-> payload]
<1>1. setObject(o, value) /\ IF ok THEN write(o, payload) ELSE nothingSent
  BY DEF sendData
<1>2. value \in Message /\ value.sent = ok /\ value.count <= MaxMsg
  BY AgnssAssumption DEF Message
<1> HIDE DEF value
<1>3. /\ msg' \in [Objects -> Message] /\ msg'[o] = value
      /\ \A p \in Objects : p # o => msg'[p] = object(p) /\ msg'[p].count <= MaxMsg
  BY <1>1, <1>2, SetTyped
<1>4. down' \in Seq(Downs) /\ down' = IF ok THEN Append(down, Written(o, payload)) ELSE down
  BY <1>1, WriteTyped DEF nothingSent, LineTyped
<1> QED
  BY <1>2, <1>3, <1>4

\* An object that has sent looks at a message.
LEMMA NewMsgTyped ==
  ASSUME ObjectInv, NEW o \in Objects, NEW b, NEW result \in Results, onNewMsg(o, b, result)
  PROVE  /\ msg' \in [Objects -> Message]
         /\ msg'[o].sent => result = "again" /\ object(o).sent
         /\ result = "again" => msg'[o].sent = object(o).sent
         /\ \A p \in Objects : msg'[p].count <= MaxMsg /\ (p # o => msg'[p] = object(p))
         /\ result = "success" => isExpectedAnswer(o, b)
         /\ result = "again" => ~isExpectedAnswer(o, b)
<1> DEFINE value == IF result = "again" THEN [object(o) EXCEPT !.count = countMsg(o, b)]
                                        ELSE cleared(o)
<1>1. /\ setObject(o, value)
      /\ result = CASE tooMany(o, b) -> "fail"
                    [] ~tooMany(o, b) /\ isExpectedAnswer(o, b) -> "success"
                    [] OTHER -> "again"
  BY DEF onNewMsg
<1>2. /\ object(o) \in Message /\ object(o).count \in 0..MaxMsg
      /\ cleared(o) \in Message /\ cleared(o).count = 0 /\ ~cleared(o).sent
  BY ObjectTyped
<1>3. result = "again" => ~(countMsg(o, b) > MaxMsg) /\ ~isExpectedAnswer(o, b)
  BY <1>1 DEF tooMany
<1>4. value \in Message /\ value.count <= MaxMsg
      /\ (value.sent => result = "again" /\ object(o).sent)
      /\ (result = "again" => value.sent = object(o).sent)
  <2>1. CASE result = "again"
    <3>1. countMsg(o, b) \in 0..MaxMsg
      BY <1>2, <1>3, <2>1, AgnssAssumption DEF countMsg
    <3>2. value = [object(o) EXCEPT !.count = countMsg(o, b)]
      BY <2>1
    <3> QED
      BY <1>2, <2>1, <3>1, <3>2, AgnssAssumption DEF Message
  <2>2. CASE result # "again"
    BY <1>2, <2>2, AgnssAssumption
  <2> QED
    BY <2>1, <2>2
<1> HIDE DEF value
<1>5. /\ msg' \in [Objects -> Message] /\ msg'[o] = value
      /\ \A p \in Objects : p # o => msg'[p] = object(p) /\ msg'[p].count <= MaxMsg
  BY <1>1, <1>4, SetTyped
<1>6. result = "success" => isExpectedAnswer(o, b)
  BY <1>1
<1> QED
  BY <1>3, <1>4, <1>5, <1>6

\* configureAidAck keeps the types.
LEMMA ConfigureTyped ==
  ASSUME ObjectInv, LineTyped, job \in Jobs,
         NEW b, NEW ok \in BOOLEAN, NEW result \in Results, configureAidAck(b, ok, result)
  PROVE  After(result)
<1>1. /\ polled' \in ItemLists /\ sending' \in ItemLists /\ saved' \in ItemLists
      /\ sending' = sendingNow /\ saved' = saved
  BY ObjectTyped DEF configureAidAck, ObjectInv
<1>2. object("DBD").sent => sending' # <<>>
  BY <1>1, ObjectTyped
<1>3. "NAVX5" \in Objects /\ "DBD" \in Objects /\ 0 \in Payloads
  BY AgnssAssumption DEF Objects, Payloads
<1>4. object("NAVX5") = msg["NAVX5"]
  BY ObjectTyped
<1> DEFINE retry == tooMany("NAVX5", b) /\ ~lastTry
<1>5. CASE /\ object("NAVX5").sent /\ ~retry
           /\ onNewMsg("NAVX5", b, result)
           /\ tries' = IF result = "again" THEN tries ELSE 0
           /\ nothingSent
  <2>1. /\ msg' \in [Objects -> Message] /\ \A p \in Objects : msg'[p].count <= MaxMsg
        /\ msg'["DBD"] = object("DBD")
        /\ result = "again" => msg'["NAVX5"].sent
    BY <1>3, <1>5, NewMsgTyped
  <2>2. tries' \in 0..MaxTries /\ (~msg'["NAVX5"].sent => tries' = 0)
    BY <1>5, <2>1, AgnssAssumption DEF ObjectInv
  <2>3. down' \in Seq(Downs)
    BY <1>5 DEF nothingSent, LineTyped
  <2>4. \A p \in Objects : ~(msg'[p].count > MaxMsg)
    BY <2>1, AgnssAssumption DEF Message
  <2> QED
    BY <1>1, <1>2, <2>1, <2>2, <2>3, <2>4 DEF After
<1>6. CASE /\ object("NAVX5").sent => retry
           /\ sendData("NAVX5", ok, 0)
           /\ tries' = IF ok THEN tries + 1 ELSE 0
           /\ result = IF ok THEN "again" ELSE "fail"
  <2>1. /\ msg' \in [Objects -> Message] /\ \A p \in Objects : msg'[p].count <= MaxMsg
        /\ msg'["DBD"] = object("DBD") /\ msg'["NAVX5"].sent = ok
        /\ down' \in Seq(Downs)
    BY <1>3, <1>6, SendTyped
  <2>2. tries < MaxTries
    BY <1>4, <1>6, AgnssAssumption DEF ObjectInv, lastTry
  <2>3. tries' \in 0..MaxTries /\ (~msg'["NAVX5"].sent => tries' = 0)
    BY <1>6, <2>1, <2>2, AgnssAssumption DEF ObjectInv
  <2>4. \A p \in Objects : ~(msg'[p].count > MaxMsg)
    BY <2>1, AgnssAssumption DEF Message
  <2> QED
    BY <1>1, <1>2, <2>1, <2>3, <2>4 DEF After
<1> QED
  BY <1>5, <1>6 DEF configureAidAck

\* timeTransfer and posTransfer keep the types.
LEMMA IniTyped ==
  ASSUME ObjectInv, LineTyped, job \in Jobs, NEW o \in {"INI_TIME", "INI_POS"},
         NEW b, NEW have \in BOOLEAN, NEW ok \in BOOLEAN, NEW result \in Results,
         transferIni(o, b, have, ok, result)
  PROVE  After(result)
<1>1. /\ polled' \in ItemLists /\ sending' \in ItemLists /\ saved' \in ItemLists
      /\ sending' = sendingNow /\ saved' = saved /\ tries' = tries
  BY ObjectTyped DEF transferIni, ObjectInv
<1>2. object("DBD").sent => sending' # <<>>
  BY <1>1, ObjectTyped
<1>3. /\ "NAVX5" \in Objects /\ "DBD" \in Objects /\ o \in Objects
      /\ "NAVX5" # o /\ "DBD" # o /\ job.n \in Payloads
  BY AgnssAssumption DEF Objects, Payloads, Jobs
<1>4. /\ \A p \in Objects : object(p) \in Message /\ object(p).count \in 0..MaxMsg
                            /\ cleared(p) \in Message /\ cleared(p).count = 0
      /\ object("NAVX5") = msg["NAVX5"]
  BY ObjectTyped
<1>5. ASSUME /\ msg' \in [Objects -> Message]
             /\ \A p \in Objects : msg'[p].count <= MaxMsg /\ (p # o => msg'[p] = object(p))
             /\ down' \in Seq(Downs)
      PROVE  After(result)
  <2>1. tries' \in 0..MaxTries /\ (~msg'["NAVX5"].sent => tries' = 0)
    BY <1>1, <1>3, <1>4, <1>5 DEF ObjectInv
  <2>2. \A p \in Objects : ~(msg'[p].count > MaxMsg)
    BY <1>5, AgnssAssumption DEF Message
  <2> QED
    BY <1>1, <1>2, <1>3, <1>5, <2>1, <2>2 DEF After
<1>6. CASE /\ ~object(o).ready
           /\ IF have THEN sendData(o, ok, job.n) ELSE noObject /\ nothingSent
  <2>1. CASE have
    BY <1>3, <1>5, <1>6, <2>1, SendTyped
  <2>2. CASE ~have
    <3>1. msg' = [p \in Objects |-> object(p)] /\ down' = down
      BY <1>6, <2>2 DEF noObject, nothingSent
    <3>2. \A p \in Objects : object(p).count <= MaxMsg
      BY <1>4, AgnssAssumption
    <3>3. msg' \in [Objects -> Message] /\ \A p \in Objects : msg'[p] = object(p)
      BY <1>4, <3>1
    <3> QED
      BY <1>5, <3>1, <3>2, <3>3 DEF LineTyped
  <2> QED
    BY <2>1, <2>2
<1>7. CASE onNewMsg(o, b, result) /\ nothingSent
  BY <1>3, <1>5, <1>7, NewMsgTyped DEF nothingSent, LineTyped
<1>8. CASE /\ ok /\ object(o).ready
           /\ setObject(o, [object(o) EXCEPT !.sent = TRUE, !.count = 1])
           /\ write(o, object(o).from)
  <2> DEFINE value == [object(o) EXCEPT !.sent = TRUE, !.count = 1]
  <2>1. value \in Message /\ value.count <= MaxMsg
    <3> DEFINE before == object(o)
    <3>1. before \in Message /\ before.ready
      BY <1>3, <1>4, <1>8
    <3> HIDE DEF before
    <3>2. 1 \in 0..MaxMsg + 1 /\ 1 <= MaxMsg
      BY AgnssAssumption
    <3>3. [before EXCEPT !.sent = TRUE, !.count = 1] \in Message
      BY <3>1, <3>2 DEF Message
    <3>4. [before EXCEPT !.sent = TRUE, !.count = 1].count = 1
      BY <3>1 DEF Message
    <3> QED
      BY <3>2, <3>3, <3>4 DEF before
  <2>2. object(o).from \in Payloads
    BY <1>3, <1>4 DEF Message
  <2>3. setObject(o, value)
    BY <1>8
  <2> HIDE DEF value
  <2>4. /\ msg' \in [Objects -> Message] /\ msg'[o] = value
        /\ \A p \in Objects : p # o => msg'[p] = object(p) /\ msg'[p].count <= MaxMsg
    BY <1>3, <2>1, <2>3, SetTyped
  <2>5. down' \in Seq(Downs)
    BY <1>3, <1>8, <2>2, WriteTyped
  <2> QED
    BY <1>5, <2>1, <2>4, <2>5
<1>9. CASE setObject(o, cleared(o)) /\ nothingSent
  <2>1. cleared(o) \in Message /\ cleared(o).count <= MaxMsg
    BY <1>3, <1>4, AgnssAssumption
  <2>2. /\ msg' \in [Objects -> Message] /\ msg'[o] = cleared(o)
        /\ \A p \in Objects : p # o => msg'[p] = object(p) /\ msg'[p].count <= MaxMsg
    BY <1>3, <1>9, <2>1, SetTyped
  <2>3. down' \in Seq(Downs)
    BY <1>9 DEF nothingSent, LineTyped
  <2> QED
    BY <1>5, <2>1, <2>2, <2>3
<1> QED
  BY <1>6, <1>7, <1>8, <1>9 DEF transferIni

\* recvStateTransfer keeps the types.
LEMMA TransferTyped ==
  ASSUME ObjectInv, LineTyped, job \in Jobs, saved # <<>>,
         NEW b, NEW ok \in BOOLEAN, NEW result \in Results, recvStateTransfer(b, ok, result)
  PROVE  After(result)
<1>1. /\ polled' \in ItemLists /\ saved' \in ItemLists /\ saved' = saved /\ tries' = tries
      /\ sending \in ItemLists /\ saved \in ItemLists
  BY ObjectTyped DEF recvStateTransfer, ObjectInv
<1>2. "NAVX5" \in Objects /\ "DBD" \in Objects
  BY DEF Objects
<1>3. /\ \A p \in Objects : object(p) \in Message /\ object(p).count \in 0..MaxMsg
                            /\ cleared(p) \in Message /\ cleared(p).count = 0 /\ ~cleared(p).sent
      /\ object("NAVX5") = msg["NAVX5"]
  BY ObjectTyped
<1>4. object("DBD").sent => sending # <<>>
  BY ObjectTyped DEF sendingNow
<1>5. \A list \in ItemLists : \A i \in DOMAIN list : list[i] \in Payloads
  BY ElementOfSeq, LenProperties, AgnssAssumption DEF ItemLists, Payloads
<1>6. ASSUME /\ msg' \in [Objects -> Message]
             /\ \A p \in Objects : msg'[p].count <= MaxMsg /\ (p # "DBD" => msg'[p] = object(p))
             /\ down' \in Seq(Downs) /\ sending' \in ItemLists
             /\ result # "fail" /\ msg'["DBD"].sent => sending' # <<>>
      PROVE  After(result)
  <2>1. tries' \in 0..MaxTries /\ (~msg'["NAVX5"].sent => tries' = 0)
    BY <1>1, <1>2, <1>3, <1>6 DEF ObjectInv
  <2>2. \A p \in Objects : ~(msg'[p].count > MaxMsg)
    BY <1>6, AgnssAssumption DEF Message
  <2> QED
    BY <1>1, <1>6, <2>1, <2>2 DEF After
<1>7. CASE /\ sending' = saved /\ sendData("DBD", ok, Head(saved))
  <2>1. Head(saved) \in Payloads
    BY <1>1, <1>5, TailPart DEF ItemLists
  <2> QED
    BY <1>1, <1>2, <1>6, <1>7, <2>1, SendTyped
<1>8. CASE /\ object("DBD").sent
           /\ onNewMsg("DBD", b, result)
           /\ sending' = IF result = "again" THEN sending ELSE <<>>
           /\ nothingSent
  <2>1. sending' \in ItemLists /\ (result = "again" => sending' # <<>>)
    <3>1. <<>> \in ItemLists
      BY DEF ItemLists
    <3> QED
      BY <1>1, <1>4, <1>8, <3>1
  <2>2. /\ msg' \in [Objects -> Message] /\ (msg'["DBD"].sent => result = "again")
        /\ \A p \in Objects : msg'[p].count <= MaxMsg /\ (p # "DBD" => msg'[p] = object(p))
    BY <1>2, <1>8, NewMsgTyped
  <2> QED
    BY <1>6, <1>8, <2>1, <2>2 DEF nothingSent, LineTyped
<1>9. CASE /\ object("DBD").sent
           /\ sending' = Tail(sending)
           /\ IF Len(sending) > 1
              THEN /\ setObject("DBD", [object("DBD") EXCEPT !.count = 0])
                   /\ result = "again"
                   /\ IF ok THEN write("DBD", sending[2]) ELSE nothingSent
              ELSE /\ setObject("DBD", cleared("DBD"))
                   /\ result = "success"
                   /\ nothingSent
  <2>1. /\ sending' \in ItemLists
        /\ Len(sending) > 1 => sending' # <<>> /\ 2 \in DOMAIN sending
    <3>1. /\ Tail(sending) \in Seq(1..Items) /\ Len(Tail(sending)) = Len(sending) - 1
          /\ Len(sending) \in Nat /\ DOMAIN sending = 1..Len(sending)
      BY <1>1, <1>4, <1>9, HeadTailProperties, LenProperties DEF ItemLists
    <3>2. Len(<<>>) = 0
      OBVIOUS
    <3>3. Len(sending) > 1 => Tail(sending) # <<>>
      BY <3>1, <3>2
    <3>4. Len(sending) > 1 => 2 \in DOMAIN sending
      BY <3>1
    <3> QED
      BY <1>9, <3>1, <3>3, <3>4 DEF ItemLists
  <2> DEFINE value == IF Len(sending) > 1 THEN [object("DBD") EXCEPT !.count = 0]
                                          ELSE cleared("DBD")
  <2>2. setObject("DBD", value)
    BY <1>9
  <2>3. value \in Message /\ value.count <= MaxMsg /\ (value.sent => Len(sending) > 1)
    <3>1. [object("DBD") EXCEPT !.count = 0] \in Message
      BY <1>2, <1>3, AgnssAssumption DEF Message
    <3>2. [object("DBD") EXCEPT !.count = 0].count <= MaxMsg
      BY <1>2, <1>3, AgnssAssumption DEF Message
    <3> QED
      BY <1>2, <1>3, <3>1, <3>2, AgnssAssumption
  <2> HIDE DEF value
  <2>4. /\ msg' \in [Objects -> Message] /\ msg'["DBD"] = value
        /\ \A p \in Objects : p # "DBD" => msg'[p] = object(p) /\ msg'[p].count <= MaxMsg
    BY <1>2, <2>2, <2>3, SetTyped
  <2>5. down' \in Seq(Downs)
    <3>1. CASE Len(sending) > 1 /\ ok
      <4>1. sending[2] \in Payloads
        BY <1>1, <1>5, <2>1, <3>1
      <4> QED
        BY <1>2, <1>9, <3>1, <4>1, WriteTyped
    <3>2. CASE ~(Len(sending) > 1 /\ ok)
      BY <1>9, <3>2 DEF nothingSent, LineTyped
    <3> QED
      BY <3>1, <3>2
  <2> QED
    BY <1>6, <2>1, <2>3, <2>4, <2>5
<1> QED
  BY <1>7, <1>8, <1>9 DEF recvStateTransfer

\* recvStatePoll keeps the types.
LEMMA PollTyped ==
  ASSUME ObjectInv, LineTyped, job \in Jobs,
         NEW b \in Ups \cup {Nothing}, NEW ok \in BOOLEAN, NEW result \in Results,
         recvStatePoll(b, ok, result)
  PROVE  After(result)
<1>1. /\ sending' \in ItemLists /\ sending' = sendingNow /\ tries' = tries
      /\ polledNow \in ItemLists /\ polled \in ItemLists /\ saved \in ItemLists
  BY ObjectTyped DEF recvStatePoll, ObjectInv
<1>2. object("DBD").sent => sending' # <<>>
  BY <1>1, ObjectTyped
<1>3. "NAVX5" \in Objects /\ "DBD" \in Objects /\ "POLL" \in Objects /\ 0 \in Payloads
  BY AgnssAssumption DEF Objects, Payloads
<1>4. /\ \A p \in Objects : object(p) \in Message /\ object(p).count \in 0..MaxMsg
      /\ object("NAVX5") = msg["NAVX5"]
  BY ObjectTyped
<1>5. ASSUME /\ msg' \in [Objects -> Message]
             /\ msg'["POLL"].count > MaxMsg => result = "fail"
             /\ \A p \in Objects : p # "POLL" => msg'[p] = object(p) /\ msg'[p].count <= MaxMsg
             /\ down' \in Seq(Downs) /\ polled' \in ItemLists /\ saved' \in ItemLists
             /\ saved # <<>> => saved' # <<>>
      PROVE  After(result)
  <2>1. tries' \in 0..MaxTries /\ (~msg'["NAVX5"].sent => tries' = 0)
    BY <1>1, <1>3, <1>4, <1>5 DEF ObjectInv
  <2>2. \A p \in Objects : msg'[p].count > MaxMsg => p = "POLL" /\ result = "fail"
    BY <1>5, AgnssAssumption DEF Message
  <2> QED
    BY <1>1, <1>2, <1>3, <1>5, <2>1, <2>2 DEF After
<1> DEFINE before == object("POLL")
<1>6. before \in Message /\ before.count \in 0..MaxMsg
  BY <1>3, <1>4
<1>7. ASSUME NEW c \in 0..MaxMsg + 1, setObject("POLL", [before EXCEPT !.count = c]),
             c > MaxMsg => result = "fail",
             nothingSent, polled' \in ItemLists, saved' \in ItemLists, saved # <<>> => saved' # <<>>
      PROVE  After(result)
  <2> HIDE DEF before
  <2> DEFINE value == [before EXCEPT !.count = c]
  <2>1. value \in Message /\ value.count = c
    BY <1>6 DEF Message
  <2>2. setObject("POLL", value)
    BY <1>7
  <2> HIDE DEF value
  <2>3. /\ msg' \in [Objects -> Message] /\ msg'["POLL"] = value
        /\ \A p \in Objects : p # "POLL" => msg'[p] = object(p) /\ msg'[p].count <= MaxMsg
    BY <1>3, <2>1, <2>2, SetTyped
  <2> QED
    BY <1>5, <1>7, <2>1, <2>3 DEF nothingSent, LineTyped
<1>8. countMsg("POLL", b) \in 0..MaxMsg + 1 /\ (countMsg("POLL", b) > MaxMsg <=> tooMany("POLL", b))
  BY <1>6, AgnssAssumption DEF countMsg, tooMany
<1>9. CASE sendData("POLL", ok, 0) /\ polled' = polledNow /\ UNCHANGED saved
  <2>1. /\ msg' \in [Objects -> Message] /\ down' \in Seq(Downs)
        /\ \A p \in Objects : msg'[p].count <= MaxMsg /\ (p # "POLL" => msg'[p] = object(p))
    BY <1>3, <1>9, SendTyped
  <2>2. ~(msg'["POLL"].count > MaxMsg)
    BY <1>3, <2>1, AgnssAssumption DEF Message
  <2> QED
    BY <1>1, <1>5, <1>9, <2>1, <2>2
<1>10. CASE /\ b.is = "DATA" /\ polled' = Append(polled, b.n)
            /\ setObject("POLL", [object("POLL") EXCEPT !.count = 0])
            /\ result = "again"
            /\ nothingSent /\ UNCHANGED saved
  <2> DEFINE e == b.n
  <2>1. e \in 1..Items
    <3>1. b \in Datas
      BY <1>10 DEF Ups, Acks, Nothing
    <3> QED
      BY <3>1 DEF Datas
  <2> HIDE DEF e
  <2>2. Append(polled, e) \in Seq(1..Items)
    BY <1>1, <2>1, AppendPart DEF ItemLists
  <2>3. polled' \in ItemLists
    BY <1>10, <2>2 DEF e, ItemLists
  <2>4. 0 \in 0..MaxMsg + 1 /\ ~(0 > MaxMsg)
    BY AgnssAssumption
  <2> QED
    BY <1>1, <1>7, <1>10, <2>3, <2>4
<1>11. CASE /\ ~tooMany("POLL", b)
            /\ setObject("POLL", [object("POLL") EXCEPT !.count = countMsg("POLL", b)])
            /\ IF allPolled(b) /\ polled # <<>>
               THEN saved' = polled /\ result = "success"
               ELSE UNCHANGED saved /\ result = "fail"
            /\ nothingSent /\ UNCHANGED polled
  BY <1>1, <1>7, <1>8, <1>11
<1>12. CASE /\ setObject("POLL", [object("POLL") EXCEPT !.count = countMsg("POLL", b)])
            /\ result = IF tooMany("POLL", b) THEN "fail" ELSE "again"
            /\ nothingSent /\ UNCHANGED <<polled, saved>>
  BY <1>1, <1>7, <1>8, <1>12
<1> QED
  BY <1>9, <1>10, <1>11, <1>12 DEF recvStatePoll

\* The functions stateCheck calls the first of.
loaded == IF starting THEN functions(job.action) ELSE execList

\* What follows what in an action.
LEMMA RestsFollow ==
  ASSUME NEW action \in Actions, NEW list \in Rests(action)
  PROVE  /\ list # <<>> /\ Head(list) \in Names
         /\ Tail(list) # <<>> => Tail(list) \in Rests(action)
         /\ Head(list) = "configureAidAck" => Tail(list) # <<>> /\ Head(Tail(list)) = "timeTransfer"
         /\ Head(list) = "timeTransfer" =>
              /\ Tail(list) # <<>> /\ action # "POLL_RECV"
              /\ Head(Tail(list)) \in {"finishTimeTransfer", "posTransfer", "recvStateTransfer"}
         /\ Head(list) = "finishTimeTransfer" => Tail(list) = <<>> /\ action = "TIME"
         /\ Head(list) = "posTransfer" => Tail(list) = <<>> /\ action = "POSITION"
         /\ Head(list) = "recvStateTransfer" => Tail(list) = <<>> /\ action = "RECV_AID_STATE"
         /\ Head(list) = "recvStatePoll" => Tail(list) = <<>> /\ action = "POLL_RECV"
<1>1. \A x, y, z : /\ <<x, y, z>> # <<>> /\ Head(<<x, y, z>>) = x /\ Tail(<<x, y, z>>) = <<y, z>>
                   /\ <<x, y>> # <<>> /\ Head(<<x, y>>) = x /\ Tail(<<x, y>>) = <<y>>
                   /\ <<x>> # <<>> /\ Head(<<x>>) = x /\ Tail(<<x>>) = <<>>
  OBVIOUS
<1>2. CASE action \in {"TIME", "POSITION", "RECV_AID_STATE"}
  <2>1. PICK last \in {"finishTimeTransfer", "posTransfer", "recvStateTransfer"} :
          /\ Rests(action) = {<<"configureAidAck", "timeTransfer", last>>,
                              <<"timeTransfer", last>>, <<last>>}
          /\ last = "finishTimeTransfer" => action = "TIME"
          /\ last = "posTransfer" => action = "POSITION"
          /\ last = "recvStateTransfer" => action = "RECV_AID_STATE"
    <3>1. CASE action = "TIME"
      BY <3>1 DEF Rests
    <3>2. CASE action = "POSITION"
      BY <3>2 DEF Rests
    <3>3. CASE action = "RECV_AID_STATE"
      BY <3>3 DEF Rests
    <3> QED
      BY <1>2, <3>1, <3>2, <3>3
  <2> DEFINE three == <<"configureAidAck", "timeTransfer", last>>
             two == <<"timeTransfer", last>>
             one == <<last>>
  <2>2. /\ three # <<>> /\ Head(three) = "configureAidAck" /\ Tail(three) = two
        /\ two # <<>> /\ Head(two) = "timeTransfer" /\ Tail(two) = one
        /\ one # <<>> /\ Head(one) = last /\ Tail(one) = <<>>
    BY <1>1
  <2> HIDE DEF three, two, one
  <2>3. Rests(action) = {three, two, one}
    BY <2>1 DEF three, two, one
  <2>4. CASE list = three
    BY <2>2, <2>3, <2>4 DEF Names
  <2>5. CASE list = two
    BY <1>2, <2>2, <2>3, <2>5 DEF Names
  <2>6. CASE list = one
    BY <2>1, <2>2, <2>3, <2>6 DEF Names
  <2> QED
    BY <2>3, <2>4, <2>5, <2>6
<1>3. CASE action = "POLL_RECV"
  <2>1. Rests(action) = {<<"recvStatePoll">>}
    BY <1>3 DEF Rests
  <2>2. list # <<>> /\ Head(list) = "recvStatePoll" /\ Tail(list) = <<>>
    BY <1>1, <2>1
  <2> QED
    BY <1>3, <2>2 DEF Names
<1> QED
  BY <1>2, <1>3 DEF Actions

\* What stateCheck works on when there is a request.
LEMMA CurrentJob ==
  ASSUME TypeInv, requests # <<>>
  PROVE  /\ job \in Jobs /\ job = Head(requests) /\ (~starting => job = running)
         /\ loaded \in Rests(job.action)
         /\ starting => Head(loaded) \in {"configureAidAck", "recvStatePoll"}
<1>1. Head(requests) \in Jobs
  BY HeadTailProperties DEF TypeInv, ListInv, ListTypes
<1>2. job = Head(requests) /\ (~starting => job = running)
  BY DEF job, starting, TypeInv, ListInv, CurrentIsFront
<1>3. job.action \in Actions
  BY <1>1, <1>2 DEF Jobs
<1>4. functions(job.action) \in Rests(job.action)
      /\ Head(functions(job.action)) \in {"configureAidAck", "recvStatePoll"}
  <2>1. CASE job.action = "TIME"
    BY <2>1 DEF functions, Rests
  <2>2. CASE job.action = "POSITION"
    BY <2>2 DEF functions, Rests
  <2>3. CASE job.action = "RECV_AID_STATE"
    BY <2>3 DEF functions, Rests
  <2>4. CASE job.action = "POLL_RECV"
    BY <2>4 DEF functions, Rests
  <2> QED
    BY <1>3, <2>1, <2>2, <2>3, <2>4 DEF Actions
<1>5. ~starting => loaded \in Rests(job.action)
  BY <1>2 DEF loaded, starting, TypeInv
<1> QED
  BY <1>1, <1>2, <1>4, <1>5 DEF loaded

\* What a call of the first function does, whichever it is.
LEMMA CallTyped ==
  ASSUME TypeInv, requests # <<>>, ~noFunctions,
         NEW b \in Ups \cup {Nothing}, NEW have \in BOOLEAN, NEW ok \in BOOLEAN,
         NEW result \in Results, passData(Head(loaded), b, have, ok, result)
  PROVE  After(result)
<1>1. job \in Jobs /\ loaded \in Rests(job.action) /\ (~starting => job = running)
      /\ (starting => Head(loaded) \in {"configureAidAck", "recvStatePoll"})
  BY CurrentJob
<1>2. job.action \in Actions
  BY <1>1 DEF Jobs
<1>3. Head(loaded) \in Names
      /\ (Head(loaded) = "recvStateTransfer" => job.action = "RECV_AID_STATE")
  BY <1>1, <1>2, RestsFollow
<1>4. ObjectInv /\ LineTyped
  BY DEF TypeInv
<1>5. CASE Head(loaded) = "configureAidAck"
  BY <1>1, <1>4, <1>5, ConfigureTyped DEF passData
<1>6. CASE Head(loaded) = "timeTransfer"
  BY <1>1, <1>4, <1>6, IniTyped DEF passData
<1>7. CASE Head(loaded) = "posTransfer"
  BY <1>1, <1>4, <1>7, IniTyped DEF passData
<1>8. CASE Head(loaded) = "recvStateTransfer"
  <2>1. saved # <<>>
    BY <1>1, <1>3, <1>4, <1>8 DEF ObjectInv, starting, noFunctions
  <2> QED
    BY <1>1, <1>4, <1>8, <2>1, TransferTyped DEF passData
<1>9. CASE Head(loaded) = "recvStatePoll"
  BY <1>1, <1>4, <1>9, PollTyped DEF passData
<1>10. CASE Head(loaded) = "finishTimeTransfer"
  <2>1. finishTimeTransfer(result)
    BY <1>10 DEF passData
  <2>2. /\ UNCHANGED <<msg, tries, polled, sending, saved>> /\ down' = down /\ execList # <<>>
    BY <1>1, <1>10, <2>1 DEF finishTimeTransfer, objVars, nothingSent, starting
  <2> QED
    BY <1>4, <2>2 DEF After, ObjectInv, LineTyped
<1> QED
  BY <1>3, <1>5, <1>6, <1>7, <1>8, <1>9, <1>10 DEF Names

\* The requests and the report after an action is done.
LEMMA FinishTyped ==
  ASSUME TypeInv, requests # <<>>, NEW success, finish(success)
  PROVE  Len(requests') <= Requests /\ Len(finished') <= 1
<1>1. requests' = Tail(requests) /\ Len(Tail(requests)) = Len(requests) - 1 /\ Len(requests) \in Nat
  BY HeadTailProperties, LenProperties DEF finish, TypeInv, ListInv, ListTypes
<1>2. Len(finished') = 1
  BY DEF finish
<1> QED
  BY <1>1, <1>2, AgnssAssumption DEF TypeInv

\* stateCheck keeps the types.
LEMMA CheckTyped ==
  ASSUME TypeInv, NEW b \in Ups \cup {Nothing}, NEW have \in BOOLEAN, NEW ok \in BOOLEAN,
         stateCheck(b, have, ok), up' \in Seq(Ups)
  PROVE  TypeInv'
<1>1. /\ requests # <<>> /\ running' = job
      /\ initFails \/ callFunction(b, have, ok)
      /\ late' = (late \/ (failed(finished') /\ ~lineIdle'))
  BY DEF stateCheck
<1>2. ListInv'
  BY StateCheckStep DEF TypeInv
<1>3. late' \in BOOLEAN
  BY <1>1, Zenon
<1>4. job \in Jobs /\ loaded \in Rests(job.action) /\ (~starting => job = running)
  BY <1>1, CurrentJob
<1>5. CASE initFails
  <2>1. /\ starting /\ execList = <<>> /\ execList' = execList /\ finish(FALSE)
        /\ msg' = [p \in Objects |-> object(p)] /\ down' = down
        /\ polled' = polledNow /\ sending' = sendingNow /\ UNCHANGED <<tries, saved>>
    BY <1>5 DEF initFails, noFunctions, starting, noObject, nothingSent
  <2>2. /\ \A o \in Objects : object(o) \in Message /\ object(o).count \in 0..MaxMsg
        /\ object("NAVX5") = msg["NAVX5"] /\ polledNow \in ItemLists /\ sendingNow \in ItemLists
    BY ObjectTyped DEF TypeInv
  <2>3. ObjectInv'
    <3>1. \A o \in Objects : msg'[o] = object(o) /\ ~(object(o).count > MaxMsg)
      BY <2>1, <2>2, AgnssAssumption
    <3>2. msg' \in [Objects -> Message] /\ "NAVX5" \in Objects
      BY <2>1, <2>2 DEF Objects
    <3> QED
      BY <2>1, <2>2, <3>1, <3>2 DEF ObjectInv, TypeInv
  <2>4. LineTyped'
    BY <2>1 DEF TypeInv, LineTyped
  <2>5. Len(requests') <= Requests /\ Len(finished') <= 1
    BY <1>1, <2>1, FinishTyped
  <2> QED
    BY <1>2, <1>3, <2>1, <2>3, <2>4, <2>5 DEF TypeInv
<1>6. CASE callFunction(b, have, ok)
  <2>1. ~noFunctions
    BY <1>6 DEF callFunction
  <2>2. PICK result \in Results :
          /\ passData(Head(loaded), b, have, ok, result)
          /\ execList' = CASE result = "success" -> Tail(loaded)
                           [] result = "fail" -> <<>>
                           [] OTHER -> loaded
          /\ IF execList' = <<>> THEN finish(result = "success")
                                 ELSE UNCHANGED <<requests, finished>>
    BY <1>6 DEF callFunction, loaded
  <2>3. After(result)
    BY <1>1, <2>1, <2>2, CallTyped
  <2>4. Len(requests') <= Requests /\ Len(finished') <= 1
    BY <1>1, <2>2, FinishTyped DEF TypeInv
  <2>5. execList' # <<>> => execList' \in Rests(job.action) /\ result # "fail"
    <3>1. job.action \in Actions
      BY <1>4 DEF Jobs
    <3> QED
      BY <1>4, <2>2, <3>1, RestsFollow
  <2>6. LineTyped'
    BY <2>3 DEF After, LineTyped
  <2>7. job.action = "RECV_AID_STATE" => saved # <<>>
    BY <1>4, <2>1 DEF noFunctions, starting, TypeInv, ObjectInv
  <2>8. result = "fail" => execList' = <<>>
    BY <2>2
  <2>9. ObjectInv'
    BY <1>1, <2>3, <2>5, <2>7, <2>8 DEF After, ObjectInv
  <2> QED
    BY <1>1, <1>2, <1>3, <2>4, <2>5, <2>6, <2>9 DEF TypeInv
<1> QED
  BY <1>1, <1>5, <1>6

\* What the receiver puts on the line.
LEMMA ReceiverWrites ==
  ASSUME LineTyped, NEW ok \in BOOLEAN, Receiver(ok)
  PROVE  /\ down # <<>> /\ down' = Tail(down) /\ down' \in Seq(Downs) /\ Head(down) \in Downs
         /\ up' \in Seq(Ups)
         /\ \E a \in Acks :
              /\ a.is = ackOf(Head(down).msg) /\ a.ok = ok
              /\ Head(down).msg # "POLL" => up' = Append(up, a)
              /\ Head(down).msg = "POLL" => up' = up \o Database \o <<a>>
         /\ rcv' = IF ok THEN rcv \cup {[msg |-> Head(down).msg, n |-> Head(down).n,
                                         job |-> Head(down).job]}
                         ELSE rcv
         /\ UNCHANGED <<listVars, objVars, jobs, late>>
<1> DEFINE m == Head(down)
           a == [is |-> ackOf(m.msg), ok |-> ok, n |-> Items]
<1>1. /\ down # <<>> /\ down' = Tail(down)
      /\ up' = up \o (IF m.msg = "POLL" THEN Database ELSE <<>>) \o <<a>>
      /\ rcv' = IF ok THEN rcv \cup {[msg |-> m.msg, n |-> m.n, job |-> m.job]} ELSE rcv
      /\ UNCHANGED <<listVars, objVars, jobs, late>>
  BY DEF Receiver, Database
<1>2. m \in Downs /\ Tail(down) \in Seq(Downs)
  BY <1>1, TailPart DEF LineTyped
<1>3. m.msg \in Objects
  BY <1>2 DEF Downs
<1>4. a \in Acks
  BY <1>3 DEF Acks, Objects, ackOf
<1>5. a.is = ackOf(m.msg) /\ a.ok = ok
  OBVIOUS
<1> HIDE DEF a, m
<1>6. a \in Ups
  BY <1>4 DEF Ups
<1>7. Database \in Seq(Ups)
  <2>1. \A i \in 1..Items : [is |-> "DATA", ok |-> TRUE, n |-> i] \in Ups
    BY DEF Ups, Datas
  <2>2. Database \in [1..Items -> Ups] /\ Items \in Nat
    BY <2>1, AgnssAssumption DEF Database
  <2> QED
    BY <2>2
<1>8. CASE m.msg # "POLL"
  <2>1. up' = up \o <<>> \o <<a>>
    BY <1>1, <1>8
  <2>2. up \in Seq(Ups) /\ up \o <<>> = up
    BY ConcatEmptySeq DEF LineTyped
  <2>3. up' = up \o <<a>>
    BY <2>1, <2>2
  <2>4. up' = Append(up, a) /\ up' \in Seq(Ups)
    BY <1>6, <2>2, <2>3, AppendIsConcat, AppendProperties
  <2> QED
    BY <1>1, <1>2, <1>4, <1>5, <1>8, <2>4 DEF m
<1>9. CASE m.msg = "POLL"
  <2>1. up' = up \o Database \o <<a>>
    BY <1>1, <1>9
  <2> DEFINE D == Database
             s == <<a>>
  <2>2. D \in Seq(Ups) /\ s \in Seq(Ups)
    BY <1>6, <1>7
  <2> HIDE DEF D, s
  <2>3. up \o D \o s \in Seq(Ups)
    BY <2>2, ConcatProperties DEF LineTyped
  <2>4. up' \in Seq(Ups)
    BY <2>1, <2>3 DEF D, s
  <2> QED
    BY <1>1, <1>2, <1>4, <1>5, <1>9, <2>1, <2>4 DEF m
<1> QED
  BY <1>8, <1>9

\* Every step keeps the types.
LEMMA TypeStep == ASSUME TypeInv, [Next]_vars PROVE TypeInv'
<1>1. ListInv'
  BY ListStep DEF TypeInv
<1>2. ASSUME NEW action \in Actions, scheduleAction(action) PROVE TypeInv'
  <2>1. UNCHANGED <<execList, msg, tries, polled, sending, saved, finished, running, down, up, late>>
    BY <1>2 DEF scheduleAction, objVars, lineVars
  <2>2. Len(requests') <= Requests
    <3> DEFINE job1 == [action |-> action, n |-> jobs + 1]
    <3>1. /\ jobs < MaxJobs
          /\ requests' = IF Len(requests) < Requests THEN Append(requests, job1) ELSE requests
      BY <1>2 DEF scheduleAction
    <3>2. job1 \in Jobs /\ requests \in Seq(Jobs)
      BY <3>1, AgnssAssumption DEF TypeInv, ListInv, ListTypes, Jobs
    <3> HIDE DEF job1
    <3>3. Len(Append(requests, job1)) = Len(requests) + 1 /\ Len(requests) \in Nat
      BY <3>2, AppendProperties, LenProperties
    <3> QED
      BY <3>1, <3>3, AgnssAssumption DEF TypeInv
  <2> QED
    BY <1>1, <2>1, <2>2 DEF TypeInv, ObjectInv, LineTyped
<1>3. CASE clearActions
  <2>1. /\ requests' = <<>> /\ execList' = <<>>
        /\ late' = (late \/ ~lineIdle)
        /\ UNCHANGED <<msg, tries, polled, sending, saved, finished, running, down, up>>
    BY <1>3 DEF clearActions, resetState, objVars, lineVars
  <2>2. late' \in BOOLEAN
    BY <2>1, Zenon
  <2>3. Len(requests') <= Requests
    BY <2>1, AgnssAssumption
  <2> QED
    BY <1>1, <2>1, <2>2, <2>3 DEF TypeInv, ObjectInv, LineTyped
<1>4. ASSUME NEW have \in BOOLEAN, NEW ok \in BOOLEAN, timeout(have, ok) PROVE TypeInv'
  BY <1>4, CheckTyped DEF timeout, TypeInv, LineTyped
<1>5. ASSUME NEW have \in BOOLEAN, NEW ok \in BOOLEAN, processMsg(have, ok) PROVE TypeInv'
  <2>1. Head(up) \in Ups /\ up' \in Seq(Ups)
    BY <1>5, TailPart DEF processMsg, TypeInv, LineTyped
  <2> QED
    BY <1>5, <2>1, CheckTyped DEF processMsg
<1>6. CASE unwantedMessage
  <2>1. up' \in Seq(Ups)
    BY <1>6, TailPart DEF unwantedMessage, TypeInv, LineTyped
  <2> QED
    BY <1>1, <1>6, <2>1 DEF unwantedMessage, listVars, objVars, TypeInv, ObjectInv, LineTyped
<1>7. CASE transferFinished
  BY <1>1, <1>7 DEF transferFinished, objVars, lineVars, TypeInv, ObjectInv, LineTyped
<1>8. ASSUME NEW ok \in BOOLEAN, Receiver(ok) PROVE TypeInv'
  <2>1. LineTyped' /\ UNCHANGED <<listVars, objVars, jobs, late>>
    BY <1>8, ReceiverWrites DEF TypeInv, LineTyped
  <2> QED
    BY <1>1, <2>1 DEF listVars, objVars, TypeInv, ObjectInv
<1>9. CASE Lose
  <2>1. LineTyped' /\ UNCHANGED <<listVars, objVars, jobs, late>>
    BY <1>9, TailPart DEF Lose, TypeInv, LineTyped
  <2> QED
    BY <1>1, <2>1 DEF listVars, objVars, TypeInv, ObjectInv
<1>10. CASE UNCHANGED vars
  BY <1>1, <1>10 DEF vars, listVars, objVars, lineVars, TypeInv, ObjectInv, LineTyped
<1> QED
  BY <1>2, <1>3, <1>4, <1>5, <1>6, <1>7, <1>8, <1>9, <1>10 DEF Next, Thread

\* The types hold in all states.
LEMMA TypeInvariant == Spec => []TypeInv
<1>1. Init => TypeInv
  <2> SUFFICES ASSUME Init PROVE TypeInv
    OBVIOUS
  <2>1. ListInv
    BY AgnssAssumption DEF Init, ListInv, ListTypes, CurrentIsFront
  <2>2. \A o \in Objects : cleared(o) \in Message /\ cleared(o).count = 0
    BY AgnssAssumption DEF cleared, Message, Payloads
  <2>3. msg \in [Objects -> Message] /\ \A o \in Objects : msg[o] = cleared(o)
    BY <2>2 DEF Init
  <2>4. \A o \in Objects : ~(msg[o].count > MaxMsg)
    BY <2>2, <2>3, AgnssAssumption
  <2>5. <<>> \in ItemLists /\ <<>> \in Seq(Downs) /\ <<>> \in Seq(Ups) /\ Len(<<>>) = 0
    BY DEF ItemLists
  <2>6. tries \in 0..MaxTries /\ tries = 0
    BY AgnssAssumption DEF Init
  <2>7. execList = <<>> /\ polled = <<>> /\ sending = <<>> /\ saved = <<>>
    BY DEF Init
  <2>8. ObjectInv
    BY <2>3, <2>4, <2>5, <2>6, <2>7 DEF ObjectInv
  <2>9. late \in BOOLEAN
    BY Zenon DEF Init
  <2>10. Len(requests) <= Requests /\ Len(finished) <= 1 /\ execList = <<>>
    BY <2>5, AgnssAssumption DEF Init
  <2>11. LineTyped
    BY <2>5 DEF Init, LineTyped
  <2> QED
    BY <2>1, <2>8, <2>9, <2>10, <2>11 DEF TypeInv
<1>2. TypeInv /\ [Next]_vars => TypeInv'
  BY TypeStep
<1> QED
  BY <1>1, <1>2, PTL DEF Spec

\* The types and ranges hold: the list is never longer than it may be, no object
\* looks at more than one message above its limit, and the receiver is not
\* configured more often than _num_config_ack_max_send_tries.
THEOREM AgnssTyped == Spec => []TypeOK
<1>1. TypeInv => TypeOK
  <2> SUFFICES ASSUME TypeInv PROVE TypeOK
    OBVIOUS
  <2>1. requests \in Seq([action : Actions, n : 1..MaxJobs]) /\ jobs \in 0..MaxJobs
    BY DEF TypeInv, ListInv, ListTypes, Jobs
  <2>2. \A i \in DOMAIN polled : polled[i] \in 1..Items
    BY ElementOfSeq, LenProperties DEF TypeInv, ObjectInv, ItemLists
  <2> QED
    BY <2>1, <2>2 DEF TypeInv, ObjectInv, TypeOK, Message, Payloads
<1> QED
  BY <1>1, TypeInvariant, PTL

-----------------------------------------------------------------------------
(* What an action that succeeds has achieved *)

current == IF execList = <<>> THEN "none" ELSE Head(execList)

\* The function that sends o waits for the answer, and an answer that says yes is
\* the truth.
OneOut(o) ==
  /\ OneLine(down, up, o, running.n)
  /\ ~Quiet(down, up) => msg[o].sent
  /\ \A i \in DOMAIN up : up[i].is # "CFG" /\ up[i].ok => Accepted(o)

PollOut == PollLine(down, up, polled) /\ msg["POLL"].sent

\* What is on the line is what the current function sent and waits for.
LineInv ==
  /\ current \in {"none", "configureAidAck", "finishTimeTransfer"} => Quiet(down, up)
  /\ current = "timeTransfer" => OneOut("INI_TIME")
  /\ current = "posTransfer" => OneOut("INI_POS")
  /\ current = "recvStateTransfer" => OneOut("DBD")
  /\ current = "recvStatePoll" => PollOut

\* What follows timeTransfer is done after the receiver accepted the time.
TimeDone == current \in {"finishTimeTransfer", "posTransfer", "recvStateTransfer"} =>
              Accepted("INI_TIME")

Good == LineInv /\ TimeDone /\ SuccessAccepted

\* b is a message that arrived, or a second passed.
Arrives(b) == \/ b = Nothing /\ up' = up
              \/ up # <<>> /\ b = Head(up) /\ up' = Tail(up)

\* What a message that arrives says, and leaves on the line.
LEMMA Arrival ==
  ASSUME LineTyped, NEW b, Arrives(b)
  PROVE  /\ up' \in Seq(Ups) /\ b \in Ups \cup {Nothing}
         /\ Quiet(down, up) => Quiet(down, up') /\ b.is \in {"nothing", "CFG"}
         /\ \A i \in DOMAIN up' : \E j \in DOMAIN up : up'[i] = up[j]
         /\ b # Nothing => \E j \in DOMAIN up : b = up[j]
         /\ \A o, n : OneLine(down, up, o, n) =>
              /\ OneLine(down, up', o, n)
              /\ b.is \notin {"nothing", "CFG"} => Quiet(down, up') /\ b.is = ackOf(o)
         /\ \A p : PollLine(down, up, p) => PollLine(down, up', p)
<1>1. CASE b = Nothing /\ up' = up
  BY <1>1 DEF LineTyped, Nothing
<1>2. CASE up # <<>> /\ b = Head(up) /\ up' = Tail(up)
  <2>1. /\ b \in Ups /\ up' \in Seq(Ups) /\ b = up[1] /\ 1 \in DOMAIN up
        /\ \A i \in DOMAIN up' : i + 1 \in DOMAIN up /\ up'[i] = up[i + 1]
    BY <1>2, TailPart DEF LineTyped
  <2>2. Quiet(down, up) => Quiet(down, up') /\ b.is = "CFG"
    BY <1>2, <2>1, LineShrinks DEF LineTyped, Quiet
  <2>3. ASSUME NEW o, NEW n, OneLine(down, up, o, n)
        PROVE  /\ OneLine(down, up', o, n)
               /\ b.is \notin {"nothing", "CFG"} => Quiet(down, up') /\ b.is = ackOf(o)
    BY <1>2, <2>3, LineShrinks, LineAnswered DEF LineTyped
  <2>4. \A p : PollLine(down, up, p) => PollLine(down, up', p)
    BY <1>2, LineShrinks DEF LineTyped
  <2> QED
    BY <2>1, <2>2, <2>3, <2>4
<1> QED
  BY <1>1, <1>2 DEF Arrives

\* configureAidAck writes nothing but the configuration.
LEMMA ConfigureLine ==
  ASSUME ObjectInv, LineTyped, job \in Jobs, NEW b, Arrives(b), Quiet(down, up),
         NEW ok \in BOOLEAN, NEW result \in Results, configureAidAck(b, ok, result)
  PROVE  Quiet(down', up')
<1>1. Quiet(down, up') /\ up' \in Seq(Ups)
  BY Arrival
<1>2. CASE down' = down
  BY <1>1, <1>2
<1>3. CASE sendData("NAVX5", ok, 0)
  <2>1. "NAVX5" \in Objects /\ 0 \in Payloads
    BY AgnssAssumption DEF Objects, Payloads
  <2>2. down' = IF ok THEN Append(down, Written("NAVX5", 0)) ELSE down
    BY <1>3, <2>1, SendTyped
  <2>3. Written("NAVX5", 0) \in Downs /\ Written("NAVX5", 0).msg = "NAVX5"
    BY <2>1, WriteTyped DEF Written
  <2>4. Quiet(Append(down, Written("NAVX5", 0)), up')
    BY <1>1, <2>3, LineWritten DEF LineTyped
  <2> QED
    BY <1>1, <2>2, <2>4
<1> QED
  BY <1>2, <1>3 DEF configureAidAck, nothingSent

\* A message of o for the current job, written to a line with nothing else on it.
LEMMA WrittenOut ==
  ASSUME LineTyped, job \in Jobs, NEW o \in Objects, NEW payload \in Payloads,
         NEW u \in Seq(Ups), Quiet(down, u)
  PROVE  /\ OneLine(Append(down, Written(o, payload)), u, o, job.n)
         /\ o = "POLL" => PollLine(Append(down, Written(o, payload)), u, <<>>)
<1>1. /\ Written(o, payload) \in Downs
      /\ Written(o, payload).msg = o /\ Written(o, payload).job = job.n
  BY WriteTyped DEF Written
<1> DEFINE w == Written(o, payload)
<1> HIDE DEF w
<1>2. w \in Downs /\ w.msg = o /\ w.job = job.n
  BY <1>1 DEF w
<1>3. OneLine(Append(down, w), u, w.msg, w.job)
      /\ (w.msg = "POLL" => PollLine(Append(down, w), u, <<>>))
  BY <1>2, LineWritten DEF LineTyped
<1> QED
  BY <1>2, <1>3 DEF w

\* What OneOut says of the next state.
LEMMA OneOutNext ==
  ASSUME LineTyped, NEW o, NEW b, Arrives(b), OneOut(o), rcv' = rcv, running' = running,
         OneLine(down', up', o, running.n), ~Quiet(down', up') => msg'[o].sent
  PROVE  OneOut(o)'
<1>1. \A i \in DOMAIN up' : up'[i].is # "CFG" /\ up'[i].ok => Accepted(o)
  <2>1. \A i \in DOMAIN up' : \E j \in DOMAIN up : up'[i] = up[j]
    BY Arrival
  <2> QED
    BY <2>1 DEF OneOut
<1>2. Accepted(o)' <=> Accepted(o)
  BY DEF Accepted
<1> QED
  BY <1>1, <1>2 DEF OneOut

\* timeTransfer and posTransfer wait for the answer to the message they sent, and
\* succeed when the receiver accepted it.
LEMMA IniLine ==
  ASSUME ObjectInv, LineTyped, job \in Jobs, ~starting, job = running,
         NEW b, Arrives(b), NEW o \in {"INI_TIME", "INI_POS"}, OneOut(o),
         NEW have \in BOOLEAN, NEW ok \in BOOLEAN, NEW result \in Results, result # "fail",
         transferIni(o, b, have, ok, result), rcv' = rcv, running' = running
  PROVE  /\ result = "again" => OneOut(o)'
         /\ result = "success" => Quiet(down', up') /\ Accepted(o)'
<1>1. /\ object(o) = msg[o] /\ o \in Objects /\ job.n \in Payloads
      /\ (msg[o].sent => msg[o].ready) /\ msg[o] \in Message
  BY AgnssAssumption DEF object, Objects, Payloads, Jobs, ObjectInv, Message
<1>2. ~msg[o].sent => Quiet(down, up)
  BY DEF OneOut
<1>3. up' \in Seq(Ups) /\ (Quiet(down, up) => Quiet(down, up'))
      /\ OneLine(down, up', o, running.n)
  BY Arrival DEF OneOut
<1>4. ASSUME NEW payload \in Payloads, down' = Append(down, Written(o, payload)),
             Quiet(down, up), msg'[o].sent
      PROVE  OneOut(o)'
  <2>1. OneLine(down', up', o, running.n)
    BY <1>1, <1>3, <1>4, WrittenOut
  <2> QED
    BY <1>4, <2>1, OneOutNext
<1>5. CASE /\ ~object(o).ready
           /\ IF have THEN sendData(o, ok, job.n) ELSE noObject /\ nothingSent
           /\ result = IF have /\ ok THEN "again" ELSE "fail"
  <2>1. ok /\ sendData(o, ok, job.n) /\ result = "again"
    BY <1>5
  <2>2. down' = Append(down, Written(o, job.n)) /\ msg'[o].sent
    BY <1>1, <2>1, SendTyped
  <2>3. Quiet(down, up)
    BY <1>1, <1>2, <1>5
  <2> QED
    BY <1>1, <1>4, <2>1, <2>2, <2>3
<1>6. CASE object(o).sent /\ onNewMsg(o, b, result) /\ nothingSent
  <2>1. /\ result = "again" => msg'[o].sent
        /\ result = "success" => b.is = ackOf(o) /\ b.ok
    BY <1>1, <1>6, NewMsgTyped DEF isExpectedAnswer
  <2>2. down' = down
    BY <1>6 DEF nothingSent
  <2>3. CASE result = "again"
    BY <1>3, <2>1, <2>2, <2>3, OneOutNext
  <2>4. CASE result = "success"
    <3>1. b.is = "INI" /\ b # Nothing
      BY <2>1, <2>4 DEF ackOf, Nothing
    <3>2. Quiet(down, up') /\ \E j \in DOMAIN up : b = up[j]
      BY <3>1, Arrival DEF OneOut
    <3>3. Accepted(o)
      BY <2>1, <2>4, <3>1, <3>2 DEF OneOut
    <3> QED
      BY <2>2, <2>4, <3>2, <3>3 DEF Accepted
  <2> QED
    BY <2>3, <2>4 DEF Results
<1>7. CASE /\ object(o).ready /\ ~object(o).sent
           /\ IF ok
              THEN /\ setObject(o, [object(o) EXCEPT !.sent = TRUE, !.count = 1])
                   /\ write(o, object(o).from)
                   /\ result = "again"
              ELSE result = "fail"
  <2> DEFINE before == object(o)
             value == [before EXCEPT !.sent = TRUE, !.count = 1]
  <2>1. before \in Message /\ before.ready
    BY <1>1, <1>7
  <2>2. before.from \in Payloads
    BY <2>1 DEF Message
  <2>3. setObject(o, value) /\ write(o, before.from) /\ result = "again"
    BY <1>7
  <2> HIDE DEF before
  <2>4. value \in Message /\ value.sent
    <3>1. 1 \in 0..MaxMsg + 1
      BY AgnssAssumption
    <3> QED
      BY <2>1, <3>1 DEF Message
  <2> HIDE DEF value
  <2>5. msg'[o] = value
    BY <1>1, <2>3, <2>4, SetTyped
  <2>6. down' = Append(down, Written(o, before.from))
    BY <1>1, <2>2, <2>3, WriteTyped
  <2>7. Quiet(down, up)
    BY <1>1, <1>2, <1>7
  <2> QED
    BY <1>4, <2>2, <2>3, <2>4, <2>5, <2>6, <2>7
<1> QED
  BY <1>5, <1>6, <1>7 DEF transferIni

\* recvStateTransfer has one message of the database under way at a time.
LEMMA TransferLine ==
  ASSUME ObjectInv, LineTyped, job \in Jobs, ~starting, job = running, saved # <<>>,
         NEW b, Arrives(b), OneOut("DBD"),
         NEW ok \in BOOLEAN, NEW result \in Results, result # "fail",
         recvStateTransfer(b, ok, result), rcv' = rcv, running' = running
  PROVE  /\ result = "again" => OneOut("DBD")'
         /\ result = "success" => Quiet(down', up')
<1>1. object("DBD") = msg["DBD"] /\ "DBD" \in Objects /\ msg["DBD"] \in Message
  BY DEF object, Objects, ObjectInv
<1>2. ~msg["DBD"].sent => Quiet(down, up)
  BY DEF OneOut
<1>3. up' \in Seq(Ups) /\ (Quiet(down, up) => Quiet(down, up'))
      /\ OneLine(down, up', "DBD", running.n)
  BY Arrival DEF OneOut
<1>4. \A list \in ItemLists : \A i \in DOMAIN list : list[i] \in Payloads
  BY ElementOfSeq, LenProperties, AgnssAssumption DEF ItemLists, Payloads
<1>5. ASSUME NEW payload \in Payloads, down' = Append(down, Written("DBD", payload)),
             Quiet(down, up'), msg'["DBD"].sent
      PROVE  OneOut("DBD")'
  <2>1. OneLine(down', up', "DBD", running.n)
    BY <1>1, <1>3, <1>5, WrittenOut
  <2> QED
    BY <1>5, <2>1, OneOutNext
<1>6. CASE /\ ~object("DBD").sent
           /\ sendData("DBD", ok, Head(saved))
           /\ result = IF ok THEN "again" ELSE "fail"
  <2>1. Head(saved) \in Payloads
    BY <1>4, TailPart DEF ObjectInv, ItemLists
  <2>2. down' = Append(down, Written("DBD", Head(saved))) /\ msg'["DBD"].sent /\ result = "again"
    BY <1>1, <1>6, <2>1, SendTyped
  <2> QED
    BY <1>1, <1>2, <1>3, <1>5, <1>6, <2>1, <2>2
<1>7. CASE /\ object("DBD").sent
           /\ b.is # "DBD" \/ tooMany("DBD", b)
           /\ onNewMsg("DBD", b, result)
           /\ nothingSent
  <2>1. result = "again"
    BY <1>1, <1>7 DEF onNewMsg, isExpectedAnswer, ackOf, Results
  <2>2. msg'["DBD"].sent /\ down' = down
    BY <1>1, <1>7, <2>1, NewMsgTyped DEF nothingSent
  <2> QED
    BY <1>3, <2>1, <2>2, OneOutNext
<1>8. CASE /\ object("DBD").sent /\ b.is = "DBD"
           /\ IF Len(sending) > 1
              THEN /\ setObject("DBD", [object("DBD") EXCEPT !.count = 0])
                   /\ result = "again"
                   /\ IF ok THEN write("DBD", sending[2]) ELSE nothingSent
              ELSE /\ setObject("DBD", cleared("DBD"))
                   /\ result = "success"
                   /\ nothingSent
  <2>1. Quiet(down, up')
    <3>1. b.is \notin {"nothing", "CFG"}
      BY <1>8
    <3> QED
      BY <3>1, Arrival DEF OneOut
  <2>2. CASE Len(sending) > 1
    <3> DEFINE before == object("DBD")
               value == [before EXCEPT !.count = 0]
    <3>1. before \in Message /\ before.sent
      BY <1>1, <1>8
    <3>2. setObject("DBD", value) /\ result = "again"
          /\ IF ok THEN write("DBD", sending[2]) ELSE nothingSent
      BY <1>8, <2>2
    <3> HIDE DEF before
    <3>3. value \in Message /\ value.sent
      <4>1. 0 \in 0..MaxMsg + 1
        BY AgnssAssumption
      <4> QED
        BY <3>1, <4>1 DEF Message
    <3> HIDE DEF value
    <3>4. msg'["DBD"].sent
      BY <1>1, <3>2, <3>3, SetTyped
    <3>5. CASE ok
      <4>1. 2 \in DOMAIN sending
        BY <2>2, LenProperties DEF ObjectInv, ItemLists
      <4>2. sending[2] \in Payloads
        BY <1>4, <4>1 DEF ObjectInv
      <4>3. down' = Append(down, Written("DBD", sending[2]))
        BY <1>1, <3>2, <3>5, <4>2, WriteTyped
      <4> QED
        BY <1>5, <2>1, <3>2, <3>4, <4>2, <4>3
    <3>6. CASE ~ok
      <4>1. down' = down
        BY <3>2, <3>6 DEF nothingSent
      <4> QED
        BY <1>3, <3>2, <3>4, <4>1, OneOutNext
    <3> QED
      BY <3>5, <3>6
  <2>3. CASE ~(Len(sending) > 1)
    BY <1>8, <2>1, <2>3 DEF nothingSent
  <2> QED
    BY <2>2, <2>3
<1> QED
  BY <1>6, <1>7, <1>8 DEF recvStateTransfer

\* recvStatePoll stores the messages in their order, and all of them when it
\* succeeds.
LEMMA PollStep ==
  ASSUME ObjectInv, LineTyped, job \in Jobs, NEW b, Arrives(b),
         starting => Quiet(down, up), ~starting => PollOut,
         NEW ok \in BOOLEAN, NEW result \in Results, result # "fail",
         recvStatePoll(b, ok, result)
  PROVE  /\ result = "again" => PollOut'
         /\ result = "success" => Quiet(down', up') /\ saved' = [i \in 1..Items |-> i]
<1>1. "POLL" \in Objects /\ 0 \in Payloads /\ polled \in Seq(1..Items)
  BY AgnssAssumption DEF Objects, Payloads, ObjectInv, ItemLists
<1>2. object("POLL").sent <=> ~starting
  BY DEF object, cleanObjects, cleared, PollOut
<1>3. up' \in Seq(Ups) /\ (Quiet(down, up) => Quiet(down, up'))
      /\ (PollLine(down, up, polled) => PollLine(down, up', polled))
      /\ b \in Ups \cup {Nothing}
  BY Arrival
<1> DEFINE before == object("POLL")
<1>4. before \in Message /\ before.count \in 0..MaxMsg
  BY <1>1, ObjectTyped
<1> HIDE DEF before
<1>5. ASSUME NEW c \in 0..MaxMsg + 1, setObject("POLL", [before EXCEPT !.count = c]), before.sent
      PROVE  msg'["POLL"].sent
  <2> DEFINE value == [before EXCEPT !.count = c]
  <2>1. value \in Message /\ value.sent
    BY <1>4, <1>5 DEF Message
  <2>2. setObject("POLL", value)
    BY <1>5
  <2> HIDE DEF value
  <2> QED
    BY <1>1, <2>1, <2>2, SetTyped
<1>6. CASE /\ ~object("POLL").sent
           /\ sendData("POLL", ok, 0)
           /\ result = IF ok THEN "again" ELSE "fail"
           /\ polled' = polledNow
  <2>1. down' = Append(down, Written("POLL", 0)) /\ msg'["POLL"].sent /\ result = "again"
    BY <1>1, <1>6, SendTyped
  <2>2. starting /\ polled' = <<>>
    BY <1>2, <1>6 DEF polledNow
  <2>3. PollLine(Append(down, Written("POLL", 0)), up', <<>>)
    BY <1>1, <1>3, <2>2, WrittenOut
  <2> QED
    BY <2>1, <2>2, <2>3 DEF PollOut
<1>7. CASE /\ object("POLL").sent /\ b.is = "DATA"
           /\ polled' = Append(polled, b.n)
           /\ setObject("POLL", [object("POLL") EXCEPT !.count = 0])
           /\ result = "again"
           /\ nothingSent
  <2>1. up # <<>> /\ b = Head(up) /\ up' = Tail(up)
    BY <1>7 DEF Arrives, Nothing
  <2>2. PollLine(down, up, polled)
    BY <1>2, <1>7 DEF PollOut
  <2>3. PollLine(down, Tail(up), Append(polled, Head(up).n))
    BY <1>1, <1>7, <2>1, <2>2, PollStores DEF LineTyped
  <2>4. msg'["POLL"].sent
    <3>1. 0 \in 0..MaxMsg + 1
      BY AgnssAssumption
    <3> QED
      BY <1>5, <1>7, <3>1 DEF before
  <2> QED
    BY <1>7, <2>1, <2>3, <2>4 DEF PollOut, nothingSent
<1>8. CASE /\ object("POLL").sent /\ b.is = "DBD"
           /\ IF allPolled(b) /\ polled # <<>>
              THEN saved' = polled /\ result = "success"
              ELSE result = "fail"
           /\ nothingSent
  <2>1. allPolled(b) /\ saved' = polled /\ result = "success" /\ down' = down
    BY <1>8 DEF nothingSent
  <2>2. up # <<>> /\ b = Head(up) /\ up' = Tail(up)
    BY <1>8 DEF Arrives, Nothing
  <2>3. PollLine(down, up, polled)
    BY <1>2, <1>8 DEF PollOut
  <2>4. Quiet(down, Tail(up)) /\ (Head(up).n = Len(polled) => polled = [i \in 1..Items |-> i])
    BY <1>1, <1>8, <2>2, <2>3, PollComplete DEF LineTyped
  <2> QED
    BY <2>1, <2>2, <2>4 DEF allPolled
<1>9. CASE /\ object("POLL").sent
           /\ setObject("POLL", [object("POLL") EXCEPT !.count = countMsg("POLL", b)])
           /\ result = IF tooMany("POLL", b) THEN "fail" ELSE "again"
           /\ nothingSent /\ UNCHANGED <<polled, saved>>
  <2>1. countMsg("POLL", b) \in 0..MaxMsg + 1
    BY <1>4, AgnssAssumption DEF countMsg, before
  <2>2. msg'["POLL"].sent /\ result = "again" /\ down' = down /\ polled' = polled
    BY <1>5, <1>9, <2>1 DEF before, nothingSent
  <2> QED
    BY <1>2, <1>3, <1>9, <2>2 DEF PollOut
<1> QED
  BY <1>6, <1>7, <1>8, <1>9 DEF recvStatePoll

\* An answer of the receiver belongs to what was sent.
LEMMA OutReceived ==
  ASSUME LineTyped, NEW ok \in BOOLEAN, Receiver(ok)
  PROVE  /\ Quiet(down, up) => Quiet(down', up')
         /\ \A o \in {"INI_TIME", "INI_POS", "DBD"} : OneOut(o) => OneOut(o)'
         /\ PollOut => PollOut'
         /\ \A o : Accepted(o) => Accepted(o)'
<1>1. PICK a \in Acks :
        /\ a.is = ackOf(Head(down).msg) /\ a.ok = ok
        /\ Head(down).msg # "POLL" => up' = Append(up, a)
        /\ Head(down).msg = "POLL" => up' = up \o Database \o <<a>>
  BY ReceiverWrites
<1>2. /\ down # <<>> /\ down' = Tail(down) /\ Head(down) \in Downs
      /\ rcv' = IF ok THEN rcv \cup {[msg |-> Head(down).msg, n |-> Head(down).n,
                                      job |-> Head(down).job]}
                      ELSE rcv
      /\ UNCHANGED <<msg, running, polled>>
  BY ReceiverWrites DEF listVars, objVars
<1>3. 1 \in DOMAIN down /\ Head(down) = down[1]
  BY <1>2, TailPart DEF LineTyped
<1>4. \A o : Accepted(o) => Accepted(o)'
  BY <1>2 DEF Accepted
<1>5. ASSUME Quiet(down, up) PROVE Quiet(down', up')
  <2>1. Head(down).msg = "NAVX5"
    BY <1>3, <1>5 DEF Quiet
  <2> QED
    BY <1>1, <1>2, <1>5, <2>1, LineReceived DEF LineTyped
<1>6. ASSUME NEW o \in {"INI_TIME", "INI_POS", "DBD"}, OneOut(o) PROVE OneOut(o)'
  <2>1. OneLine(down, up, o, running.n)
    BY <1>6 DEF OneOut
  <2>2. Head(down).msg # "POLL"
    BY <1>3, <2>1 DEF OneLine
  <2>3. /\ up' = Append(up, a)
        /\ OneLine(down', up', o, running.n)
        /\ a.is # "CFG" => Head(down).msg = o /\ Head(down).job = running.n
    BY <1>1, <1>2, <2>1, <2>2, LineReceived DEF LineTyped
  <2>4. ASSUME a.is # "CFG", a.ok PROVE Accepted(o)'
    <3> DEFINE r == [msg |-> Head(down).msg, n |-> Head(down).n, job |-> Head(down).job]
    <3>1. r \in rcv'
      BY <1>1, <1>2, <2>4
    <3>2. r.msg = o /\ r.job = running'.n
      BY <1>2, <2>3, <2>4
    <3> QED
      BY <3>1, <3>2 DEF Accepted
  <2>5. \A i \in DOMAIN up' : up'[i].is # "CFG" /\ up'[i].ok => Accepted(o)'
    <3>1. a \in Ups
      BY DEF Ups
    <3>2. \A i \in DOMAIN up' : up'[i] = a \/ (i \in DOMAIN up /\ up'[i] = up[i])
      <4>1. /\ DOMAIN Append(up, a) = 1..Len(up) + 1 /\ DOMAIN up = 1..Len(up) /\ Len(up) \in Nat
            /\ \A i \in DOMAIN up : Append(up, a)[i] = up[i]
            /\ Append(up, a)[Len(up) + 1] = a
        BY <3>1, AppendPart DEF LineTyped
      <4> QED
        BY <2>3, <4>1
    <3> QED
      BY <1>4, <1>6, <2>4, <3>2 DEF OneOut
  <2>6. ~Quiet(down', up') => msg'[o].sent
    BY <1>2, <1>5, <1>6 DEF OneOut
  <2> QED
    BY <1>2, <2>3, <2>5, <2>6 DEF OneOut
<1>7. ASSUME PollOut PROVE PollOut'
  <2>1. PollLine(down, up, polled)
    BY <1>7 DEF PollOut
  <2>2. CASE Head(down).msg = "POLL"
    <3>1. a.is = "DBD"
      BY <1>1, <2>2 DEF ackOf
    <3>2. PollLine(Tail(down), up \o Database \o <<a>>, polled)
      BY <1>2, <2>1, <2>2, <3>1, PollReceived DEF LineTyped
    <3> QED
      BY <1>1, <1>2, <1>7, <2>2, <3>2 DEF PollOut
  <2>3. CASE Head(down).msg # "POLL"
    <3>1. PollLine(Tail(down), Append(up, a), polled)
      BY <1>1, <1>2, <2>1, <2>3, LineReceived DEF LineTyped
    <3> QED
      BY <1>1, <1>2, <1>7, <2>3, <3>1 DEF PollOut
  <2> QED
    BY <2>2, <2>3
<1> QED
  BY <1>4, <1>5, <1>6, <1>7

\* What is lost does no harm.
LEMMA OutLost ==
  ASSUME LineTyped, Lose
  PROVE  /\ Quiet(down, up) => Quiet(down', up')
         /\ \A o \in {"INI_TIME", "INI_POS", "DBD"} : OneOut(o) => OneOut(o)'
         /\ PollOut => PollOut'
         /\ \A o : Accepted(o) => Accepted(o)'
<1>1. /\ \/ down # <<>> /\ down' = Tail(down) /\ up' = up
         \/ up # <<>> /\ up' = Tail(up) /\ down' = down
      /\ UNCHANGED <<msg, running, polled, rcv>>
  BY DEF Lose, listVars, objVars
<1>2. \A i \in DOMAIN up' : \E j \in DOMAIN up : up'[i] = up[j]
  BY <1>1, TailPart DEF LineTyped
<1>3. Quiet(down, up) => Quiet(down', up')
  BY <1>1, LineShrinks DEF LineTyped
<1>4. \A o : Accepted(o)' <=> Accepted(o)
  BY <1>1 DEF Accepted
<1>5. ASSUME NEW o \in {"INI_TIME", "INI_POS", "DBD"}, OneOut(o) PROVE OneOut(o)'
  <2>1. OneLine(down', up', o, running.n)
    BY <1>1, <1>5, LineShrinks DEF LineTyped, OneOut
  <2> QED
    BY <1>1, <1>2, <1>3, <1>4, <1>5, <2>1 DEF OneOut
<1>6. PollOut => PollOut'
  BY <1>1, LineShrinks DEF LineTyped, PollOut
<1> QED
  BY <1>3, <1>4, <1>5, <1>6

\* An action under way: what its functions wait for, and, when it is over with
\* success, what it has achieved.
LEMMA CallGood ==
  ASSUME TypeInv, LineInv, TimeDone, requests # <<>>, ~noFunctions,
         NEW b, Arrives(b), NEW have \in BOOLEAN, NEW ok \in BOOLEAN,
         NEW result \in {"again", "success"}, passData(Head(loaded), b, have, ok, result),
         execList' = IF result = "success" THEN Tail(loaded) ELSE loaded,
         rcv' = rcv, running' = job
  PROVE  /\ LineInv' /\ TimeDone'
         /\ execList' = <<>> => CASE job.action = "POSITION" ->
                                       Accepted("INI_TIME")' /\ Accepted("INI_POS")'
                                  [] job.action = "POLL_RECV" -> saved' = [i \in 1..Items |-> i]
                                  [] OTHER -> Accepted("INI_TIME")'
<1> DEFINE f == Head(loaded)
           rest == Tail(loaded)
<1>1. /\ job \in Jobs /\ loaded \in Rests(job.action) /\ (~starting => job = running)
      /\ starting => f \in {"configureAidAck", "recvStatePoll"}
  BY CurrentJob
<1>2. job.action \in Actions
  BY <1>1 DEF Jobs
<1>3. /\ loaded # <<>> /\ f \in Names
      /\ f = "configureAidAck" => rest # <<>> /\ Head(rest) = "timeTransfer"
      /\ f = "timeTransfer" =>
           rest # <<>> /\ Head(rest) \in {"finishTimeTransfer", "posTransfer", "recvStateTransfer"}
      /\ f = "finishTimeTransfer" => rest = <<>> /\ job.action = "TIME"
      /\ f = "posTransfer" => rest = <<>> /\ job.action = "POSITION"
      /\ f = "recvStateTransfer" => rest = <<>> /\ job.action = "RECV_AID_STATE"
      /\ f = "recvStatePoll" => rest = <<>> /\ job.action = "POLL_RECV"
  BY <1>1, <1>2, RestsFollow
<1>4. ObjectInv /\ LineTyped
  BY DEF TypeInv
<1>5. /\ starting => current = "none"
      /\ ~starting => current = f /\ running' = running
  BY <1>1 DEF current, starting, loaded
<1>6. result = "again" => current' = f /\ execList' # <<>>
  BY <1>3 DEF current
<1>7. result = "success" => execList' = rest /\ (rest # <<>> => current' = Head(rest))
                            /\ (rest = <<>> => current' = "none")
  BY DEF current
<1>8. result = "again" \/ result = "success"
  OBVIOUS
<1>9. \A o : ~starting => (Accepted(o)' <=> Accepted(o))
  BY <1>5 DEF Accepted
<1>10. \A o : Quiet(down', up') => OneOut(o)'
  <2> SUFFICES ASSUME Quiet(down', up'), NEW o PROVE OneOut(o)'
    OBVIOUS
  <2>1. OneLine(down', up', o, running'.n)
    BY DEF Quiet, OneLine
  <2> QED
    BY <2>1 DEF OneOut, Quiet
<1> HIDE DEF f, rest
<1>11. CASE f = "configureAidAck"
  <2>1. Quiet(down, up)
    BY <1>5, <1>11 DEF LineInv
  <2>2. Quiet(down', up')
    BY <1>1, <1>4, <1>11, <2>1, ConfigureLine DEF passData, f, Results
  <2>3. current' \in {"configureAidAck", "timeTransfer"} /\ execList' # <<>>
    BY <1>3, <1>6, <1>7, <1>8, <1>11
  <2> QED
    BY <1>10, <2>2, <2>3 DEF LineInv, TimeDone
<1>12. CASE f = "timeTransfer"
  <2>1. ~starting /\ OneOut("INI_TIME") /\ transferIni("INI_TIME", b, have, ok, result)
    BY <1>1, <1>5, <1>12 DEF LineInv, passData, f
  <2>2. /\ result = "again" => OneOut("INI_TIME")'
        /\ result = "success" => Quiet(down', up') /\ Accepted("INI_TIME")'
    BY <1>1, <1>4, <1>5, <2>1, IniLine DEF Results
  <2>3. execList' # <<>>
    BY <1>3, <1>6, <1>7, <1>8, <1>12
  <2>4. CASE result = "again"
    BY <1>6, <1>12, <2>2, <2>3, <2>4 DEF LineInv, TimeDone
  <2>5. CASE result = "success"
    <3>1. current' \in {"finishTimeTransfer", "posTransfer", "recvStateTransfer"}
      BY <1>3, <1>7, <1>12, <2>5
    <3> QED
      BY <1>10, <2>2, <2>3, <2>5, <3>1 DEF LineInv, TimeDone
  <2> QED
    BY <1>8, <2>4, <2>5
<1>13. CASE f = "posTransfer"
  <2>1. ~starting /\ OneOut("INI_POS") /\ transferIni("INI_POS", b, have, ok, result)
    BY <1>1, <1>5, <1>13 DEF LineInv, passData, f
  <2>2. /\ result = "again" => OneOut("INI_POS")'
        /\ result = "success" => Quiet(down', up') /\ Accepted("INI_POS")'
    BY <1>1, <1>4, <1>5, <2>1, IniLine DEF Results
  <2>3. Accepted("INI_TIME")'
    BY <1>5, <1>9, <1>13, <2>1 DEF TimeDone
  <2>4. CASE result = "again"
    BY <1>6, <1>13, <2>2, <2>3, <2>4 DEF LineInv, TimeDone
  <2>5. CASE result = "success"
    BY <1>3, <1>7, <1>13, <2>2, <2>3, <2>5 DEF LineInv, TimeDone
  <2> QED
    BY <1>8, <2>4, <2>5
<1>14. CASE f = "recvStateTransfer"
  <2>1. ~starting /\ OneOut("DBD") /\ recvStateTransfer(b, ok, result)
    BY <1>1, <1>5, <1>14 DEF LineInv, passData, f
  <2>2. saved # <<>>
    BY <1>1, <1>3, <1>4, <1>14, <2>1 DEF ObjectInv, starting
  <2>3. /\ result = "again" => OneOut("DBD")'
        /\ result = "success" => Quiet(down', up')
    BY <1>1, <1>4, <1>5, <2>1, <2>2, TransferLine DEF Results
  <2>4. Accepted("INI_TIME")'
    BY <1>5, <1>9, <1>14, <2>1 DEF TimeDone
  <2>5. CASE result = "again"
    BY <1>6, <1>14, <2>3, <2>4, <2>5 DEF LineInv, TimeDone
  <2>6. CASE result = "success"
    BY <1>3, <1>7, <1>14, <2>3, <2>4, <2>6 DEF LineInv, TimeDone
  <2> QED
    BY <1>8, <2>5, <2>6
<1>15. CASE f = "recvStatePoll"
  <2>1. /\ starting => Quiet(down, up)
        /\ ~starting => PollOut
        /\ recvStatePoll(b, ok, result)
    BY <1>5, <1>15 DEF LineInv, passData, f
  <2>2. /\ result = "again" => PollOut'
        /\ result = "success" => Quiet(down', up') /\ saved' = [i \in 1..Items |-> i]
    BY <1>1, <1>4, <2>1, PollStep DEF Results
  <2>3. CASE result = "again"
    BY <1>6, <1>15, <2>2, <2>3 DEF LineInv, TimeDone
  <2>4. CASE result = "success"
    BY <1>3, <1>7, <1>15, <2>2, <2>4 DEF LineInv, TimeDone
  <2> QED
    BY <1>8, <2>3, <2>4
<1>16. CASE f = "finishTimeTransfer"
  <2>1. ~starting /\ Quiet(down, up) /\ result = "success" /\ down' = down
    BY <1>1, <1>5, <1>16 DEF LineInv, passData, f, finishTimeTransfer, nothingSent
  <2>2. Quiet(down', up')
    BY <1>4, <2>1, Arrival
  <2>3. Accepted("INI_TIME")'
    BY <1>5, <1>9, <1>16, <2>1 DEF TimeDone
  <2> QED
    BY <1>3, <1>7, <1>16, <2>1, <2>2, <2>3 DEF LineInv, TimeDone
<1> QED
  BY <1>3, <1>11, <1>12, <1>13, <1>14, <1>15, <1>16 DEF Names

\* stateCheck keeps it, unless the action fails with something still on the line.
LEMMA CheckGood ==
  ASSUME TypeInv, ~late => Good, NEW b, Arrives(b), NEW have \in BOOLEAN, NEW ok \in BOOLEAN,
         stateCheck(b, have, ok), ~late'
  PROVE  Good'
<1>1. /\ finished = <<>> /\ requests # <<>> /\ running' = job /\ rcv' = rcv
      /\ initFails \/ callFunction(b, have, ok)
      /\ ~late /\ ~(failed(finished') /\ ~lineIdle')
  BY DEF stateCheck
<1>2. LineInv /\ TimeDone
  BY <1>1 DEF Good
<1>3. job = Head(requests)
  BY <1>1, CurrentJob
<1>4. ASSUME finish(FALSE), execList' = <<>> PROVE Good'
  <2>1. finished' = <<[job |-> Head(requests), success |-> FALSE]>>
    BY <1>4 DEF finish
  <2>2. finished' # <<>> /\ ~finished'[1].success
    BY <2>1
  <2>3. down' = <<>> /\ up' = <<>>
    BY <1>1, <2>2 DEF failed, lineIdle
  <2>4. Quiet(down', up') /\ current' = "none"
    BY <1>4, <2>3 DEF Quiet, current
  <2> QED
    BY <2>2, <2>4 DEF Good, LineInv, TimeDone, SuccessAccepted
<1>5. CASE initFails
  <2>1. finish(FALSE) /\ execList' = <<>>
    BY <1>5 DEF initFails, noFunctions, starting
  <2> QED
    BY <1>4, <2>1
<1>6. CASE callFunction(b, have, ok)
  <2>1. PICK result \in Results :
          /\ passData(Head(loaded), b, have, ok, result)
          /\ execList' = CASE result = "success" -> Tail(loaded)
                           [] result = "fail" -> <<>>
                           [] OTHER -> loaded
          /\ IF execList' = <<>> THEN finish(result = "success")
                                 ELSE UNCHANGED <<requests, finished>>
    BY <1>6 DEF callFunction, loaded
  <2>2. CASE result = "fail"
    <3>1. execList' = <<>> /\ finish(FALSE)
      BY <2>1, <2>2
    <3> QED
      BY <1>4, <3>1
  <2>3. CASE result # "fail"
    <3>1. result \in {"again", "success"}
      BY <2>3 DEF Results
    <3>2. execList' = IF result = "success" THEN Tail(loaded) ELSE loaded
      BY <2>1, <2>3
    <3>3. ~noFunctions
      BY <1>6 DEF callFunction
    <3>4. /\ LineInv' /\ TimeDone'
          /\ execList' = <<>> => CASE job.action = "POSITION" ->
                                       Accepted("INI_TIME")' /\ Accepted("INI_POS")'
                                   [] job.action = "POLL_RECV" -> saved' = [i \in 1..Items |-> i]
                                   [] OTHER -> Accepted("INI_TIME")'
      BY <1>1, <1>2, <2>1, <3>1, <3>2, <3>3, CallGood
    <3>5. SuccessAccepted'
      <4>1. CASE execList' = <<>>
        BY <1>1, <3>4, <4>1 DEF SuccessAccepted
      <4>2. CASE execList' # <<>>
        <5>1. finished' = <<>>
          BY <1>1, <2>1, <4>2
        <5> QED
          BY <5>1 DEF SuccessAccepted
      <4> QED
        BY <4>1, <4>2
    <3> QED
      BY <3>4, <3>5 DEF Good
  <2> QED
    BY <2>2, <2>3
<1> QED
  BY <1>1, <1>5, <1>6

AcceptInv == TypeInv /\ (~late => Good)

\* Every step keeps it.
LEMMA AcceptStep == ASSUME AcceptInv, [Next]_vars PROVE AcceptInv'
<1> USE DEF AcceptInv
<1>1. TypeInv'
  BY TypeStep
<1>2. LineTyped
  BY DEF TypeInv
<1> SUFFICES ASSUME ~late' PROVE Good'
  BY <1>1
<1>3. ASSUME ~late, Good, execList' = execList, UNCHANGED <<finished, running, saved>>,
             Quiet(down, up) => Quiet(down', up'),
             \A o \in {"INI_TIME", "INI_POS", "DBD"} : OneOut(o) => OneOut(o)',
             PollOut => PollOut',
             \A o : Accepted(o) => Accepted(o)'
      PROVE  Good'
  <2>1. current' = current
    BY <1>3 DEF current
  <2>2. LineInv' /\ TimeDone'
    BY <1>3, <2>1 DEF Good, LineInv, TimeDone
  <2>3. SuccessAccepted'
    BY <1>3 DEF Good, SuccessAccepted
  <2> QED
    BY <2>2, <2>3 DEF Good
<1>4. ASSUME ~late, Good, UNCHANGED <<execList, finished, running, saved, msg, polled, rcv, down, up>>
      PROVE  Good'
  BY <1>4 DEF Good, LineInv, TimeDone, SuccessAccepted, current, OneOut, PollOut, Accepted
<1>5. ASSUME NEW action \in Actions, scheduleAction(action) PROVE Good'
  BY <1>4, <1>5 DEF scheduleAction, objVars, lineVars
<1>6. CASE clearActions
  <2>1. /\ ~late /\ lineIdle /\ execList' = <<>>
        /\ UNCHANGED <<finished, running, saved, rcv, down, up>>
    BY <1>6 DEF clearActions, resetState, objVars, lineVars
  <2>2. Quiet(down', up') /\ current' = "none"
    BY <2>1 DEF Quiet, lineIdle, current
  <2>3. SuccessAccepted'
    BY <2>1 DEF Good, SuccessAccepted, Accepted
  <2> QED
    BY <2>2, <2>3 DEF Good, LineInv, TimeDone
<1>7. ASSUME NEW have \in BOOLEAN, NEW ok \in BOOLEAN, timeout(have, ok) \/ processMsg(have, ok)
      PROVE  Good'
  <2>1. PICK b : stateCheck(b, have, ok) /\ Arrives(b)
    BY <1>7 DEF timeout, processMsg, Arrives
  <2> QED
    BY <2>1, CheckGood
<1>8. CASE unwantedMessage
  <2>1. /\ requests = <<>> /\ up # <<>> /\ up' = Tail(up)
        /\ UNCHANGED <<execList, finished, running, saved, rcv, down, late>> /\ finished = <<>>
    BY <1>8 DEF unwantedMessage, listVars, objVars
  <2>2. execList = <<>> /\ current' = "none" /\ current = "none"
    BY <2>1 DEF TypeInv, ListInv, CurrentIsFront, current
  <2>3. Quiet(down', up')
    BY <1>2, <2>1, <2>2, LineShrinks DEF Good, LineInv, LineTyped
  <2> QED
    BY <2>1, <2>2, <2>3 DEF Good, LineInv, TimeDone, SuccessAccepted
<1>9. CASE transferFinished
  <2>1. ~late /\ finished' = <<>>
        /\ UNCHANGED <<execList, running, saved, msg, polled, rcv, down, up>>
    BY <1>9 DEF transferFinished, objVars, lineVars
  <2> QED
    BY <2>1 DEF Good, LineInv, TimeDone, SuccessAccepted, current, OneOut, PollOut, Accepted
<1>10. ASSUME NEW ok \in BOOLEAN, Receiver(ok) PROVE Good'
  <2>1. UNCHANGED <<execList, finished, running, saved, late>>
    BY <1>10 DEF Receiver, listVars, objVars
  <2> QED
    BY <1>2, <1>3, <1>10, <2>1, OutReceived
<1>11. CASE Lose
  <2>1. UNCHANGED <<execList, finished, running, saved, late>>
    BY <1>11 DEF Lose, listVars, objVars
  <2> QED
    BY <1>2, <1>3, <1>11, <2>1, OutLost
<1>12. CASE UNCHANGED vars
  BY <1>4, <1>12 DEF vars, listVars, objVars, lineVars
<1> QED
  BY <1>5, <1>6, <1>7, <1>8, <1>9, <1>10, <1>11, <1>12 DEF Next, Thread

\* As long as nothing was on the line when an action failed or was cleared, an
\* action that ends with success has done what it promises: the receiver accepted
\* the time, and the position, of this action, and a poll saved the whole database
\* in its order; whatever is lost, refused or late within the action.
THEOREM SuccessAlwaysAccepted == Spec => []SuccessAccepted
<1>1. Init /\ TypeInv => AcceptInv
  BY DEF Init, AcceptInv, Good, LineInv, TimeDone, SuccessAccepted, current, Quiet
<1>2. AcceptInv /\ [Next]_vars => AcceptInv'
  BY AcceptStep
<1>3. AcceptInv => SuccessAccepted
  BY DEF AcceptInv, Good, SuccessAccepted
<1> QED
  BY <1>1, <1>2, <1>3, TypeInvariant, PTL DEF Spec

=============================================================================
