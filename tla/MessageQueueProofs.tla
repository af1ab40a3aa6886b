-------------------------- MODULE MessageQueueProofs --------------------------
(***************************************************************************)
(* Proofs about MessageQueue, for any sets of controllers and frames and   *)
(* any bound on the queue.                                                 *)
(*                                                                         *)
(* The inductive invariant is TypeOK /\ Rendezvous; NoLostWakeup is        *)
(* inductive next to TypeOK.  Both feed the refinement of SyncMailbox,     *)
(* where a poster's message must be at one place at a time for the set of  *)
(* taken calls to change as the abstract actions say.                      *)
(***************************************************************************)
EXTENDS MessageQueue, TLAPS

\* A Tail keeps the elements of a sequence in order, one place nearer.
LEMMA TailElements ==
  ASSUME NEW S, NEW s \in Seq(S), s # <<>>
  PROVE  /\ Head(s) \in S
         /\ Tail(s) \in Seq(S)
         /\ Head(s) = s[1]
         /\ 1 \in DOMAIN s
         /\ \A i \in DOMAIN Tail(s) : i + 1 \in DOMAIN s /\ Tail(s)[i] = s[i + 1]
         /\ \A i \in DOMAIN s : i # 1 => i - 1 \in DOMAIN Tail(s) /\ Tail(s)[i - 1] = s[i]
  OBVIOUS

\* Append keeps the elements of a sequence in place and adds one at the end.
LEMMA AppendElements ==
  ASSUME NEW S, NEW s \in Seq(S), NEW e \in S
  PROVE  /\ DOMAIN Append(s, e) = DOMAIN s \cup {Len(s) + 1}
         /\ Len(s) + 1 \notin DOMAIN s
         /\ Append(s, e)[Len(s) + 1] = e
         /\ \A i \in DOMAIN s : Append(s, e)[i] = s[i]
  OBVIOUS

\* The queue, the semaphores and the phases of both sides stay in their types.
THEOREM TypeCorrect == Spec => []TypeOK
<1>1. Init => TypeOK
  <2> SUFFICES ASSUME Init PROVE TypeOK
    OBVIOUS
  <2>1. mMessages \in Seq(Frames) /\ mSyncMessages \in Seq(Controllers)
    BY DEF Init
  <2>2. /\ caller \in [Controllers -> {"idle", "waiting"}]
        /\ mSem \in [Controllers -> Nat]
    BY DEF Init
  <2> QED
    BY <2>1, <2>2 DEF Init, TypeOK, ReaderStates
<1>2. TypeOK /\ [Next]_vars => TypeOK'
  <2> SUFFICES ASSUME TypeOK, [Next]_vars PROVE TypeOK'
    OBVIOUS
  <2> USE DEF TypeOK, ReaderStates
  <2>1. ASSUME NEW f \in Frames, postMessage(f) PROVE TypeOK'
    BY <2>1 DEF postMessage, queueMessage, Signal
  <2>2. ASSUME NEW c \in Controllers, postSyncMessage(c) PROVE TypeOK'
    BY <2>2 DEF postSyncMessage, queueSyncMessage, Signal
  <2>3. ASSUME NEW c \in Controllers, semReturns(c) PROVE TypeOK'
    BY <2>3 DEF semReturns
  <2>4. CASE Clear
    BY <2>4 DEF Clear
  <2>5. CASE enterWait
    BY <2>5 DEF enterWait
  <2>6. CASE takeSync
    BY <2>6, TailElements DEF takeSync
  <2>7. CASE takeMessage
    BY <2>7, TailElements DEF takeMessage
  <2>8. CASE nothingFound
    BY <2>8 DEF nothingFound
  <2>9. CASE notify
    BY <2>9 DEF notify
  <2>10. CASE timeout
    BY <2>10 DEF timeout
  <2>11. CASE UNCHANGED vars
    BY <2>11 DEF vars
  <2> QED
    BY <2>1, <2>2, <2>3, <2>4, <2>5, <2>6, <2>7, <2>8, <2>9, <2>10, <2>11
       DEF Next, waitMessage
<1> QED
  BY <1>1, <1>2, PTL DEF Spec

\* The reader never sleeps on a queue that holds a message: every action that
\* adds one signals, and the reader goes to sleep only from an empty queue.
THEOREM NoWakeupIsLost == Spec => []NoLostWakeup
<1>1. Init => NoLostWakeup
  BY DEF Init, NoLostWakeup
<1>2. NoLostWakeup /\ [Next]_vars => NoLostWakeup'
  BY DEF NoLostWakeup, vars, Next, postMessage, queueMessage, Signal,
         postSyncMessage, queueSyncMessage, semReturns, Clear, waitMessage,
         enterWait, takeSync, takeMessage, nothingFound, notify, timeout
<1> QED
  BY <1>1, <1>2, PTL DEF Spec

\* A step of the queue keeps the account of each poster's one message: queued,
\* in the reader's hand, or turned into the token its poster waits for.
LEMMA RendezvousStep ==
  ASSUME TypeOK, Rendezvous, [Next]_vars
  PROVE  Rendezvous'
<1> USE DEF TypeOK, Rendezvous, Queued, InHand, Released
<1>1. ASSUME NEW f \in Frames, postMessage(f) PROVE Rendezvous'
  BY <1>1 DEF postMessage, queueMessage, Signal
<1>2. ASSUME NEW c \in Controllers, postSyncMessage(c) PROVE Rendezvous'
  <2>1. /\ mSyncMessages' = Append(mSyncMessages, c)
        /\ caller' = [caller EXCEPT ![c] = "waiting"]
        /\ caller[c] = "idle"
        /\ UNCHANGED <<result, mSem>>
        /\ reader' = "notify" <=> reader = "notify"
    BY <1>2 DEF postSyncMessage, queueSyncMessage, Signal
  <2>2. ~Queued(c) /\ ~InHand(c) /\ mSem[c] = 0
    BY <2>1
  <2>3. Queued(c)' /\ \A d \in Controllers \ {c} : Queued(d)' <=> Queued(d)
    BY <2>1, AppendElements
  <2>4. \A d \in Controllers : \A i, j \in DOMAIN mSyncMessages' :
           mSyncMessages'[i] = d /\ mSyncMessages'[j] = d => i = j
    BY <2>1, <2>2, AppendElements
  <2> QED
    BY <2>1, <2>2, <2>3, <2>4
<1>3. ASSUME NEW c \in Controllers, semReturns(c) PROVE Rendezvous'
  BY <1>3 DEF semReturns
<1>4. CASE Clear
  BY <1>4 DEF Clear
<1>5. CASE enterWait
  BY <1>5 DEF enterWait
<1>6. CASE takeSync
  <2> PICK h \in Controllers : h = Head(mSyncMessages)
    BY <1>6, TailElements DEF takeSync
  <2>1. /\ Queued(h)
        /\ mSyncMessages' \in Seq(Controllers)
        /\ reader = "scan" /\ reader' = "notify" /\ result' = h
        /\ UNCHANGED <<caller, mSem>>
    BY <1>6, TailElements DEF takeSync
  <2>2. ~Queued(h)'
    <3>1. /\ mSyncMessages' = Tail(mSyncMessages)
          /\ mSyncMessages # <<>>
          /\ 1 \in DOMAIN mSyncMessages
          /\ mSyncMessages[1] = h
      BY <1>6, TailElements DEF takeSync
    <3>2. ASSUME NEW i \in DOMAIN Tail(mSyncMessages) PROVE Tail(mSyncMessages)[i] # h
      <4>1. /\ i \in Nat \ {0}
            /\ i + 1 \in DOMAIN mSyncMessages
            /\ Tail(mSyncMessages)[i] = mSyncMessages[i + 1]
        BY <3>1, TailElements
      <4>2. \A k, l \in DOMAIN mSyncMessages :
               mSyncMessages[k] = h /\ mSyncMessages[l] = h => k = l
        BY <2>1
      <4>3. i + 1 # 1
        BY <4>1
      <4> QED
        BY <3>1, <4>1, <4>2, <4>3
    <3> QED
      BY <3>1, <3>2
  <2>3. \A c \in Controllers \ {h} : Queued(c)' <=> Queued(c)
    <3>1. mSyncMessages' = Tail(mSyncMessages) /\ mSyncMessages # <<>>
      BY <1>6 DEF takeSync
    <3>2. ASSUME NEW c \in Controllers \ {h}, Queued(c) PROVE Queued(c)'
      <4>1. PICK i \in DOMAIN mSyncMessages : mSyncMessages[i] = c
        BY <3>2
      <4>2. i # 1
        BY <4>1, <3>1, TailElements
      <4>3. i - 1 \in DOMAIN Tail(mSyncMessages) /\ Tail(mSyncMessages)[i - 1] = c
        BY <4>1, <4>2, <3>1, TailElements
      <4> QED
        BY <3>1, <4>3
    <3>3. ASSUME NEW c \in Controllers \ {h}, Queued(c)' PROVE Queued(c)
      <4>1. PICK i \in DOMAIN Tail(mSyncMessages) : Tail(mSyncMessages)[i] = c
        BY <3>1, <3>3
      <4>2. i + 1 \in DOMAIN mSyncMessages /\ mSyncMessages[i + 1] = c
        BY <3>1, <4>1, TailElements
      <4> QED
        BY <4>2
    <3> QED
      BY <3>2, <3>3
  <2>4. \A c \in Controllers : \A i, j \in DOMAIN mSyncMessages' :
           mSyncMessages'[i] = c /\ mSyncMessages'[j] = c => i = j
    BY <1>6, <2>1, TailElements DEF takeSync
  <2> QED
    BY <2>1, <2>2, <2>3, <2>4
<1>7. CASE takeMessage
  BY <1>7 DEF takeMessage
<1>8. CASE nothingFound
  BY <1>8 DEF nothingFound
<1>9. CASE notify
  BY <1>9 DEF notify
<1>10. CASE timeout
  BY <1>10 DEF timeout
<1>11. CASE UNCHANGED vars
  BY <1>11 DEF vars
<1> QED
  BY <1>1, <1>2, <1>3, <1>4, <1>5, <1>6, <1>7, <1>8, <1>9, <1>10, <1>11
     DEF Next, waitMessage

\* A poster blocked in postSyncMessage has exactly one thing that will release
\* it, and a poster outside has left nothing behind.
THEOREM RendezvousHolds == Spec => []Rendezvous
<1>1. Init => Rendezvous
  <2> SUFFICES ASSUME Init PROVE Rendezvous
    OBVIOUS
  <2>1. DOMAIN mSyncMessages = {} /\ reader = "out"
    BY DEF Init
  <2>2. \A c \in Controllers : mSem[c] = 0 /\ caller[c] = "idle"
    BY DEF Init
  <2> QED
    <3> SUFFICES ASSUME NEW c \in Controllers
                 PROVE  ~Queued(c) /\ ~InHand(c) /\ ~Released(c) /\ mSem[c] \in 0..1
      BY <2>1, <2>2 DEF Rendezvous
    <3> QED
      BY <2>1, <2>2 DEF Queued, InHand, Released
<1>2. TypeOK /\ Rendezvous /\ [Next]_vars => Rendezvous'
  BY RendezvousStep
<1> QED
  BY <1>1, <1>2, TypeCorrect, PTL DEF Spec

\* Where the callers of the abstract mailbox are, read off the queue.
takenCalls   == {c \in Controllers : InHand(c) \/ Released(c)}
blockedCalls == {c \in Controllers : caller[c] = "waiting"}

\* Every step of the queue is a step of the mailbox, or changes nothing in it.
LEMMA MailboxStep ==
  ASSUME TypeOK, Rendezvous, [Next]_vars
  PROVE  [Mailbox!MBNext]_(Mailbox!mbVars)
<1> DEFINE Stutter == UNCHANGED <<mSyncMessages, mMessages, takenCalls, blockedCalls>>
<1> USE DEF TypeOK
<1>1. ASSUME Stutter PROVE UNCHANGED Mailbox!mbVars
  BY <1>1 DEF Mailbox!mbVars, takenCalls, blockedCalls
<1>2. ASSUME NEW f \in Frames, postMessage(f) PROVE Mailbox!MBNext
  <2>1. \A c \in Controllers : InHand(c)' <=> InHand(c)
    BY <1>2 DEF postMessage, queueMessage, Signal, InHand
  <2>2. takenCalls' = takenCalls /\ blockedCalls' = blockedCalls
    BY <1>2, <2>1 DEF postMessage, takenCalls, blockedCalls, Released
  <2>3. Mailbox!Send(f)
    BY <1>2, <2>2 DEF postMessage, queueMessage, Mailbox!Send, takenCalls, blockedCalls
  <2> QED
    BY <2>3 DEF Mailbox!MBNext
<1>3. ASSUME NEW c \in Controllers, postSyncMessage(c) PROVE Mailbox!MBNext
  <2>1. \A d \in Controllers : InHand(d)' <=> InHand(d)
    BY <1>3 DEF postSyncMessage, queueSyncMessage, Signal, InHand
  <2>2. takenCalls' = takenCalls
    BY <1>3, <2>1 DEF postSyncMessage, takenCalls, Released
  <2>3. blockedCalls' = blockedCalls \cup {c} /\ c \notin blockedCalls
    BY <1>3 DEF postSyncMessage, blockedCalls
  <2>4. Mailbox!Call(c)
    BY <1>3, <2>2, <2>3
       DEF postSyncMessage, queueSyncMessage, Mailbox!Call, takenCalls, blockedCalls
  <2> QED
    BY <2>4 DEF Mailbox!MBNext
<1>4. ASSUME NEW c \in Controllers, semReturns(c) PROVE Mailbox!MBNext
  <2>1. mSem[c] = 1 /\ ~InHand(c)
    BY <1>4 DEF semReturns, Rendezvous, Released
  <2>2. takenCalls' = takenCalls \ {c} /\ c \in takenCalls
    <3>1. \A d \in Controllers : InHand(d)' <=> InHand(d)
      BY <1>4 DEF semReturns, InHand
    <3>2. \A d \in Controllers : Released(d)' <=> Released(d) /\ d # c
      BY <1>4, <2>1 DEF semReturns, Released
    <3>3. Released(c)
      BY <2>1 DEF Released
    <3> QED
      BY <2>1, <3>1, <3>2, <3>3 DEF takenCalls
  <2>3. blockedCalls' = blockedCalls \ {c}
    BY <1>4 DEF semReturns, blockedCalls
  <2>4. Mailbox!Resume(c)
    BY <1>4, <2>2, <2>3 DEF semReturns, Mailbox!Resume, takenCalls, blockedCalls
  <2> QED
    BY <2>4 DEF Mailbox!MBNext
<1>5. CASE Clear
  <2>1. blockedCalls = {} /\ blockedCalls' = {}
    BY <1>5 DEF Clear, blockedCalls
  <2>2. takenCalls' = takenCalls
    BY <1>5 DEF Clear, takenCalls, InHand, Released
  <2>3. Mailbox!Discard
    BY <1>5, <2>1, <2>2 DEF Clear, Mailbox!Discard, takenCalls, blockedCalls
  <2> QED
    BY <2>3 DEF Mailbox!MBNext
<1>6. CASE takeSync
  <2>1. PICK h \in Controllers : h = Head(mSyncMessages)
    BY <1>6, TailElements DEF takeSync
  <2>2. takenCalls' = takenCalls \cup {h}
    BY <1>6, <2>1 DEF takeSync, takenCalls, InHand, Released
  <2>3. blockedCalls' = blockedCalls
    BY <1>6 DEF takeSync, blockedCalls
  <2>4. Mailbox!TakeCall
    BY <1>6, <2>1, <2>2, <2>3
       DEF takeSync, Mailbox!TakeCall, takenCalls, blockedCalls
  <2> QED
    BY <2>4 DEF Mailbox!MBNext
<1>7. CASE takeMessage
  <2>1. takenCalls' = takenCalls /\ blockedCalls' = blockedCalls
    BY <1>7 DEF takeMessage, takenCalls, blockedCalls, InHand, Released
  <2>2. Mailbox!TakeMail
    BY <1>7, <2>1 DEF takeMessage, Mailbox!TakeMail, takenCalls, blockedCalls
  <2> QED
    BY <2>2 DEF Mailbox!MBNext
<1>8. CASE notify
  <2>1. PICK h \in Controllers : h = result
    BY <1>8 DEF notify
  <2>2. mSem[h] = 0
    BY <1>8, <2>1 DEF notify, Rendezvous, InHand, Released
  <2>3. takenCalls' = takenCalls
    BY <1>8, <2>1, <2>2 DEF notify, takenCalls, InHand, Released
  <2>4. Stutter
    BY <1>8, <2>3 DEF notify, blockedCalls
  <2> QED
    BY <1>1, <2>4
<1>9. CASE enterWait \/ nothingFound \/ timeout
  <2>1. takenCalls' = takenCalls
    BY <1>9 DEF enterWait, nothingFound, timeout, takenCalls, InHand, Released
  <2>2. Stutter
    BY <1>9, <2>1 DEF enterWait, nothingFound, timeout, blockedCalls
  <2> QED
    BY <1>1, <2>2
<1>10. CASE UNCHANGED vars
  <2>1. Stutter
    BY <1>10 DEF vars, takenCalls, blockedCalls, InHand, Released
  <2> QED
    BY <1>1, <2>1
<1> QED
  BY <1>2, <1>3, <1>4, <1>5, <1>6, <1>7, <1>8, <1>9, <1>10 DEF Next, waitMessage

\* The queue implements the mailbox: sync messages overtake frames, both lists
\* are first-in first-out, and a poster resumes after its message was taken.
THEOREM QueueIsMailbox == Spec => IsMailbox
<1>1. Init => Mailbox!MBInit
  <2> SUFFICES ASSUME Init PROVE Mailbox!MBInit
    OBVIOUS
  <2>1. \A c \in Controllers : mSem[c] = 0 /\ caller[c] = "idle"
    BY DEF Init
  <2>2. reader = "out"
    BY DEF Init
  <2>3. \A c \in Controllers : ~InHand(c) /\ ~Released(c)
    <3>1. ASSUME NEW c \in Controllers PROVE ~InHand(c)
      BY <2>2 DEF InHand
    <3>2. ASSUME NEW c \in Controllers PROVE ~Released(c)
      BY <2>1 DEF Released
    <3> QED
      BY <3>1, <3>2
  <2> QED
    <3>1. {c \in Controllers : InHand(c) \/ Released(c)} = {}
      BY <2>3
    <3>2. {c \in Controllers : caller[c] = "waiting"} = {}
      BY <2>1
    <3> QED
      BY <3>1, <3>2 DEF Init, Mailbox!MBInit
<1>2. TypeOK /\ Rendezvous /\ [Next]_vars => [Mailbox!MBNext]_(Mailbox!mbVars)
  BY MailboxStep
<1> QED
  BY <1>1, <1>2, TypeCorrect, RendezvousHolds, PTL
     DEF Spec, IsMailbox, Mailbox!MBSpec

===============================================================================
