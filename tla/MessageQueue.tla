---------------------------- MODULE MessageQueue -----------------------------
(***************************************************************************)
(* CMessageQueue (mx6/libcamera2/messageQueue.cpp): the queue between the  *)
(* threads that drive a stream of the camera HAL and its StreamThread.     *)
(*                                                                         *)
(* Every critical section of mLock is one action: the lock is only         *)
(* released in mCondition.wait*, which is a state of its own ("waiting").  *)
(* Clear() takes no lock; its callers, StreamAdapter::start and ::release, *)
(* run it when no other thread is inside a call of the stream.             *)
(***************************************************************************)
EXTENDS Naturals, Sequences

CONSTANTS
  Controllers,  \* threads that post sync messages: request and binder threads
  Frames,       \* payloads of STREAM_FRAME messages
  NoMessage,    \* the null sp<CMessage> a timeout returns
  MaxPending    \* bound on mMessages, which has none in the code

ASSUME MQAssumption == /\ NoMessage \notin Controllers
                       /\ NoMessage \notin Frames
                       /\ MaxPending \in Nat

VARIABLES
  mMessages,      \* CMessageQueue::mMessages
  mSyncMessages,  \* CMessageQueue::mSyncMessages, each named by its poster
  reader,         \* where the StreamThread is: see ReaderStates
  result,         \* waitMessage's result
  expired,        \* timeoutTime < now, for the waitMessage call under way
  caller,         \* "idle", or "waiting" in SyncMessage::wait
  mSem            \* SyncMessage::mSem of each controller's message

vars == <<mMessages, mSyncMessages, reader, result, expired, caller, mSem>>

\* "out": handling a message, between two calls of waitMessage;
\* "scan": about to take mLock and look; "waiting": in mCondition.waitRelative;
\* "notify": has a sync message in hand, its poster not yet notified.
ReaderStates == {"out", "scan", "waiting", "notify"}

Init == /\ mMessages = <<>>
        /\ mSyncMessages = <<>>
        /\ reader = "out"
        /\ result = NoMessage
        /\ expired = FALSE
        /\ caller = [c \in Controllers |-> "idle"]
        /\ mSem = [c \in Controllers |-> 0]

-----------------------------------------------------------------------------
(* Posting *)

\* mCondition.signal(): wakes the reader if it sleeps, is lost otherwise.
Signal == reader' = IF reader = "waiting" THEN "scan" ELSE reader

\* Mutant: the message is queued, the signal forgotten.
queueMessageSilently(f) ==
  /\ mMessages' = Append(mMessages, f)
  /\ UNCHANGED reader

queueMessage(f) ==
  /\ mMessages' = Append(mMessages, f)
  /\ Signal

postMessage(f) ==
  /\ Len(mMessages) < MaxPending
  /\ queueMessage(f)
  /\ UNCHANGED <<mSyncMessages, result, expired, caller, mSem>>

queueSyncMessage(c) ==
  /\ mSyncMessages' = Append(mSyncMessages, c)
  /\ Signal

\* queueSyncMessage, then the wait on the message's own semaphore begins.
postSyncMessage(c) ==
  /\ caller[c] = "idle"
  /\ queueSyncMessage(c)
  /\ caller' = [caller EXCEPT ![c] = "waiting"]
  /\ UNCHANGED <<mMessages, result, expired, mSem>>

\* sem_wait returns, and with it postSyncMessage.
semReturns(c) ==
  /\ caller[c] = "waiting"
  /\ mSem[c] > 0
  /\ mSem' = [mSem EXCEPT ![c] = @ - 1]
  /\ caller' = [caller EXCEPT ![c] = "idle"]
  /\ UNCHANGED <<mMessages, mSyncMessages, reader, result, expired>>

Clear ==
  /\ \A c \in Controllers : caller[c] = "idle"
  /\ mMessages' = <<>>
  /\ mSyncMessages' = <<>>
  /\ UNCHANGED <<reader, result, expired, caller, mSem>>

-----------------------------------------------------------------------------
(* waitMessage, one action per passage through the critical section *)

enterWait ==
  /\ reader = "out"
  /\ reader' = "scan"
  /\ result' = NoMessage
  /\ expired' = FALSE
  /\ UNCHANGED <<mMessages, mSyncMessages, caller, mSem>>

takeSync ==
  /\ reader = "scan"
  /\ mSyncMessages # <<>>
  /\ result' = Head(mSyncMessages)
  /\ mSyncMessages' = Tail(mSyncMessages)
  /\ reader' = "notify"
  /\ UNCHANGED <<mMessages, expired, caller, mSem>>

\* Mutant: frames are looked at without looking for sync messages first.
takeMessageFirst ==
  /\ reader = "scan"
  /\ mMessages # <<>>
  /\ result' = Head(mMessages)
  /\ mMessages' = Tail(mMessages)
  /\ reader' = "out"
  /\ UNCHANGED <<mSyncMessages, expired, caller, mSem>>

takeMessage ==
  /\ reader = "scan"
  /\ mSyncMessages = <<>>
  /\ mMessages # <<>>
  /\ result' = Head(mMessages)
  /\ mMessages' = Tail(mMessages)
  /\ reader' = "out"
  /\ UNCHANGED <<mSyncMessages, expired, caller, mSem>>

nothingFound ==
  /\ reader = "scan"
  /\ mSyncMessages = <<>>
  /\ mMessages = <<>>
  /\ reader' = IF expired THEN "out" ELSE "waiting"
  /\ UNCHANGED <<mMessages, mSyncMessages, result, expired, caller, mSem>>

\* Mutant: the poster is never notified.
notifyNobody ==
  /\ reader = "notify"
  /\ reader' = "out"
  /\ UNCHANGED <<mMessages, mSyncMessages, result, expired, caller, mSem>>

\* Mutant: the message is kept and its poster notified again.
notifyTwice ==
  /\ reader = "notify"
  /\ mSem' = [mSem EXCEPT ![result] = @ + 1]
  /\ reader' \in {"notify", "out"}
  /\ UNCHANGED <<mMessages, mSyncMessages, result, expired, caller>>

\* After the loop, outside mLock.
notify ==
  /\ reader = "notify"
  /\ mSem' = [mSem EXCEPT ![result] = @ + 1]
  /\ reader' = "out"
  /\ UNCHANGED <<mMessages, mSyncMessages, result, expired, caller>>

\* The clock passes timeoutTime; a reader in waitRelative wakes up.
timeout ==
  /\ reader \in {"scan", "waiting"}
  /\ ~expired
  /\ expired' = TRUE
  /\ reader' = "scan"
  /\ UNCHANGED <<mMessages, mSyncMessages, result, caller, mSem>>

waitMessage == enterWait \/ takeSync \/ takeMessage \/ nothingFound \/ notify

Next == \/ \E f \in Frames : postMessage(f)
        \/ \E c \in Controllers : postSyncMessage(c) \/ semReturns(c)
        \/ Clear
        \/ waitMessage
        \/ timeout

Spec == Init /\ [][Next]_vars

\* The StreamThread keeps calling waitMessage and the scheduler runs every
\* thread that can run; nobody is obliged to post, and time may stand still.
FairSpec == /\ Spec
            /\ WF_vars(waitMessage)
            /\ \A c \in Controllers : WF_vars(semReturns(c))

-----------------------------------------------------------------------------
(* Properties *)

TypeOK == /\ mMessages \in Seq(Frames)
          /\ mSyncMessages \in Seq(Controllers)
          /\ reader \in ReaderStates
          /\ result \in Controllers \cup Frames \cup {NoMessage}
          /\ reader = "notify" => result \in Controllers
          /\ expired \in BOOLEAN
          /\ caller \in [Controllers -> {"idle", "waiting"}]
          /\ mSem \in [Controllers -> Nat]

\* No wakeup is lost: the reader never sleeps on a queue that holds a
\* message, although signal() is lost on a reader that is not asleep yet and
\* the lists are looked at before the sleep begins (lines 74-105).
NoLostWakeup == reader = "waiting" => mMessages = <<>> /\ mSyncMessages = <<>>

Queued(c)   == \E i \in DOMAIN mSyncMessages : mSyncMessages[i] = c
InHand(c)   == reader = "notify" /\ result = c
Released(c) == mSem[c] = 1

\* A controller blocked in postSyncMessage has exactly one thing that will
\* release it - its queued message, the message in the reader's hand, or the
\* token of its semaphore - and a controller outside has none left behind,
\* so a later call can neither hang nor return before its message was taken.
Rendezvous ==
  \A c \in Controllers :
    /\ mSem[c] \in 0..1
    /\ \A i, j \in DOMAIN mSyncMessages :
         mSyncMessages[i] = c /\ mSyncMessages[j] = c => i = j
    /\ caller[c] = "idle" => ~Queued(c) /\ ~InHand(c) /\ ~Released(c)
    /\ caller[c] = "waiting" =>
         \/ Queued(c)  /\ ~InHand(c) /\ ~Released(c)
         \/ ~Queued(c) /\ InHand(c)  /\ ~Released(c)
         \/ ~Queued(c) /\ ~InHand(c) /\ Released(c)

\* Every postSyncMessage returns: start(), stop() and release() of a stream
\* cannot hang on the queue while the StreamThread keeps reading.
SyncPostReturns ==
  \A c \in Controllers : caller[c] = "waiting" ~> caller[c] = "idle"

\* The queue is a SyncMailbox: sync messages overtake frames, each list is
\* first-in first-out, and a poster resumes only after its message was taken.
Mailbox == INSTANCE SyncMailbox WITH
  Callers <- Controllers,
  Mail    <- Frames,
  calls   <- mSyncMessages,
  mail    <- mMessages,
  taken   <- {c \in Controllers : InHand(c) \/ Released(c)},
  blocked <- {c \in Controllers : caller[c] = "waiting"}

IsMailbox == Mailbox!MBSpec

=============================================================================
