----------------------------- MODULE SyncMailbox -----------------------------
(***************************************************************************)
(* What a stream of the camera HAL relies on when it uses a CMessageQueue  *)
(* (mx6/libcamera2/messageQueue.h): a mailbox with two classes of mail.    *)
(* Messages are fire-and-forget; calls block their caller until the        *)
(* receiver has taken them.  Calls are taken before messages, each class   *)
(* in order.  Nothing is said of locks, signals or time.                   *)
(***************************************************************************)
EXTENDS Sequences

CONSTANTS Callers,  \* threads that make blocking calls
          Mail      \* contents of the messages

VARIABLES calls,    \* calls not taken yet, oldest first
          mail,     \* messages not taken yet, oldest first
          taken,    \* callers whose call was taken and who may resume
          blocked   \* callers inside a call

mbVars == <<calls, mail, taken, blocked>>

MBInit == /\ calls = <<>>
          /\ mail = <<>>
          /\ taken = {}
          /\ blocked = {}

Send(m) == /\ mail' = Append(mail, m)
           /\ UNCHANGED <<calls, taken, blocked>>

Call(c) == /\ c \notin blocked
           /\ calls' = Append(calls, c)
           /\ blocked' = blocked \cup {c}
           /\ UNCHANGED <<mail, taken>>

TakeCall == /\ calls # <<>>
            /\ calls' = Tail(calls)
            /\ taken' = taken \cup {Head(calls)}
            /\ UNCHANGED <<mail, blocked>>

TakeMail == /\ calls = <<>>
            /\ mail # <<>>
            /\ mail' = Tail(mail)
            /\ UNCHANGED <<calls, taken, blocked>>

Resume(c) == /\ c \in taken
             /\ taken' = taken \ {c}
             /\ blocked' = blocked \ {c}
             /\ UNCHANGED <<calls, mail>>

\* The owner empties the mailbox between two lives of the receiver; nobody
\* is inside a call then.
Discard == /\ blocked = {}
           /\ calls' = <<>>
           /\ mail' = <<>>
           /\ UNCHANGED <<taken, blocked>>

MBNext == \/ \E m \in Mail : Send(m)
          \/ \E c \in Callers : Call(c) \/ Resume(c)
          \/ TakeCall
          \/ TakeMail
          \/ Discard

MBSpec == MBInit /\ [][MBNext]_mbVars

=============================================================================
