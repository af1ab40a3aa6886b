----------------------------- MODULE SuplSessions -----------------------------
(***************************************************************************)
(* SUPL sessions (ublox_gps/supl/suplSMmanager.cpp) and the engine control *)
(* they use (ublox_gps/hal/gps_thread.cpp).  In each turn of its loop the  *)
(* GPS thread reads the sockets of the sessions, takes at most one command *)
(* from its pipe and goes through the sessions for pending actions.  RIL   *)
(* threads insert the sessions the network asks for, the framework starts  *)
(* and stops navigation, the user allows or refuses a location request, and*)
(* the network comes and goes.                                             *)
(*                                                                         *)
(* A session that exists is in queue; messages are told apart by what they *)
(* make the session do.  A message is for the session it names, whichever  *)
(* connection it comes over, or for the session of the connection when the *)
(* driver does not know that name; a SUPLINIT comes by the RIL threads     *)
(* only.  A SUPL server is configured and the NI interface initialised.    *)
(* Reports to the framework, the state of the receiver and its shutdown are*)
(* left out.                                                               *)
(***************************************************************************)
EXTENDS Integers, Sequences, FiniteSets

CONSTANTS
  RilThreads,        \* threads the framework delivers network messages on
  MAX_SM_INSTANCES,  \* 5 in the code
  SetInitiated,      \* the position mode is MS_BASED or MS_ASSISTED
  MaxSessions,       \* bound on the number of sessions
  MaxCalls,          \* bound on the framework's calls of start, stop and cleanup
  NoSession          \* NULL

Handlers == 1..MaxSessions

ASSUME SuplAssumption == /\ IsFiniteSet(RilThreads)
                         /\ MAX_SM_INSTANCES \in Nat
                         /\ SetInitiated \in BOOLEAN
                         /\ MaxSessions \in Nat
                         /\ MaxCalls \in Nat
                         /\ NoSession \notin Handlers

VARIABLES
  queue,        \* the list from s_pQueueTail on
  session,      \* the suplHandler_t of each session
  ril,          \* what each RIL thread is doing in processRawSuplMessage
  phase,        \* where the GPS thread is in its loop
  at,           \* the next session it visits, pNext
  crossed,      \* a message just read ended another session than its connection's
  asking,       \* the session startNiSession asks the user about
  notified,     \* sessions whose notification the user has not answered
  consent,      \* the user's answer for each session
  m_cmd,        \* CNiIf::m_cmd
  sem,          \* CNiIf::sem
  isConnected,  \* CRilIf::m_available; the network type is never RIL_NO_NETWORK again
  pipe,         \* cmdPipes
  clientCount,
  started,      \* the framework has started navigation
  calls,        \* the number of its calls
  lost,         \* stop commands that found clientCount zero
  stray,        \* stop commands of a framework that had not started
  aborted       \* an assertion of freeSuplHandler failed

loopVars == <<phase, at, crossed>>
userVars == <<asking, notified, consent, m_cmd, sem>>
engineVars == <<clientCount, lost>>
frameworkVars == <<started, calls, stray>>
listVars == <<queue, session, aborted>>
vars == <<listVars, ril, loopVars, userVars, isConnected, pipe, engineVars,
          frameworkVars>>

\* The states of the machine, and a handler that is not used yet or was freed.
SMState == {"START", "NO_NETWORK", "AUTH", "WAIT_RES", "RRLP", "RRLP_RESP"}
Connected == {"WAIT_RES", "RRLP", "RRLP_RESP"}

\* A SUPLINIT is in order, or it asks for a method or mode that is not supported
\* or has the wrong session ids, which is seen before or after there is a network.
Requests == {"good", "bad"}
Kinds == Requests \cup {"SI"}

Unused == [state |-> "unused", kind |-> "SI", timer |-> FALSE, response |-> "none"]

Freed == [Unused EXCEPT !.state = "freed"]

Init ==
  /\ queue = <<>> /\ session = [h \in Handlers |-> Unused] /\ aborted = FALSE
  /\ ril = [r \in RilThreads |-> "idle"]
  /\ phase = "read" /\ at = NoSession /\ crossed = FALSE
  /\ asking = NoSession /\ notified = {} /\ consent = [h \in Handlers |-> "none"]
  /\ m_cmd = "AUTH_DENIED" /\ sem = 0
  /\ isConnected = FALSE
  /\ pipe = <<>> /\ clientCount = 0
  /\ started = FALSE /\ calls = 0 /\ lost = 0 /\ stray = 0

----------------------------------------------------------------------------
(* The list of sessions. *)

isNi(h) == session[h].kind # "SI"
inQueue == {queue[i] : i \in DOMAIN queue}
suplCountSessions == Cardinality({h \in inQueue : isNi(h)})

firstOf(q) == IF q = <<>> THEN NoSession ELSE Head(q)

\* Where a session is in the list; NULL is behind its end.
place(h) == IF h \in inQueue THEN CHOOSE i \in DOMAIN queue : queue[i] = h
            ELSE Len(queue) + 1

nextOf(h) == IF place(h) < Len(queue) THEN queue[place(h) + 1] ELSE NoSession

\* The list without a session.
unlinked(h) == SubSeq(queue, 1, place(h) - 1) \o SubSeq(queue, place(h) + 1, Len(queue))

fresh == {h \in Handlers : session[h].state = "unused"}
allocateSM == CHOOSE h \in fresh : TRUE

\* suplInsertHandler counts the sessions before the last one.
full == Len(queue) > MAX_SM_INSTANCES + 1

moveTo(h, state, timer) ==
  /\ session' = [session EXCEPT ![h].state = state, ![h].timer = timer,
                                ![h].response = "none"]
  /\ UNCHANGED <<queue, aborted, pipe>>

awaitResponse(h, response, timer) ==
  /\ session' = [session EXCEPT ![h].state = "RRLP_RESP", ![h].timer = timer,
                                ![h].response = response]
  /\ UNCHANGED <<queue, aborted, pipe>>

\* Mutant: the engine is stopped for a session of the SET too.
endSuplSessionAlways(h) ==
  /\ pipe' = Append(pipe, "STOP_NI") /\ aborted' = (aborted \/ h \notin inQueue)
  /\ queue' = unlinked(h)
  /\ session' = [session EXCEPT ![h] = Freed]

\* endSuplSession: the request to stop the engine, then freeSuplHandler.
endSuplSession(h) ==
  /\ pipe' = IF isNi(h) THEN Append(pipe, "STOP_NI") ELSE pipe
  /\ aborted' = (aborted \/ h \notin inQueue)
  /\ queue' = unlinked(h)
  /\ session' = [session EXCEPT ![h] = Freed]

\* Mutant: SUPLSTART is sent without a timeout.
startSiSessionUntimed(h) == moveTo(h, "WAIT_RES", FALSE) \/ endSuplSession(h)

\* createUplSession may fail.
startSiSession(h) == moveTo(h, "WAIT_RES", TRUE) \/ endSuplSession(h)

\* Shows the notification; the GPS thread then waits for the answer.
startNiSession(h) ==
  /\ session' = [session EXCEPT ![h].state = "AUTH"]
  /\ asking' = h /\ notified' = notified \cup {h} /\ phase' = "auth"
  /\ UNCHANGED <<queue, aborted, pipe, consent, m_cmd, sem>>

----------------------------------------------------------------------------
(* RIL threads: suplHandleNetworkInitiatedAction. *)

\* The count is taken, the list unlocked again.
niCheck(r) ==
  /\ ril[r] = "idle" /\ fresh # {} /\ suplCountSessions = 0
  /\ ril' = [ril EXCEPT ![r] = "prepared"]
  /\ UNCHANGED <<listVars, loopVars, userVars, isConnected, pipe, engineVars,
                 frameworkVars>>

niInsert(r) ==
  /\ ril[r] = "prepared" /\ (full \/ fresh # {})
  /\ \/ full /\ ril' = [ril EXCEPT ![r] = "idle"] /\ UNCHANGED <<queue, session>>
     \/ /\ ~full /\ ril' = [ril EXCEPT ![r] = "inserted"]
        /\ queue' = Append(queue, allocateSM)
        /\ \E k \in Requests :
             session' = [session EXCEPT ![allocateSM] =
                           [Unused EXCEPT !.state = "START", !.kind = k]]
  /\ UNCHANGED <<aborted, loopVars, userVars, isConnected, pipe, engineVars,
                 frameworkVars>>

\* requestStart_cb, after the GPS thread may have seen the session.
niStart(r) ==
  /\ ril[r] = "inserted"
  /\ ril' = [ril EXCEPT ![r] = "idle"]
  /\ pipe' = Append(pipe, "START_NI")
  /\ UNCHANGED <<listVars, loopVars, userVars, isConnected, engineVars, frameworkVars>>

----------------------------------------------------------------------------
(* The GPS thread: suplReadUplSock. *)

\* The sockets of the sessions before h have nothing to read.
visitRead(h) ==
  /\ phase = "read" /\ h \in inQueue /\ at \in inQueue /\ place(at) <= place(h)
  /\ at' = nextOf(h) /\ phase' = phase

\* What remains the same when a session is visited.
readRest == UNCHANGED <<ril, userVars, isConnected, engineVars, frameworkVars>>

socketClosed(h) ==
  /\ visitRead(h) /\ session[h].state \in Connected
  /\ endSuplSession(h)
  /\ readRest /\ UNCHANGED crossed

\* suplSM with a message: one the state does not expect ends the session, but some
\* states take no notice of messages.
onMessage(h, m) ==
  CASE session[h].state = "WAIT_RES" /\ m = "RESPONSE" -> moveTo(h, "RRLP", TRUE)
    [] session[h].state = "RRLP" /\ m = "POS" -> moveTo(h, "RRLP", TRUE)
    [] session[h].state = "RRLP" /\ m = "POS_MSB" -> awaitResponse(h, "position", TRUE)
    [] session[h].state = "RRLP" /\ m = "POS_MSA" -> awaitResponse(h, "msa", FALSE)
    [] session[h].state \in {"NO_NETWORK", "AUTH", "RRLP_RESP"} -> UNCHANGED <<listVars, pipe>>
    [] OTHER -> endSuplSession(h)

Messages == {"RESPONSE", "POS", "POS_MSB", "POS_MSA", "END"}

\* A message read from the connection of h is handled by the session it names.
messageFor(h, g) ==
  /\ visitRead(h) /\ session[h].state \in Connected /\ g \in inQueue
  /\ \E m \in Messages : onMessage(g, m)
  /\ crossed' = (crossed \/ (g # h /\ session'[g].state = "freed"))
  /\ readRest

socketMessage(h) == \E g \in Handlers : messageFor(h, g)

\* The pointer saved as pNext leads to a session that was freed.  Reading it may
\* stop the process or fail an assertion, or the freed memory still leads on.
visitFreed ==
  /\ phase = "read" /\ at \in Handlers \ inQueue
  /\ \/ phase' = "wild" /\ at' = at
     \/ phase' = phase /\ at' \in inQueue \cup {NoSession}
  /\ readRest /\ UNCHANGED <<listVars, pipe, crossed>>

----------------------------------------------------------------------------
(* The GPS thread: handleCmdInput. *)

toCheck == phase' = "check" /\ at' = firstOf(queue') /\ crossed' = FALSE

\* The loop over the sockets has come to its end, or the rest are silent.
haveRead == phase = "read" /\ at \in inQueue \cup {NoSession}

noCommand ==
  /\ haveRead
  /\ UNCHANGED <<listVars, ril, userVars, isConnected, pipe, engineVars, frameworkVars>>
  /\ toCheck

command(c) ==
  /\ haveRead /\ pipe # <<>> /\ Head(pipe) \in c
  /\ pipe' = Tail(pipe)
  /\ UNCHANGED <<listVars, ril, userVars, isConnected, frameworkVars>>

\* The first client turns the receiver on, and a framework that starts in an
\* assisted mode while there is no session starts one.
engineStart ==
  /\ command({"START_SI", "START_NI"})
  /\ clientCount' = clientCount + 1 /\ lost' = lost
  /\ IF clientCount = 0 /\ Head(pipe) = "START_SI" /\ SetInitiated /\ queue = <<>>
     THEN phase' = "initiate" /\ UNCHANGED <<at, crossed>>
     ELSE toCheck

engineStop ==
  /\ command({"STOP_SI", "STOP_NI"})
  /\ IF clientCount > 0
     THEN clientCount' = clientCount - 1 /\ lost' = lost
     ELSE clientCount' = clientCount /\ lost' = lost + 1
  /\ toCheck

\* suplStartSetInitiatedAction, after requestCellInfo: the session is inserted
\* and its state machine started.
suplStartSetInitiatedAction ==
  /\ phase = "initiate"
  /\ IF full \/ fresh = {}
     THEN UNCHANGED <<queue, session>>
     ELSE \/ /\ isConnected
             /\ \/ /\ queue' = Append(queue, allocateSM)
                   /\ session' = [session EXCEPT ![allocateSM] =
                                    [Unused EXCEPT !.state = "WAIT_RES", !.timer = TRUE]]
                \/ /\ session' = [session EXCEPT ![allocateSM] = Freed]
                   /\ queue' = queue
          \/ /\ ~isConnected
             /\ queue' = Append(queue, allocateSM)
             /\ session' = [session EXCEPT ![allocateSM] =
                              [Unused EXCEPT !.state = "NO_NETWORK", !.timer = TRUE]]
  /\ toCheck
  /\ UNCHANGED <<aborted, ril, userVars, isConnected, pipe, engineVars, frameworkVars>>

----------------------------------------------------------------------------
(* The GPS thread: suplCheckPendingActions. *)

isDue(h) == \/ session[h].state = "START"
            \/ session[h].state = "NO_NETWORK" /\ isConnected

\* Nothing is due for the sessions visited since the last step; a timer may or
\* may not have expired, and a position may or may not be there.
quietUntil(i) == \A k \in place(at)..(i - 1) : ~isDue(queue[k])

visitCheck(h) == /\ phase = "check" /\ h \in inQueue
                 /\ place(at) <= place(h) /\ quietUntil(place(h))
                 /\ at' = nextOf(h) /\ UNCHANGED crossed

\* The rest of a visit that does not ask the user.
checkRest == /\ phase' = phase
             /\ UNCHANGED <<ril, userVars, isConnected, engineVars, frameworkVars>>

\* ... and of one that does.
askRest == UNCHANGED <<ril, isConnected, engineVars, frameworkVars>>

\* The session goes on when there is a network.
connect(h) ==
  CASE ~isNi(h) -> startSiSession(h) /\ checkRest
    [] session[h].kind = "good" -> startNiSession(h) /\ askRest
    [] OTHER -> endSuplSession(h) /\ checkRest

checkStart(h) ==
  /\ visitCheck(h) /\ session[h].state = "START"
  /\ \/ session[h].kind = "bad" /\ endSuplSession(h) /\ checkRest
     \/ isConnected /\ connect(h)
     \/ ~isConnected /\ moveTo(h, "NO_NETWORK", TRUE) /\ checkRest

\* Whatever the state machine answers to a timeout, the session ends.
checkTimeout(h) ==
  /\ visitCheck(h) /\ session[h].timer
  /\ endSuplSession(h) /\ checkRest

\* sendPositionResponse: there may be nothing to send, which ends the session.
sendPositionResponse(h) == moveTo(h, "RRLP", TRUE) \/ endSuplSession(h)

checkPosition(h) ==
  /\ visitCheck(h) /\ session[h].response = "position"
  /\ sendPositionResponse(h) /\ checkRest

checkMsa(h) ==
  /\ visitCheck(h) /\ session[h].response = "msa"
  /\ sendPositionResponse(h) /\ checkRest

checkNetwork(h) ==
  /\ visitCheck(h) /\ session[h].state = "NO_NETWORK" /\ isConnected
  /\ connect(h)

\* Mutant: the answer is read without waiting for the semaphore.
suplHandleAuthorizationEarly ==
  /\ phase = "auth" /\ sem' = IF sem > 0 THEN sem - 1 ELSE 0
  /\ asking' = NoSession /\ phase' = "check" /\ at' = at
  /\ \/ m_cmd = "AUTH_GRANT" /\ moveTo(asking, "RRLP", TRUE)
     \/ endSuplSession(asking)
  /\ UNCHANGED <<crossed, ril, notified, consent, m_cmd, isConnected, engineVars,
                 frameworkVars>>

\* Mutant: the loop goes on from the session that may have ended.
suplHandleAuthorizationStale ==
  /\ phase = "auth" /\ sem > 0
  /\ sem' = sem - 1 /\ asking' = NoSession /\ phase' = "check" /\ at' = asking
  /\ \/ m_cmd = "AUTH_GRANT" /\ moveTo(asking, "RRLP", TRUE)
     \/ endSuplSession(asking)
  /\ UNCHANGED <<crossed, ril, notified, consent, m_cmd, isConnected, engineVars,
                 frameworkVars>>

\* suplHandleAuthorization, once the semaphore of startNiSession is posted.  The
\* outer suplSM has left the session alone and reports success.
suplHandleAuthorization ==
  /\ phase = "auth" /\ sem > 0
  /\ sem' = sem - 1 /\ asking' = NoSession /\ phase' = "check" /\ at' = at
  /\ \/ m_cmd = "AUTH_GRANT" /\ moveTo(asking, "RRLP", TRUE)
     \/ endSuplSession(asking)
  /\ UNCHANGED <<crossed, ril, notified, consent, m_cmd, isConnected, engineVars,
                 frameworkVars>>

checkDone ==
  /\ phase = "check" /\ quietUntil(Len(queue) + 1)
  /\ phase' = "read" /\ at' = firstOf(queue)
  /\ UNCHANGED <<crossed, listVars, ril, userVars, isConnected, pipe, engineVars,
                 frameworkVars>>

----------------------------------------------------------------------------
(* The framework, the user and the network. *)

othersRest == UNCHANGED <<listVars, ril, loopVars, engineVars>>

start ==
  /\ ~started /\ calls < MaxCalls
  /\ started' = TRUE /\ calls' = calls + 1 /\ pipe' = Append(pipe, "START_SI")
  /\ othersRest /\ UNCHANGED <<stray, userVars, isConnected>>

\* stop, and cleanup, which sends the same command started or not.
stop ==
  /\ calls < MaxCalls /\ calls' = calls + 1
  /\ started' = FALSE /\ pipe' = Append(pipe, "STOP_SI")
  /\ stray' = IF started THEN stray ELSE stray + 1
  /\ othersRest /\ UNCHANGED <<userVars, isConnected>>

\* The framework answers each notification once; no answer counts as refusal.
respond(h) ==
  /\ h \in notified /\ notified' = notified \ {h}
  /\ \E answer \in {"AUTH_GRANT", "AUTH_DENIED"} :
       m_cmd' = answer /\ consent' = [consent EXCEPT ![h] = answer]
  /\ sem' = sem + 1
  /\ othersRest /\ UNCHANGED <<asking, isConnected, pipe, frameworkVars>>

\* The framework passes the network's type and its availability together, and
\* setNetworkType, which takes a bool, makes RIL_NO_NETWORK, -1, the type 1.
updateNetwork ==
  /\ isConnected' \in BOOLEAN
  /\ othersRest /\ UNCHANGED <<userVars, pipe, frameworkVars>>

----------------------------------------------------------------------------
readSockets == visitFreed \/ \E h \in Handlers : socketClosed(h) \/ socketMessage(h)
handleCmdInput == noCommand \/ engineStart \/ engineStop \/ suplStartSetInitiatedAction
checkActions == checkDone \/ suplHandleAuthorization \/ \E h \in Handlers :
                  \/ checkStart(h) \/ checkTimeout(h) \/ checkPosition(h)
                  \/ checkMsa(h) \/ checkNetwork(h)

gpsThread == readSockets \/ handleCmdInput \/ checkActions
rilThread(r) == niCheck(r) \/ niInsert(r) \/ niStart(r)
others == \/ start \/ stop \/ updateNetwork
          \/ \E h \in Handlers : respond(h)

Next == gpsThread \/ others \/ \E r \in RilThreads : rilThread(r)

\* The loop runs at least once a second, and a timer that stays set expires.  The
\* user need not answer: CNiIf::timoutThread does nothing.
Fairness ==
  /\ WF_vars(gpsThread)
  /\ \A h \in Handlers : SF_vars(checkTimeout(h) \/ checkMsa(h))

Spec == Init /\ [][Next]_vars /\ Fairness

----------------------------------------------------------------------------
(* Properties. *)

Live == {h \in Handlers : session[h].state \in SMState}

\* The variables have the values the code can give them.
TypeOK ==
  /\ queue \in Seq(Handlers)
  /\ session \in [Handlers -> [state : SMState \cup {"unused", "freed"}, kind : Kinds,
                               timer : BOOLEAN, response : {"none", "position", "msa"}]]
  /\ ril \in [RilThreads -> {"idle", "prepared", "inserted"}]
  /\ phase \in {"read", "initiate", "check", "auth", "wild"} /\ crossed \in BOOLEAN
  /\ at \in Handlers \cup {NoSession} /\ asking \in Handlers \cup {NoSession}
  /\ notified \subseteq Handlers
  /\ consent \in [Handlers -> {"none", "AUTH_GRANT", "AUTH_DENIED"}]
  /\ m_cmd \in {"AUTH_GRANT", "AUTH_DENIED"} /\ sem \in Nat
  /\ isConnected \in BOOLEAN
  /\ pipe \in Seq({"START_SI", "STOP_SI", "START_NI", "STOP_NI"})
  /\ clientCount \in Nat
  /\ started \in BOOLEAN /\ calls \in Nat
  /\ lost \in Nat /\ stray \in Nat /\ aborted \in BOOLEAN

\* No position is worked out for a session of the network unless the user
\* allowed that very session (the answer passes from a framework thread through
\* m_cmd and sem to the GPS thread, which does not look at its notif_id).
ConsentGiven ==
  \A h \in Handlers : isNi(h) /\ session[h].state \in Connected =>
                        consent[h] = "AUTH_GRANT"

inPipe(c) == Cardinality({i \in DOMAIN pipe : pipe[i] \in c})
inserting == Cardinality({r \in RilThreads : ril[r] = "inserted"})

\* The commands in the pipe and those about to be sent bring clientCount to the
\* framework and the active sessions of the network, but for stops that found
\* it zero and stops of a framework that had not started (gps_thread.h:66).
ClientsCounted ==
  clientCount + inPipe({"START_SI", "START_NI"}) + inserting
    = inPipe({"STOP_SI", "STOP_NI"}) + (IF started THEN 1 ELSE 0)
      + Cardinality({h \in Live : isNi(h)}) + lost - stray

\* The list holds the live sessions, whichever session a message ends, and what
\* the GPS thread asks about is still in it (the assertions of freeSuplHandler
\* hold).  What it visits next is in it too, although visits end sessions and RIL
\* threads insert others, unless it reads the sockets and a message over one
\* connection has ended the session of another: then pNext, stored at
\* suplSMmanager.cpp:476, may be that session.
QueueConsistent ==
  /\ ~aborted
  /\ inQueue = Live /\ Len(queue) = Cardinality(Live)
  /\ asking \in Live \cup {NoSession}
  /\ at \notin Live \cup {NoSession} => crossed /\ phase \in {"read", "wild"}

\* The servers fall silent in the end: each of their messages may set a timer anew.
ServersSilent == <>[][~ \E h \in Handlers : socketMessage(h)]_vars

\* The GPS thread is not left waiting for the user's answer for ever.
UserAnswers == []<>(phase # "auth")

\* Every session ends, even if its server or its network is silent, once the
\* servers send no more, provided the user answers and no freed session is read.
SessionEnds ==
  ServersSilent /\ UserAnswers =>
    \A h \in Handlers : h \in Live ~> h \notin Live \/ phase = "wild"

=============================================================================
