-------------------------- MODULE SuplSessionsProofs --------------------------
(***************************************************************************)
(* Proofs about SuplSessions, for any number of sessions, RIL threads and  *)
(* calls of the framework.                                                 *)
(***************************************************************************)
EXTENDS SuplSessions, FiniteSetTheorems, SequenceTheorems, TLAPS

----------------------------------------------------------------------------
(* Consent. *)

Answers == {"AUTH_GRANT", "AUTH_DENIED"}

SessionTyped == [state : SMState \cup {"unused", "freed"}, kind : Kinds,
                 timer : BOOLEAN, response : {"none", "position", "msa"}]

\* The GPS thread waits exactly while it asks, about a session it leaves alone.
\* The notification is shown, or answered and the answer not yet taken: then
\* m_cmd is still the answer about this session.
Asked ==
  /\ (phase = "auth") <=> (asking # NoSession)
  /\ asking \in Handlers \cup {NoSession}
  /\ notified \subseteq Handlers /\ notified \subseteq {asking}
  /\ asking # NoSession => session[asking].state = "AUTH"
  /\ sem \in {0, 1}
  /\ sem = 1 => asking # NoSession /\ notified = {} /\ m_cmd = consent[asking]

\* Only a session that has been connected waits for a position.
Waiting == \A h \in Handlers : session[h].response # "none" => session[h].state = "RRLP_RESP"

ConsentInv ==
  /\ session \in [Handlers -> SessionTyped]
  /\ consent \in [Handlers -> Answers \cup {"none"}]
  /\ Asked
  /\ Waiting
  /\ ConsentGiven

\* A step that changes no session but h.
Only(h) == /\ session' \in [Handlers -> SessionTyped]
           /\ \A g \in Handlers \ {h} : session'[g] = session[g]

\* What the operations on one session do to it.
LEMMA Moves ==
  ASSUME session \in [Handlers -> SessionTyped], NEW h \in Handlers,
         NEW s \in SMState, NEW t \in BOOLEAN, moveTo(h, s, t)
  PROVE  /\ Only(h) /\ session'[h].state = s
         /\ session'[h].kind = session[h].kind /\ session'[h].response = "none"
<1> session' = [session EXCEPT ![h].state = s, ![h].timer = t, ![h].response = "none"]
  BY DEF moveTo
<1> QED
  BY DEF Only, SessionTyped

\* What waiting for a position does to the session.
LEMMA Awaits ==
  ASSUME session \in [Handlers -> SessionTyped], NEW h \in Handlers,
         NEW r \in {"position", "msa"}, NEW t \in BOOLEAN, awaitResponse(h, r, t)
  PROVE  /\ Only(h) /\ session'[h].state = "RRLP_RESP"
         /\ session'[h].kind = session[h].kind
<1>1. session' = [session EXCEPT ![h].state = "RRLP_RESP", ![h].timer = t, ![h].response = r]
  BY DEF awaitResponse
<1>2. DOMAIN session = Handlers /\ session[h] \in SessionTyped
  OBVIOUS
<1>3. LET s == [session[h] EXCEPT !.state = "RRLP_RESP", !.timer = t, !.response = r] IN
      s \in SessionTyped /\ session' = [session EXCEPT ![h] = s]
  BY <1>1, <1>2 DEF SessionTyped, SMState
<1>4. session'[h].state = "RRLP_RESP" /\ session'[h].kind = session[h].kind
  BY <1>1, <1>2 DEF SessionTyped
<1> QED
  BY <1>3, <1>4 DEF Only

\* The end of a session frees that session and no other.
LEMMA Ends ==
  ASSUME session \in [Handlers -> SessionTyped], NEW h \in Handlers, endSuplSession(h)
  PROVE  /\ Only(h) /\ session'[h].state = "freed"
         /\ session'[h].kind = "SI" /\ session'[h].response = "none"
<1>1. session' = [session EXCEPT ![h] = Freed]
  BY DEF endSuplSession
<1>2. Freed \in SessionTyped /\ Freed.state = "freed" /\ Freed.kind = "SI"
      /\ Freed.response = "none"
  BY DEF Freed, Unused, SessionTyped, Kinds
<1> QED
  BY <1>1, <1>2 DEF Only

\* A visit of one session, or the insertion of one, while nobody is asked.
LEMMA QuietVisit ==
  ASSUME ConsentInv, UNCHANGED userVars, phase # "auth", phase' # "auth",
         NEW h \in Handlers, Only(h),
         session'[h].response # "none" => session'[h].state = "RRLP_RESP",
         session'[h].kind # "SI" /\ session'[h].state \in Connected
           => consent[h] = "AUTH_GRANT"
  PROVE  ConsentInv'
<1>1. Asked'
  BY DEF ConsentInv, Asked, userVars
<1>2. Waiting'
  BY DEF ConsentInv, Waiting, Only
<1>3. ConsentGiven'
  BY DEF ConsentInv, ConsentGiven, isNi, Only, userVars
<1> QED
  BY <1>1, <1>2, <1>3 DEF ConsentInv, Only, userVars

\* A step that changes neither the sessions nor the consent.
LEMMA NoVisit ==
  ASSUME ConsentInv, UNCHANGED <<session, userVars>>,
         (phase' = "auth") <=> (phase = "auth")
  PROVE  ConsentInv'
BY DEF ConsentInv, Asked, Waiting, ConsentGiven, isNi, userVars

\* The end of a session, and its way on, while nobody is asked.
LEMMA QuietEnd ==
  ASSUME ConsentInv, UNCHANGED userVars, phase # "auth", phase' # "auth",
         NEW h \in Handlers, endSuplSession(h)
  PROVE  ConsentInv'
BY Ends, QuietVisit DEF ConsentInv, Connected

\* ... which stays in the states the user has allowed, or before them.
LEMMA QuietMove ==
  ASSUME ConsentInv, UNCHANGED userVars, phase # "auth", phase' # "auth",
         NEW h \in Handlers, NEW s \in SMState, NEW t \in BOOLEAN, moveTo(h, s, t),
         s \in Connected => ~isNi(h) \/ session[h].state \in Connected
  PROVE  ConsentInv'
<1>1. session \in [Handlers -> SessionTyped] /\ ConsentGiven
  BY DEF ConsentInv
<1> QED
  BY <1>1, Moves, QuietVisit DEF ConsentGiven, isNi

\* The GPS thread asks the user about a session.
LEMMA AskUser ==
  ASSUME ConsentInv, phase = "check", NEW h \in Handlers, startNiSession(h),
         session[h].response = "none"
  PROVE  ConsentInv'
<1>1. /\ session \in [Handlers -> SessionTyped]
      /\ session' = [session EXCEPT ![h].state = "AUTH"]
  BY DEF ConsentInv, startNiSession
<1>2. /\ Only(h) /\ session'[h].state = "AUTH" /\ session'[h].response = "none"
      /\ session'[h].kind = session[h].kind
  BY <1>1 DEF Only, SessionTyped, SMState
<1>3. Asked'
  <2>1. asking = NoSession /\ notified = {} /\ sem = 0
    BY SuplAssumption DEF ConsentInv, Asked
  <2>2. h # NoSession
    BY SuplAssumption
  <2>3. /\ phase' = "auth" /\ asking' = h /\ notified' = {h} /\ sem' = 0
    BY <2>1 DEF startNiSession
  <2> QED
    BY <1>2, <2>2, <2>3 DEF Asked
<1>4. Waiting' /\ ConsentGiven'
  BY <1>2 DEF ConsentInv, Waiting, ConsentGiven, isNi, Only, Connected, startNiSession
<1> QED
  BY <1>2, <1>3, <1>4 DEF ConsentInv, Only, startNiSession

\* A session that goes on once there is a network.
LEMMA ConnectStep ==
  ASSUME ConsentInv, phase = "check", NEW h \in Handlers, connect(h),
         session[h].state \in {"START", "NO_NETWORK"}
  PROVE  ConsentInv'
<1>1. CASE ~isNi(h) /\ startSiSession(h) /\ checkRest
  BY <1>1, QuietEnd, QuietMove DEF startSiSession, checkRest, SMState
<1>2. CASE startNiSession(h) /\ askRest
  BY <1>2, AskUser DEF ConsentInv, Waiting, SessionTyped
<1>3. CASE endSuplSession(h) /\ checkRest
  BY <1>3, QuietEnd DEF checkRest
<1> QED
  BY <1>1, <1>2, <1>3 DEF connect

\* A session put into a handler that was not used.
LEMMA Inserted ==
  ASSUME session \in [Handlers -> SessionTyped], fresh # {}, NEW v \in SessionTyped,
         session' = [session EXCEPT ![allocateSM] = v]
  PROVE  /\ allocateSM \in Handlers /\ session[allocateSM].state = "unused"
         /\ Only(allocateSM) /\ session'[allocateSM] = v
<1>1. allocateSM \in fresh
  BY DEF allocateSM
<1> QED
  BY <1>1 DEF fresh, Only

\* What a message does to the session it names: one that is not connected yet is
\* left alone or ends.
LEMMA MessageHandled ==
  ASSUME NEW g \in Handlers, NEW m \in Messages, onMessage(g, m)
  PROVE  \/ moveTo(g, "RRLP", TRUE) /\ session[g].state \in Connected
         \/ /\ \E r \in {"position", "msa"}, t \in BOOLEAN : awaitResponse(g, r, t)
            /\ session[g].state \in Connected
         \/ endSuplSession(g)
         \/ UNCHANGED <<listVars, pipe>>
<1>1. \/ moveTo(g, "RRLP", TRUE) /\ session[g].state \in Connected
      \/ awaitResponse(g, "position", TRUE) /\ session[g].state \in Connected
      \/ awaitResponse(g, "msa", FALSE) /\ session[g].state \in Connected
      \/ endSuplSession(g)
      \/ UNCHANGED <<listVars, pipe>>
  BY DEF onMessage, Connected
<1> QED
  BY <1>1

\* The invariant holds before any session.
LEMMA ConsentInit == Init => ConsentInv
<1> SUFFICES ASSUME Init PROVE ConsentInv
  OBVIOUS
<1>1. Unused \in SessionTyped /\ Unused.state = "unused" /\ Unused.response = "none"
      /\ Unused.kind = "SI"
  BY DEF Unused, SessionTyped, Kinds
<1> QED
  BY <1>1 DEF Init, ConsentInv, Asked, Waiting, ConsentGiven, isNi, Answers

\* ... and every step preserves it.
LEMMA ConsentNext ==
  ASSUME ConsentInv, [Next]_vars
  PROVE  ConsentInv'
<1> USE DEF ConsentInv
<1>1. ASSUME NEW r \in RilThreads, rilThread(r)
      PROVE  ConsentInv'
  <2>1. CASE niCheck(r) \/ niStart(r)
    BY <2>1, NoVisit DEF niCheck, niStart, listVars, loopVars
  <2>2. CASE niInsert(r) /\ UNCHANGED session
    BY <2>2, NoVisit DEF niInsert, loopVars
  <2>3. CASE niInsert(r) /\ session' # session
    <3>1. PICK k \in Requests : /\ ~full /\ fresh # {} /\ UNCHANGED <<phase, userVars>>
            /\ session' = [session EXCEPT ![allocateSM] =
                             [Unused EXCEPT !.state = "START", !.kind = k]]
      BY <2>3 DEF niInsert, loopVars
    <3>2. /\ [Unused EXCEPT !.state = "START", !.kind = k] \in SessionTyped
          /\ [Unused EXCEPT !.state = "START", !.kind = k].state = "START"
          /\ [Unused EXCEPT !.state = "START", !.kind = k].response = "none"
      BY DEF Unused, SessionTyped, SMState, Kinds
    <3>3. /\ allocateSM \in Handlers /\ session[allocateSM].state = "unused"
          /\ Only(allocateSM) /\ session'[allocateSM].state = "START"
          /\ session'[allocateSM].response = "none"
      BY <3>1, <3>2, Inserted
    <3>4. Asked'
      BY <3>1, <3>3 DEF Asked, Only, userVars
    <3>5. Waiting' /\ ConsentGiven'
      BY <3>1, <3>3 DEF Waiting, ConsentGiven, isNi, Only, Connected, userVars
    <3> QED
      BY <3>1, <3>3, <3>4, <3>5 DEF Only, userVars
  <2> QED
    BY <1>1, <2>1, <2>2, <2>3 DEF rilThread
<1>2. ASSUME readSockets PROVE ConsentInv'
  <2>1. ASSUME NEW h \in Handlers, socketClosed(h) PROVE ConsentInv'
    <3>1. phase # "auth" /\ phase' # "auth" /\ UNCHANGED userVars
      BY <2>1 DEF socketClosed, visitRead, readRest
    <3> QED
      BY <2>1, <3>1, QuietEnd DEF socketClosed
  <2>2. ASSUME NEW h \in Handlers, NEW g \in Handlers, messageFor(h, g) PROVE ConsentInv'
    <3>0. phase # "auth" /\ phase' # "auth" /\ UNCHANGED userVars
      BY <2>2 DEF messageFor, visitRead, readRest
    <3>1. PICK m \in Messages : onMessage(g, m)
      BY <2>2 DEF messageFor
    <3>2. CASE moveTo(g, "RRLP", TRUE) /\ session[g].state \in Connected
      BY <3>0, <3>2, QuietMove DEF SMState
    <3>3. CASE /\ \E r \in {"position", "msa"}, t \in BOOLEAN : awaitResponse(g, r, t)
               /\ session[g].state \in Connected
      BY <3>0, <3>3, Awaits, QuietVisit DEF ConsentGiven, isNi
    <3>4. CASE endSuplSession(g)
      BY <3>0, <3>4, QuietEnd
    <3>5. CASE UNCHANGED <<listVars, pipe>>
      BY <3>0, <3>5, NoVisit DEF listVars
    <3> QED
      BY <3>1, <3>2, <3>3, <3>4, <3>5, MessageHandled
  <2>3. CASE visitFreed
    BY <2>3, NoVisit DEF visitFreed, readRest, listVars
  <2> QED
    BY <1>2, <2>1, <2>2, <2>3 DEF readSockets, socketMessage
<1>3. ASSUME handleCmdInput PROVE ConsentInv'
  <2>1. CASE noCommand \/ engineStart \/ engineStop
    BY <2>1, NoVisit DEF noCommand, engineStart, engineStop, command, haveRead,
                          toCheck, listVars
  <2>2. CASE suplStartSetInitiatedAction /\ UNCHANGED session
    BY <2>2, NoVisit DEF suplStartSetInitiatedAction, toCheck
  <2>3. CASE suplStartSetInitiatedAction /\ session' # session
    <3>1. PICK v \in {[Unused EXCEPT !.state = "WAIT_RES", !.timer = TRUE], Freed,
                      [Unused EXCEPT !.state = "NO_NETWORK", !.timer = TRUE]} :
            fresh # {} /\ session' = [session EXCEPT ![allocateSM] = v]
      BY <2>3 DEF suplStartSetInitiatedAction
    <3>2. v \in SessionTyped /\ v.kind = "SI" /\ v.response = "none"
      BY <3>1 DEF Unused, Freed, SessionTyped, SMState, Kinds
    <3>3. /\ allocateSM \in Handlers /\ Only(allocateSM)
          /\ session'[allocateSM].kind = "SI" /\ session'[allocateSM].response = "none"
      BY <3>1, <3>2, Inserted
    <3>4. phase # "auth" /\ phase' # "auth" /\ UNCHANGED userVars
      BY <2>3 DEF suplStartSetInitiatedAction, toCheck
    <3> QED
      BY <3>3, <3>4, QuietVisit
  <2> QED
    BY <1>3, <2>1, <2>2, <2>3 DEF handleCmdInput
<1>4. ASSUME NEW h \in Handlers,
             \/ checkStart(h) \/ checkTimeout(h) \/ checkPosition(h)
             \/ checkMsa(h) \/ checkNetwork(h)
      PROVE  ConsentInv'
  <2>1. phase = "check"
    BY <1>4 DEF checkStart, checkTimeout, checkPosition, checkMsa, checkNetwork, visitCheck
  <2>2. CASE connect(h) /\ session[h].state \in {"START", "NO_NETWORK"}
    BY <2>1, <2>2, ConnectStep
  <2>3. CASE endSuplSession(h) /\ checkRest
    BY <2>1, <2>3, QuietEnd DEF checkRest
  <2>4. CASE moveTo(h, "NO_NETWORK", TRUE) /\ checkRest
    BY <2>1, <2>4, QuietMove DEF checkRest, SMState, Connected
  <2>5. CASE moveTo(h, "RRLP", TRUE) /\ checkRest /\ session[h].response # "none"
    BY <2>1, <2>5, QuietMove DEF checkRest, SMState, Connected, Waiting
  <2> QED
    BY <1>4, <2>2, <2>3, <2>4, <2>5
    DEF checkStart, checkTimeout, checkPosition, checkMsa, checkNetwork, sendPositionResponse
<1>5. CASE suplHandleAuthorization
  <2>1. /\ asking \in Handlers /\ sem = 1 /\ sem' = 0 /\ notified = {}
        /\ m_cmd = consent[asking] /\ asking' = NoSession /\ phase' = "check"
        /\ UNCHANGED <<notified, consent, m_cmd>>
    BY <1>5 DEF suplHandleAuthorization, Asked
  <2>2. \/ m_cmd = "AUTH_GRANT" /\ moveTo(asking, "RRLP", TRUE)
        \/ endSuplSession(asking)
    BY <1>5 DEF suplHandleAuthorization
  <2>3. /\ Only(asking) /\ session'[asking].response = "none"
        /\ session'[asking].kind = "SI" \/ consent[asking] = "AUTH_GRANT"
    BY <2>1, <2>2, Moves, Ends DEF SMState
  <2>4. Asked'
    BY <2>1 DEF Asked
  <2>5. Waiting' /\ ConsentGiven'
    BY <2>1, <2>3 DEF Waiting, ConsentGiven, isNi, Only
  <2> QED
    BY <2>1, <2>3, <2>4, <2>5 DEF Only
<1>6. CASE checkDone
  BY <1>6, NoVisit DEF checkDone, listVars
<1>7. ASSUME others PROVE ConsentInv'
  <2>1. CASE start \/ stop
    BY <2>1, NoVisit DEF start, stop, othersRest, listVars, loopVars
  <2>2. CASE updateNetwork
    BY <2>2, NoVisit DEF updateNetwork, othersRest, listVars, loopVars
  <2>3. ASSUME NEW h \in Handlers, respond(h) PROVE ConsentInv'
    <3>1. /\ asking = h /\ notified = {h} /\ notified' = {}
          /\ sem = 0 /\ sem' = 1 /\ UNCHANGED <<session, phase, asking>>
      BY <2>3 DEF respond, Asked, othersRest, listVars, loopVars
    <3>2. PICK answer \in Answers :
            m_cmd' = answer /\ consent' = [consent EXCEPT ![h] = answer]
      BY <2>3 DEF respond, Answers
    <3>3. consent'[h] = answer /\ \A g \in Handlers \ {h} : consent'[g] = consent[g]
      BY <3>2
    <3>4. Asked'
      BY <3>1, <3>2, <3>3, SuplAssumption DEF Asked
    <3>5. Waiting' /\ ConsentGiven'
      BY <3>1, <3>3, SuplAssumption DEF Waiting, ConsentGiven, isNi, Connected, Asked
    <3> QED
      BY <3>1, <3>2, <3>4, <3>5
  <2> QED
    BY <1>7, <2>1, <2>2, <2>3 DEF others
<1>8. CASE UNCHANGED vars
  BY <1>8, NoVisit DEF vars, listVars, loopVars
<1> QED
  BY <1>1, <1>2, <1>3, <1>4, <1>5, <1>6, <1>7, <1>8 DEF Next, gpsThread, checkActions

\* A session of the network works out a position only if the user allowed that
\* session: the answer in m_cmd is the one to the notification the GPS thread
\* waits for, as there is one notification at a time and one answer to each.
THEOREM OnlyWithConsent == Spec => []ConsentGiven
<1>1. ConsentInv => ConsentGiven
  BY DEF ConsentInv
<1> QED
  BY <1>1, ConsentInit, ConsentNext, PTL DEF Spec

----------------------------------------------------------------------------
(* The list of sessions. *)

Distinct == \A i, j \in DOMAIN queue : queue[i] = queue[j] => i = j

\* The GPS thread goes on with a session in the list, unless it reads the sockets
\* and a message has ended the session it goes on with.
AtListed ==
  /\ at \in Handlers \cup {NoSession}
  /\ at \notin Live \cup {NoSession} => crossed /\ phase \in {"read", "wild"}

\* The list has each live session once, and a session being asked about is not
\* the one the GPS thread goes on with.
ListInv ==
  /\ queue \in Seq(Handlers)
  /\ Distinct
  /\ inQueue = Live
  /\ AtListed
  /\ asking # NoSession => at # asking
  /\ aborted = FALSE

\* A session is at its place, and another one, or none, comes next.
LEMMA PlaceNext ==
  ASSUME queue \in Seq(Handlers), Distinct, NEW h \in inQueue
  PROVE  /\ place(h) \in 1..Len(queue) /\ queue[place(h)] = h
         /\ nextOf(h) \in (inQueue \ {h}) \cup {NoSession}
<1>1. DOMAIN queue = 1..Len(queue) /\ Len(queue) \in Nat
  BY LenProperties
<1>2. \E i \in DOMAIN queue : queue[i] = h
  BY DEF inQueue
<1>3. place(h) \in DOMAIN queue /\ queue[place(h)] = h
  BY <1>2 DEF place
<1>4. CASE place(h) < Len(queue)
  <2>1. place(h) + 1 \in DOMAIN queue /\ place(h) + 1 # place(h)
    BY <1>1, <1>3, <1>4
  <2>2. queue[place(h) + 1] # h
    BY <1>3, <2>1 DEF Distinct
  <2> QED
    BY <1>1, <1>3, <1>4, <2>1, <2>2 DEF nextOf, inQueue
<1> QED
  BY <1>1, <1>3, <1>4 DEF nextOf

\* Taking a session out of the list leaves the others, in their order.
LEMMA Unlinking ==
  ASSUME queue \in Seq(Handlers), Distinct, NEW h \in inQueue, queue' = unlinked(h)
  PROVE  /\ queue' \in Seq(Handlers) /\ Distinct'
         /\ inQueue' = inQueue \ {h}
<1> DEFINE p == place(h)
           n == Len(queue)
           a == SubSeq(queue, 1, p - 1)
           b == SubSeq(queue, p + 1, n)
<1>1. p \in 1..n /\ queue[p] = h /\ n \in Nat /\ DOMAIN queue = 1..n
      /\ \A i \in 1..n : queue[i] \in Handlers
  BY PlaceNext, LenProperties, ElementOfSeq
<1>2. a \in Seq(Handlers) /\ Len(a) = p - 1 /\ \A i \in 1..(p - 1) : a[i] = queue[i]
  <2>1. \A i \in 1..(p - 1) : queue[i] \in Handlers
    BY <1>1
  <2>2. /\ a \in Seq(Handlers) /\ Len(a) = (IF 1 <= p - 1 THEN p - 1 - 1 + 1 ELSE 0)
        /\ \A i \in 1..(p - 1 - 1 + 1) : a[i] = queue[1 + i - 1]
    <3> HIDE DEF p
    <3>1. p - 1 \in Int
      BY <1>1
    <3> QED
      BY <2>1, <3>1, SubSeqProperties
  <2> HIDE DEF p, a
  <2>3. p \in Nat /\ p >= 1
    BY <1>1
  <2>4. p - 1 - 1 + 1 = p - 1 /\ (IF 1 <= p - 1 THEN p - 1 - 1 + 1 ELSE 0) = p - 1
    BY <2>3
  <2>5. \A i \in 1..(p - 1) : 1 + i - 1 = i
    BY <2>3
  <2> QED
    BY <2>2, <2>4, <2>5
<1>3. b \in Seq(Handlers) /\ Len(b) = n - p /\ \A i \in 1..(n - p) : b[i] = queue[p + i]
  <2>1. \A i \in (p + 1)..n : queue[i] \in Handlers
    BY <1>1
  <2>2. /\ b \in Seq(Handlers) /\ Len(b) = (IF p + 1 <= n THEN n - (p + 1) + 1 ELSE 0)
        /\ \A i \in 1..(n - (p + 1) + 1) : b[i] = queue[p + 1 + i - 1]
    <3> HIDE DEF p, n
    <3>1. p + 1 \in Int /\ n \in Int
      BY <1>1
    <3> QED
      BY <2>1, <3>1, SubSeqProperties
  <2> HIDE DEF p, n, b
  <2>3. p \in Nat /\ n \in Nat /\ p <= n
    BY <1>1
  <2>4. n - (p + 1) + 1 = n - p /\ (IF p + 1 <= n THEN n - (p + 1) + 1 ELSE 0) = n - p
    BY <2>3
  <2>5. \A i \in 1..(n - p) : p + 1 + i - 1 = p + i
    BY <2>3
  <2> QED
    BY <2>2, <2>4, <2>5
<1>4. queue' = a \o b
  BY DEF unlinked
<1> HIDE DEF p, n, a, b
<1>5. /\ queue' \in Seq(Handlers) /\ Len(queue') = n - 1
      /\ \A i \in 1..(n - 1) : queue'[i] = IF i <= p - 1 THEN a[i] ELSE b[i - (p - 1)]
  <2>1. /\ a \o b \in Seq(Handlers) /\ Len(a \o b) = Len(a) + Len(b)
        /\ \A i \in 1..(Len(a) + Len(b)) :
             (a \o b)[i] = IF i <= Len(a) THEN a[i] ELSE b[i - Len(a)]
    BY <1>2, <1>3, ConcatProperties
  <2>2. Len(a) + Len(b) = n - 1
    BY <1>1, <1>2, <1>3
  <2> QED
    BY <1>2, <1>4, <2>1, <2>2
<1>6. DOMAIN queue' = 1..(n - 1)
  BY <1>5, LenProperties
<1>7. \A i \in 1..(n - 1) : queue'[i] = IF i < p THEN queue[i] ELSE queue[i + 1]
  <2> SUFFICES ASSUME NEW i \in 1..(n - 1)
               PROVE  queue'[i] = IF i < p THEN queue[i] ELSE queue[i + 1]
    OBVIOUS
  <2>1. CASE i < p
    BY <1>1, <1>2, <1>5, <2>1
  <2>2. CASE ~(i < p)
    <3>1. i - (p - 1) \in 1..(n - p) /\ p + (i - (p - 1)) = i + 1
      BY <1>1, <2>2
    <3> QED
      BY <1>1, <1>3, <1>5, <2>2, <3>1
  <2> QED
    BY <2>1, <2>2
<1>8. Distinct'
  <2> SUFFICES ASSUME NEW i \in 1..(n - 1), NEW j \in 1..(n - 1), queue'[i] = queue'[j]
               PROVE  i = j
    BY <1>6 DEF Distinct
  <2> QED
    BY <1>1, <1>7 DEF Distinct
<1>9. inQueue' \subseteq inQueue \ {h}
  <2> SUFFICES ASSUME NEW i \in 1..(n - 1)
               PROVE  queue'[i] \in inQueue \ {h}
    BY <1>6 DEF inQueue
  <2> DEFINE k == IF i < p THEN i ELSE i + 1
  <2>1. k \in 1..n /\ k # p /\ queue'[i] = queue[k]
    BY <1>1, <1>7
  <2> QED
    BY <1>1, <2>1 DEF Distinct, inQueue
<1>10. inQueue \ {h} \subseteq inQueue'
  <2> SUFFICES ASSUME NEW k \in 1..n, k # p
               PROVE  queue[k] \in inQueue'
    BY <1>1 DEF inQueue
  <2> DEFINE i == IF k < p THEN k ELSE k - 1
  <2>1. i \in 1..(n - 1) /\ queue'[i] = queue[k]
    BY <1>1, <1>7
  <2> QED
    BY <1>6, <2>1 DEF inQueue
<1> QED
  BY <1>5, <1>8, <1>9, <1>10

\* A session put at the end is listed once, and comes after all others.
LEMMA Appending ==
  ASSUME queue \in Seq(Handlers), Distinct, NEW h \in Handlers, h \notin inQueue,
         queue' = Append(queue, h)
  PROVE  /\ queue' \in Seq(Handlers) /\ Distinct'
         /\ inQueue' = inQueue \cup {h}
<1>1. Len(queue) \in Nat /\ DOMAIN queue = 1..Len(queue)
  BY LenProperties
<1>2. /\ queue' \in Seq(Handlers) /\ Len(queue') = Len(queue) + 1
      /\ \A i \in 1..Len(queue) : queue'[i] = queue[i]
      /\ queue'[Len(queue) + 1] = h
  BY <1>1, AppendProperties
<1>3. DOMAIN queue' = 1..(Len(queue) + 1)
  BY <1>1, <1>2, LenProperties
<1>4. \A i \in 1..Len(queue) : queue[i] # h
  BY <1>1 DEF inQueue
<1>5. Distinct'
  <2> SUFFICES ASSUME NEW i \in 1..(Len(queue) + 1), NEW j \in 1..(Len(queue) + 1),
                      queue'[i] = queue'[j]
               PROVE  i = j
    BY <1>3 DEF Distinct
  <2>1. CASE i = Len(queue) + 1 \/ j = Len(queue) + 1
    BY <1>1, <1>2, <1>4, <2>1
  <2>2. CASE i \in 1..Len(queue) /\ j \in 1..Len(queue)
    BY <1>1, <1>2, <2>2 DEF Distinct
  <2> QED
    BY <1>1, <2>1, <2>2
<1>6. inQueue' = inQueue \cup {h}
  <2>1. inQueue' \subseteq inQueue \cup {h}
    <3> SUFFICES ASSUME NEW i \in 1..(Len(queue) + 1) PROVE queue'[i] \in inQueue \cup {h}
      BY <1>3 DEF inQueue
    <3> QED
      BY <1>1, <1>2 DEF inQueue
  <2>2. inQueue \cup {h} \subseteq inQueue'
    <3>1. h \in inQueue'
      BY <1>1, <1>2, <1>3 DEF inQueue
    <3>2. ASSUME NEW i \in 1..Len(queue) PROVE queue[i] \in inQueue'
      <4>1. i \in 1..(Len(queue) + 1)
        BY <1>1
      <4> QED
        BY <1>2, <1>3, <4>1 DEF inQueue
    <3> QED
      BY <1>1, <3>1, <3>2 DEF inQueue
  <2> QED
    BY <2>1, <2>2
<1> QED
  BY <1>2, <1>5, <1>6

\* The first of a list is in it, unless the list is empty.
LEMMA FirstListed ==
  ASSUME NEW q \in Seq(Handlers)
  PROVE  firstOf(q) \in {q[i] : i \in DOMAIN q} \cup {NoSession}
<1>1. CASE q = <<>>
  BY <1>1 DEF firstOf
<1>2. CASE q # <<>>
  <2>1. Len(q) \in Nat \ {0} /\ DOMAIN q = 1..Len(q) /\ Head(q) = q[1]
    BY <1>2, EmptySeq, LenProperties
  <2> QED
    BY <1>2, <2>1 DEF firstOf
<1> QED
  BY <1>1, <1>2

\* A live session that is moved stays live, one that ends leaves the list.
LEMMA MovesStayLive ==
  ASSUME session \in [Handlers -> SessionTyped], NEW h \in Live,
         Only(h), session'[h].state \in SMState
  PROVE  Live' = Live
BY DEF Live, Only

\* The session that ends is the only one to leave the list.
LEMMA EndsUnlinks ==
  ASSUME session \in [Handlers -> SessionTyped], ListInv, NEW h \in Live, endSuplSession(h)
  PROVE  /\ queue' \in Seq(Handlers) /\ Distinct' /\ inQueue' = Live'
         /\ Live' = Live \ {h} /\ aborted' = FALSE
<1>1. h \in Handlers /\ h \in inQueue
  BY DEF ListInv, Live
<1>2. Only(h) /\ session'[h].state = "freed"
  BY <1>1, Ends
<1>3. Live' = Live \ {h}
  BY <1>2 DEF Live, Only, SMState
<1>4. queue' = unlinked(h) /\ aborted' = FALSE
  BY <1>1 DEF endSuplSession, ListInv
<1> QED
  BY <1>1, <1>3, <1>4, Unlinking DEF ListInv

\* The GPS thread goes from one session to the next; the session a message names,
\* or the one visited, goes on, is asked about or ends.
LEMMA MessageList ==
  ASSUME session \in [Handlers -> SessionTyped], ListInv, NEW h \in Live, NEW g \in Live,
         at' = nextOf(h), asking = NoSession,
         \/ /\ UNCHANGED <<queue, aborted>> /\ Only(g) /\ session'[g].state \in SMState
            /\ asking' \in {NoSession, h}
         \/ /\ endSuplSession(g) /\ asking' = NoSession
            /\ g = h \/ (crossed' /\ phase' = "read")
  PROVE  ListInv'
<1>1. nextOf(h) \in (Live \ {h}) \cup {NoSession} /\ h # NoSession
  BY PlaceNext, SuplAssumption DEF ListInv, Live
<1>2. CASE /\ endSuplSession(g) /\ asking' = NoSession
           /\ g = h \/ (crossed' /\ phase' = "read")
  <2>1. /\ queue' \in Seq(Handlers) /\ Distinct' /\ inQueue' = Live'
        /\ Live' = Live \ {g} /\ aborted' = FALSE
    BY <1>2, EndsUnlinks
  <2>2. AtListed'
    BY <1>1, <1>2, <2>1 DEF AtListed, Live
  <2> QED
    BY <1>2, <2>1, <2>2 DEF ListInv
<1>3. CASE /\ UNCHANGED <<queue, aborted>> /\ Only(g) /\ session'[g].state \in SMState
           /\ asking' \in {NoSession, h}
  <2>1. Live' = Live
    BY <1>3, MovesStayLive
  <2>2. AtListed'
    BY <1>1, <2>1 DEF AtListed, Live
  <2>3. inQueue' = inQueue /\ Distinct' /\ queue' = queue /\ aborted' = aborted
    BY <1>3 DEF ListInv, Distinct, inQueue
  <2> QED
    BY <1>1, <1>3, <2>1, <2>2, <2>3 DEF ListInv
<1> QED
  BY <1>2, <1>3

\* A visit of one session.
LEMMA VisitList ==
  ASSUME session \in [Handlers -> SessionTyped], ListInv, NEW h \in Live,
         at' = nextOf(h), asking = NoSession,
         \/ /\ UNCHANGED <<queue, aborted>> /\ Only(h) /\ session'[h].state \in SMState
            /\ asking' \in {NoSession, h}
         \/ endSuplSession(h) /\ asking' = NoSession
  PROVE  ListInv'
BY MessageList

\* Steps that leave the GPS thread where it is, or take it to the first session.
LEMMA SameList ==
  ASSUME ListInv, UNCHANGED <<queue, session, aborted>>,
         \/ at' = at /\ asking' = asking /\ at \in Live \cup {NoSession}
         \/ at' = at /\ asking' = asking /\ UNCHANGED <<phase, crossed>>
         \/ at' = firstOf(queue) /\ asking' = NoSession
  PROVE  ListInv'
<1>0. queue' = queue /\ session' = session
  OBVIOUS
<1>1. Live' = Live /\ inQueue' = inQueue
  <2>1. Live' = Live
    BY <1>0 DEF Live
  <2>2. inQueue' = inQueue
    BY <1>0 DEF inQueue
  <2> QED
    BY <2>1, <2>2
<1>2. firstOf(queue) \in Live \cup {NoSession}
  BY FirstListed DEF ListInv, inQueue
<1>3. AtListed'
  BY <1>1, <1>2 DEF ListInv, AtListed, Live
<1> QED
  BY <1>1, <1>2, <1>3 DEF ListInv, Distinct

\* A new session is appended.
LEMMA NewListed ==
  ASSUME session \in [Handlers -> SessionTyped], ListInv, fresh # {},
         NEW v \in SessionTyped, v.state \in SMState,
         session' = [session EXCEPT ![allocateSM] = v],
         queue' = Append(queue, allocateSM)
  PROVE  /\ queue' \in Seq(Handlers) /\ Distinct' /\ inQueue' = Live'
         /\ Live \subseteq Live' /\ Live' \subseteq Handlers
<1>1. /\ allocateSM \in Handlers /\ session[allocateSM].state = "unused"
      /\ Only(allocateSM) /\ session'[allocateSM] = v
  BY Inserted
<1>2. allocateSM \notin Live /\ Live' = Live \cup {allocateSM}
  BY <1>1 DEF Live, Only, SMState
<1> QED
  BY <1>1, <1>2, Appending DEF ListInv, Live

\* What a visit that neither asks nor ends does to the session.
LEMMA MovedOn ==
  ASSUME session \in [Handlers -> SessionTyped], NEW h \in Handlers,
         \/ \E s \in SMState, t \in BOOLEAN : moveTo(h, s, t)
         \/ \E r \in {"position", "msa"}, t \in BOOLEAN : awaitResponse(h, r, t)
  PROVE  UNCHANGED <<queue, aborted>> /\ Only(h) /\ session'[h].state \in SMState
<1>1. ASSUME NEW s \in SMState, NEW t \in BOOLEAN, moveTo(h, s, t)
      PROVE  UNCHANGED <<queue, aborted>> /\ Only(h) /\ session'[h].state \in SMState
  <2>1. UNCHANGED <<queue, aborted>>
    BY <1>1 DEF moveTo
  <2> QED
    BY <1>1, <2>1, Moves
<1>2. ASSUME NEW r \in {"position", "msa"}, NEW t \in BOOLEAN, awaitResponse(h, r, t)
      PROVE  UNCHANGED <<queue, aborted>> /\ Only(h) /\ session'[h].state \in SMState
  <2>1. UNCHANGED <<queue, aborted>>
    BY <1>2 DEF awaitResponse
  <2> QED
    BY <1>2, <2>1, Awaits DEF SMState
<1> QED
  BY <1>1, <1>2

\* Every step keeps the list.
LEMMA ListNext ==
  ASSUME ConsentInv, ListInv, [Next]_vars
  PROVE  ListInv'
<1> USE DEF ConsentInv
<1>1. ASSUME NEW r \in RilThreads, rilThread(r)
      PROVE  ListInv'
  <2>1. CASE niCheck(r) \/ niStart(r)
    BY <2>1, SameList DEF niCheck, niStart, listVars, loopVars, userVars
  <2>2. CASE niInsert(r) /\ UNCHANGED <<queue, session>>
    BY <2>2, SameList DEF niInsert, loopVars, userVars
  <2>3. CASE niInsert(r) /\ ~UNCHANGED <<queue, session>>
    <3>1. PICK k \in Requests : /\ ~full /\ fresh # {}
            /\ UNCHANGED <<phase, at, crossed, asking, aborted>>
            /\ queue' = Append(queue, allocateSM)
            /\ session' = [session EXCEPT ![allocateSM] =
                             [Unused EXCEPT !.state = "START", !.kind = k]]
      BY <2>3 DEF niInsert, loopVars, userVars
    <3>2. /\ [Unused EXCEPT !.state = "START", !.kind = k] \in SessionTyped
          /\ [Unused EXCEPT !.state = "START", !.kind = k].state \in SMState
      BY DEF Unused, SessionTyped, SMState, Kinds
    <3> QED
      BY <3>1, <3>2, NewListed DEF ListInv, AtListed
  <2> QED
    BY <1>1, <2>1, <2>2, <2>3 DEF rilThread
<1>2. ASSUME readSockets PROVE ListInv'
  <2>1. phase = "read" /\ asking = NoSession /\ asking' = NoSession
    BY <1>2 DEF readSockets, socketClosed, socketMessage, messageFor, visitFreed, visitRead,
                readRest, userVars, Asked
  <2>2. ASSUME NEW h \in Handlers, socketClosed(h) PROVE ListInv'
    <3>1. h \in Live /\ at' = nextOf(h) /\ endSuplSession(h)
      BY <2>2 DEF socketClosed, visitRead, ListInv
    <3> QED
      BY <2>1, <3>1, VisitList
  <2>3. ASSUME NEW h \in Handlers, NEW g \in Handlers, messageFor(h, g) PROVE ListInv'
    <3>1. h \in Live /\ g \in Live /\ at' = nextOf(h) /\ phase' = "read"
      BY <2>3 DEF messageFor, visitRead, ListInv
    <3>2. CASE endSuplSession(g)
      <4>1. session'[g].state = "freed"
        BY <3>2, Ends
      <4>2. crossed' = (crossed \/ (g # h /\ session'[g].state = "freed"))
        BY <2>3 DEF messageFor
      <4>3. g = h \/ crossed'
        BY <4>1, <4>2
      <4> QED
        BY <2>1, <3>1, <3>2, <4>3, MessageList
    <3>3. CASE \/ \E s \in SMState, t \in BOOLEAN : moveTo(g, s, t)
               \/ \E r \in {"position", "msa"}, t \in BOOLEAN : awaitResponse(g, r, t)
      BY <2>1, <3>1, <3>3, MovedOn, MessageList
    <3>4. CASE UNCHANGED <<listVars, pipe>>
      <4>1. Only(g) /\ session'[g].state \in SMState /\ UNCHANGED <<queue, aborted>>
        BY <3>1, <3>4 DEF listVars, Only, Live
      <4> QED
        BY <2>1, <3>1, <4>1, MessageList
    <3>5. PICK m \in Messages : onMessage(g, m)
      BY <2>3 DEF messageFor
    <3> QED
      BY <3>2, <3>3, <3>4, <3>5, MessageHandled DEF SMState
  <2>4. CASE visitFreed
    <3>1. /\ UNCHANGED <<queue, session, aborted, crossed>>
          /\ (at' = at /\ phase' = "wild") \/ at' \in inQueue \cup {NoSession}
      BY <2>4 DEF visitFreed, listVars
    <3>2. Live' = Live /\ inQueue' = inQueue /\ Distinct'
      BY <3>1 DEF Live, inQueue, Distinct, ListInv
    <3>3. AtListed'
      BY <3>1, <3>2 DEF ListInv, AtListed, Live
    <3> QED
      BY <2>1, <3>1, <3>2, <3>3 DEF ListInv
  <2> QED
    BY <1>2, <2>2, <2>3, <2>4 DEF readSockets, socketMessage
<1>3. ASSUME handleCmdInput PROVE ListInv'
  <2>1. CASE noCommand \/ engineStart \/ engineStop
    BY <2>1, SameList
    DEF noCommand, engineStart, engineStop, command, haveRead, toCheck, listVars, userVars,
        Asked, ListInv
  <2>2. CASE suplStartSetInitiatedAction
    <3>1. /\ asking = NoSession /\ asking' = NoSession /\ aborted' = FALSE
          /\ at' = firstOf(queue')
      BY <2>2 DEF suplStartSetInitiatedAction, toCheck, userVars, Asked, ListInv
    <3>2. queue' \in Seq(Handlers) /\ Distinct' /\ inQueue' = Live'
      <4>1. CASE UNCHANGED <<queue, session>>
        BY <4>1 DEF ListInv, Distinct, inQueue, Live
      <4>2. CASE /\ fresh # {} /\ queue' = queue
                 /\ session' = [session EXCEPT ![allocateSM] = Freed]
        <5>1. Freed \in SessionTyped /\ Freed.state = "freed"
          BY DEF Freed, Unused, SessionTyped, Kinds
        <5>2. /\ allocateSM \in Handlers /\ session[allocateSM].state = "unused"
              /\ Only(allocateSM) /\ session'[allocateSM] = Freed
          BY <4>2, <5>1, Inserted
        <5>3. Live' = Live
          BY <5>1, <5>2 DEF Live, Only, SMState
        <5> QED
          BY <4>2, <5>3 DEF ListInv, Distinct, inQueue
      <4>3. ASSUME NEW v \in {[Unused EXCEPT !.state = "WAIT_RES", !.timer = TRUE],
                              [Unused EXCEPT !.state = "NO_NETWORK", !.timer = TRUE]},
                   fresh # {}, queue' = Append(queue, allocateSM),
                   session' = [session EXCEPT ![allocateSM] = v]
            PROVE  queue' \in Seq(Handlers) /\ Distinct' /\ inQueue' = Live'
        <5>1. v \in SessionTyped /\ v.state \in SMState
          BY <4>3 DEF Unused, SessionTyped, SMState, Kinds
        <5> QED
          BY <4>3, <5>1, NewListed
      <4> QED
        BY <2>2, <4>1, <4>2, <4>3 DEF suplStartSetInitiatedAction
    <3>3. firstOf(queue') \in inQueue' \cup {NoSession}
      BY <3>2, FirstListed DEF inQueue
    <3>4. AtListed'
      BY <3>1, <3>2, <3>3 DEF AtListed, Live
    <3> QED
      BY <3>1, <3>2, <3>4 DEF ListInv
  <2> QED
    BY <1>3, <2>1, <2>2 DEF handleCmdInput
<1>4. ASSUME NEW h \in Handlers,
             \/ checkStart(h) \/ checkTimeout(h) \/ checkPosition(h)
             \/ checkMsa(h) \/ checkNetwork(h)
      PROVE  ListInv'
  <2>1. h \in Live /\ at' = nextOf(h) /\ asking = NoSession
    BY <1>4 DEF checkStart, checkTimeout, checkPosition, checkMsa, checkNetwork, visitCheck,
                ListInv, Asked
  <2>2. CASE endSuplSession(h) /\ checkRest
    BY <2>1, <2>2, VisitList DEF checkRest, userVars
  <2>3. CASE (\E s \in SMState, t \in BOOLEAN : moveTo(h, s, t)) /\ checkRest
    BY <2>1, <2>3, MovedOn, VisitList DEF checkRest, userVars
  <2>4. CASE startNiSession(h)
    <3>1. /\ UNCHANGED <<queue, aborted>> /\ asking' = h
          /\ session' = [session EXCEPT ![h].state = "AUTH"]
      BY <2>4 DEF startNiSession
    <3>2. Only(h) /\ session'[h].state \in SMState
      BY <3>1 DEF Only, SessionTyped, SMState
    <3> QED
      BY <2>1, <3>1, <3>2, VisitList
  <2> QED
    BY <1>4, <2>2, <2>3, <2>4
    DEF checkStart, checkTimeout, checkPosition, checkMsa, checkNetwork, connect,
        startSiSession, sendPositionResponse, SMState
<1>5. CASE suplHandleAuthorization
  <2>1. /\ asking \in Live /\ at' = at /\ asking' = NoSession
        /\ at \in (Live \ {asking}) \cup {NoSession}
    BY <1>5 DEF suplHandleAuthorization, Asked, Live, SMState, ListInv, AtListed
  <2>2. moveTo(asking, "RRLP", TRUE) \/ endSuplSession(asking)
    BY <1>5 DEF suplHandleAuthorization
  <2>3. asking \in Handlers
    BY <2>1 DEF Live
  <2>4. CASE endSuplSession(asking)
    <3>1. /\ queue' \in Seq(Handlers) /\ Distinct' /\ inQueue' = Live'
          /\ Live' = Live \ {asking} /\ aborted' = FALSE
      BY <2>1, <2>4, EndsUnlinks
    <3>2. AtListed'
      BY <2>1, <3>1 DEF AtListed, Live
    <3> QED
      BY <2>1, <3>1, <3>2 DEF ListInv
  <2>5. CASE moveTo(asking, "RRLP", TRUE)
    <3>1. UNCHANGED <<queue, aborted>> /\ Only(asking) /\ session'[asking].state \in SMState
      BY <2>3, <2>5, MovedOn DEF SMState
    <3>2. Live' = Live
      BY <2>1, <3>1, MovesStayLive
    <3> QED
      BY <2>1, <3>1, <3>2 DEF ListInv, AtListed, Live, Distinct, inQueue
  <2> QED
    BY <2>2, <2>4, <2>5
<1>6. CASE checkDone
  BY <1>6, SameList DEF checkDone, listVars, userVars, Asked
<1>7. ASSUME others PROVE ListInv'
  <2>1. CASE start \/ stop \/ updateNetwork
    BY <2>1, SameList DEF start, stop, updateNetwork, othersRest, listVars, loopVars, userVars
  <2>2. CASE \E h \in Handlers : respond(h)
    BY <2>2, SameList DEF respond, othersRest, listVars, loopVars
  <2> QED
    BY <1>7, <2>1, <2>2 DEF others
<1>8. CASE UNCHANGED vars
  BY <1>8, SameList DEF vars, listVars, loopVars, userVars
<1> QED
  BY <1>1, <1>2, <1>3, <1>4, <1>5, <1>6, <1>7, <1>8 DEF Next, gpsThread, checkActions

\* A list without duplicates is as long as the set of its members.
LEMMA DistinctLength ==
  ASSUME queue \in Seq(Handlers), Distinct
  PROVE  Len(queue) = Cardinality(inQueue)
<1>1. Len(queue) \in Nat /\ DOMAIN queue = 1..Len(queue) /\ queue \in [1..Len(queue) -> Handlers]
  BY LenProperties
<1>2. queue \in [1..Len(queue) -> inQueue]
  BY <1>1 DEF inQueue
<1>3. ExistsBijection(1..Len(queue), inQueue)
  BY <1>1, <1>2 DEF ExistsBijection, Bijection, Injection, Surjection, IsInjective, inQueue, Distinct
<1> QED
  BY <1>1, <1>3, FS_CountingElements

\* The list starts empty.
LEMMA ListInit == Init => ListInv
<1> SUFFICES ASSUME Init PROVE ListInv
  OBVIOUS
<1>1. queue = <<>> /\ Live = {} /\ at = NoSession /\ asking = NoSession /\ aborted = FALSE
  BY DEF Init, Live, Unused, SMState
<1>2. queue \in Seq(Handlers) /\ DOMAIN queue = {}
  BY <1>1, EmptySeq, LenProperties
<1> QED
  BY <1>1, <1>2 DEF ListInv, AtListed, Distinct, inQueue

\* No session is lost from the list or left in it after it was freed, and what
\* the GPS thread holds on to is in it, whatever its visits end and RIL threads
\* insert: a session that is asked about is never the one visited next, and only
\* in suplReadUplSock can the one visited next be freed, after a message over one
\* connection has ended the session of another.
THEOREM ListKept == Spec => []QueueConsistent
<1>1. ConsentInv /\ ListInv => QueueConsistent
  <2> SUFFICES ASSUME ConsentInv, ListInv PROVE QueueConsistent
    OBVIOUS
  <2>1. asking \in Live \cup {NoSession}
    BY DEF ConsentInv, Asked, Live, SMState
  <2>2. Len(queue) = Cardinality(Live)
    BY DistinctLength DEF ListInv
  <2> QED
    BY <2>1, <2>2 DEF ListInv, AtListed, QueueConsistent
<1> QED
  BY <1>1, ConsentInit, ConsentNext, ListInit, ListNext, PTL DEF Spec

----------------------------------------------------------------------------
(* The count of clients. *)

Commands == {"START_SI", "STOP_SI", "START_NI", "STOP_NI"}
NiLive == {h \in Live : isNi(h)}
Inserting == {r \in RilThreads : ril[r] = "inserted"}

CountTypes ==
  /\ ril \in [RilThreads -> {"idle", "prepared", "inserted"}]
  /\ pipe \in Seq(Commands)
  /\ clientCount \in Nat /\ lost \in Nat /\ stray \in Nat /\ started \in BOOLEAN

CountInv == CountTypes /\ ClientsCounted

\* A command put into the pipe, and one taken from it.
LEMMA PipeAppend ==
  ASSUME pipe \in Seq(Commands), NEW c \in Commands, pipe' = Append(pipe, c), NEW S
  PROVE  /\ pipe' \in Seq(Commands) /\ inPipe(S) \in Nat /\ inPipe(S)' \in Nat
         /\ inPipe(S)' = inPipe(S) + (IF c \in S THEN 1 ELSE 0)
<1> DEFINE n == Len(pipe)
           A == {i \in 1..n : pipe[i] \in S}
<1>1. n \in Nat /\ DOMAIN pipe = 1..n
  BY LenProperties
<1>2. /\ pipe' \in Seq(Commands) /\ Len(pipe') = n + 1
      /\ \A i \in 1..n : pipe'[i] = pipe[i]
      /\ pipe'[n + 1] = c
  BY AppendProperties
<1>3. DOMAIN pipe' = 1..(n + 1)
  BY <1>2, LenProperties
<1> HIDE DEF n
<1>4. IsFiniteSet(A) /\ Cardinality(A) \in Nat
  <2>1. IsFiniteSet(1..n) /\ A \in SUBSET (1..n)
    BY <1>1, FS_Interval
  <2> HIDE DEF A
  <2> QED
    BY <2>1, FS_Subset, FS_CardinalityType
<1>5. inPipe(S) = Cardinality(A)
  BY <1>1 DEF inPipe
<1>6. inPipe(S)' = Cardinality({i \in 1..(n + 1) : pipe'[i] \in S})
  BY <1>3 DEF inPipe
<1>7. CASE c \in S
  <2>1. {i \in 1..(n + 1) : pipe'[i] \in S} = A \cup {n + 1} /\ n + 1 \notin A
    BY <1>1, <1>2, <1>7
  <2>2. Cardinality(A \cup {n + 1}) = Cardinality(A) + 1
    <3> HIDE DEF A
    <3> QED
      BY <1>4, <2>1, FS_AddElement
  <2>3. inPipe(S)' = Cardinality(A) + 1
    BY <1>6, <2>1, <2>2
  <2> HIDE DEF A
  <2> QED
    BY <1>2, <1>4, <1>5, <1>7, <2>3
<1>8. CASE c \notin S
  <2>1. {i \in 1..(n + 1) : pipe'[i] \in S} = A
    BY <1>1, <1>2, <1>8
  <2>2. inPipe(S)' = Cardinality(A)
    BY <1>6, <2>1
  <2> HIDE DEF A
  <2> QED
    BY <1>2, <1>4, <1>5, <1>8, <2>2
<1> QED
  BY <1>7, <1>8

\* Taking the first command uncounts that command only.
LEMMA PipeTail ==
  ASSUME pipe \in Seq(Commands), pipe # <<>>, pipe' = Tail(pipe), NEW S
  PROVE  /\ pipe' \in Seq(Commands) /\ inPipe(S) \in Nat /\ inPipe(S)' \in Nat
         /\ inPipe(S) = inPipe(S)' + (IF Head(pipe) \in S THEN 1 ELSE 0)
<1> DEFINE n == Len(pipe)
           A == {i \in 1..n : pipe[i] \in S}
           B == {i \in 1..(n - 1) : pipe[i + 1] \in S}
           C == {i \in 2..n : pipe[i] \in S}
<1>1. n \in Nat \ {0} /\ DOMAIN pipe = 1..n /\ Head(pipe) = pipe[1]
  BY LenProperties, EmptySeq
<1>2. /\ pipe' \in Seq(Commands) /\ Len(pipe') = n - 1
      /\ \A i \in 1..(n - 1) : pipe'[i] = pipe[i + 1]
  BY HeadTailProperties
<1>3. DOMAIN pipe' = 1..(n - 1)
  BY <1>2, LenProperties
<1> HIDE DEF n
<1>4. IsFiniteSet(B) /\ Cardinality(B) \in Nat
  <2>1. IsFiniteSet(1..(n - 1)) /\ B \in SUBSET (1..(n - 1))
    <3>1. 1 \in Int /\ n - 1 \in Int
      BY <1>1
    <3>2. IsFiniteSet(1..(n - 1))
      BY <3>1, FS_Interval
    <3> QED
      BY <3>2
  <2> HIDE DEF B
  <2> QED
    BY <2>1, FS_Subset, FS_CardinalityType
<1>5. inPipe(S) = Cardinality(A)
  BY <1>1 DEF inPipe
<1>6. inPipe(S)' = Cardinality(B)
  <2>1. {i \in DOMAIN pipe' : pipe'[i] \in S} = B
    BY <1>2, <1>3
  <2> QED
    BY <2>1 DEF inPipe
<1>7. IsFiniteSet(C) /\ Cardinality(C) = Cardinality(B)
  <2> DEFINE f == [i \in B |-> i + 1]
  <2>1. f \in Bijection(B, C)
    <3>1. f \in [B -> C]
      BY <1>1
    <3>2. \A i, j \in B : f[i] = f[j] => i = j
      BY <1>1
    <3>3. \A k \in C : \E i \in B : f[i] = k
      <4> SUFFICES ASSUME NEW k \in C PROVE \E i \in B : f[i] = k
        OBVIOUS
      <4>1. k - 1 \in B /\ f[k - 1] = k
        BY <1>1
      <4> QED
        BY <4>1
    <3> QED
      BY <3>1, <3>2, <3>3 DEF Bijection, Injection, Surjection, IsInjective
  <2>2. ExistsBijection(B, C)
    BY <2>1 DEF ExistsBijection
  <2> HIDE DEF B, C
  <2> QED
    BY <1>4, <2>2, FS_Bijection
<1>8. CASE Head(pipe) \in S
  <2>1. A = C \cup {1} /\ 1 \notin C
    BY <1>1, <1>8
  <2> HIDE DEF A, B, C
  <2>2. Cardinality(A) = Cardinality(B) + 1
    BY <1>7, <2>1, FS_AddElement
  <2> QED
    BY <1>2, <1>4, <1>5, <1>6, <1>8, <2>2
<1>9. CASE Head(pipe) \notin S
  <2>1. A = C
    BY <1>1, <1>9
  <2> HIDE DEF A, B, C
  <2> QED
    BY <1>2, <1>4, <1>5, <1>6, <1>7, <1>9, <2>1
<1> QED
  BY <1>8, <1>9

\* The commands of a kind in the pipe are finitely many.
LEMMA PipeCount ==
  ASSUME pipe \in Seq(Commands), NEW S
  PROVE  inPipe(S) \in Nat
<1>1. Len(pipe) \in Nat /\ DOMAIN pipe = 1..Len(pipe)
  BY LenProperties
<1>2. IsFiniteSet(1..Len(pipe))
  BY <1>1, FS_Interval
<1>3. {i \in DOMAIN pipe : pipe[i] \in S} \in SUBSET (1..Len(pipe))
  BY <1>1
<1>4. IsFiniteSet({i \in DOMAIN pipe : pipe[i] \in S})
  BY <1>2, <1>3, FS_Subset
<1> QED
  BY <1>4, FS_CardinalityType DEF inPipe

\* What is counted is finite: live sessions and inserting threads.
LEMMA FiniteCounts ==
  /\ IsFiniteSet(NiLive) /\ Cardinality(NiLive) \in Nat
  /\ IsFiniteSet(Inserting) /\ Cardinality(Inserting) \in Nat
<1>1. IsFiniteSet(Handlers)
  BY SuplAssumption, FS_Interval DEF Handlers
<1>2. NiLive \in SUBSET Handlers /\ Inserting \in SUBSET RilThreads
  BY DEF NiLive, Live, Inserting
<1> QED
  BY <1>1, <1>2, SuplAssumption, FS_Subset, FS_CardinalityType

\* What the commands sent so far add up to: the difference of starts and stops.
Sent == Cardinality(NiLive) + (IF started THEN 1 ELSE 0) - Cardinality(Inserting) - stray

Starts == {"START_SI", "START_NI"}
Stops == {"STOP_SI", "STOP_NI"}

\* ClientsCounted in terms of the sum of commands sent.
LEMMA SentCounted ==
  ASSUME CountTypes
  PROVE  /\ Sent \in Int
         /\ ClientsCounted <=> clientCount + inPipe(Starts) - inPipe(Stops) - lost = Sent
<1>1. /\ Cardinality(NiLive) \in Nat /\ Cardinality(Inserting) \in Nat
      /\ clientCount \in Nat /\ lost \in Nat /\ stray \in Nat
      /\ (IF started THEN 1 ELSE 0) \in Nat
  BY FiniteCounts DEF CountTypes
<1>2. inPipe(Starts) \in Nat /\ inPipe(Stops) \in Nat
  BY PipeCount DEF CountTypes
<1> QED
  <2>1. ClientsCounted
          <=> clientCount + inPipe(Starts) + Cardinality(Inserting)
                = inPipe(Stops) + (IF started THEN 1 ELSE 0) + Cardinality(NiLive) + lost - stray
    BY DEF ClientsCounted, inserting, Inserting, NiLive, Starts, Stops
  <2> QED
    BY <1>1, <1>2, <2>1 DEF Sent

\* The same of the next state.
LEMMA SentCountedNext ==
  CountTypes'
    => /\ Sent' \in Int
       /\ ClientsCounted'
            <=> clientCount' + inPipe(Starts)' - inPipe(Stops)' - lost' = Sent'
<1>1. CountTypes
        => (/\ Sent \in Int
            /\ ClientsCounted <=> clientCount + inPipe(Starts) - inPipe(Stops) - lost = Sent)
  BY SentCounted
<1>2. (CountTypes
        => (/\ Sent \in Int
            /\ ClientsCounted <=> clientCount + inPipe(Starts) - inPipe(Stops) - lost = Sent))'
  BY <1>1, PTL
<1> QED
  BY <1>2

\* One command is put into the pipe, and the sum changes with it.
LEMMA CommandAdded ==
  ASSUME CountInv, NEW c \in Commands, pipe' = Append(pipe, c), CountTypes',
         UNCHANGED engineVars,
         Sent' = IF c \in Starts THEN Sent + 1 ELSE Sent - 1
  PROVE  CountInv'
<1>1. /\ Sent \in Int /\ Sent' \in Int /\ clientCount \in Nat /\ lost \in Nat
      /\ clientCount' = clientCount /\ lost' = lost
      /\ clientCount + inPipe(Starts) - inPipe(Stops) - lost = Sent
  BY SentCounted, SentCountedNext DEF CountInv, CountTypes, engineVars
<1>2. /\ inPipe(Starts) \in Nat /\ inPipe(Stops) \in Nat
      /\ inPipe(Starts)' = inPipe(Starts) + (IF c \in Starts THEN 1 ELSE 0)
      /\ inPipe(Stops)' = inPipe(Stops) + (IF c \in Stops THEN 1 ELSE 0)
  BY PipeAppend DEF CountInv, CountTypes
<1>3. (c \in Starts /\ c \notin Stops) \/ (c \notin Starts /\ c \in Stops)
  BY DEF Commands, Starts, Stops
<1>4. clientCount' + inPipe(Starts)' - inPipe(Stops)' - lost' = Sent'
  BY <1>1, <1>2, <1>3
<1>5. ClientsCounted' <=> clientCount' + inPipe(Starts)' - inPipe(Stops)' - lost' = Sent'
  BY SentCountedNext
<1> QED
  BY <1>4, <1>5 DEF CountInv

\* No command is sent or taken, and the sum stays.
LEMMA NothingSent ==
  ASSUME CountInv, CountTypes', UNCHANGED <<pipe, engineVars>>, Sent' = Sent
  PROVE  CountInv'
<1>1. /\ pipe' = pipe /\ clientCount' = clientCount /\ lost' = lost
      /\ clientCount + inPipe(Starts) - inPipe(Stops) - lost = Sent
  BY SentCounted DEF CountInv, engineVars
<1>2. inPipe(Starts)' = inPipe(Starts) /\ inPipe(Stops)' = inPipe(Stops)
  BY <1>1 DEF inPipe
<1> QED
  BY <1>1, <1>2, SentCountedNext DEF CountInv

\* The GPS thread takes a command.
Takes ==
  \/ /\ Head(pipe) \in Starts /\ Head(pipe) \notin Stops
     /\ clientCount' - lost' = clientCount - lost + 1
  \/ /\ Head(pipe) \in Stops /\ Head(pipe) \notin Starts
     /\ clientCount' - lost' = clientCount - lost - 1

\* Taking a command moves it from the pipe into clientCount or lost.
LEMMA CommandTaken ==
  ASSUME CountInv, pipe # <<>>, pipe' = Tail(pipe), CountTypes', Sent' = Sent, Takes
  PROVE  CountInv'
<1>1. /\ Sent \in Int /\ clientCount \in Nat /\ lost \in Nat /\ clientCount' \in Nat /\ lost' \in Nat
      /\ clientCount + inPipe(Starts) - inPipe(Stops) - lost = Sent
  BY SentCounted DEF CountInv, CountTypes
<1>2. /\ inPipe(Starts) \in Nat /\ inPipe(Stops) \in Nat
      /\ inPipe(Starts)' \in Nat /\ inPipe(Stops)' \in Nat
      /\ inPipe(Starts) = inPipe(Starts)' + (IF Head(pipe) \in Starts THEN 1 ELSE 0)
      /\ inPipe(Stops) = inPipe(Stops)' + (IF Head(pipe) \in Stops THEN 1 ELSE 0)
  BY PipeTail DEF CountInv, CountTypes
<1>3. PICK c \in Int, l \in Int, c2 \in Int, l2 \in Int,
           p \in Int, q \in Int, p2 \in Int, q2 \in Int, n \in Int :
        /\ c = clientCount /\ l = lost /\ c2 = clientCount' /\ l2 = lost'
        /\ p = inPipe(Starts) /\ q = inPipe(Stops) /\ p2 = inPipe(Starts)' /\ q2 = inPipe(Stops)'
        /\ n = Sent
  BY <1>1, <1>2
<1>4. c + p - q - l = n /\ Sent' = n
  BY <1>1, <1>3
<1>5. \/ p2 = p - 1 /\ q2 = q /\ c2 - l2 = c - l + 1
      \/ p2 = p /\ q2 = q - 1 /\ c2 - l2 = c - l - 1
  <2>1. \/ Head(pipe) \in Starts /\ Head(pipe) \notin Stops /\ c2 - l2 = c - l + 1
        \/ Head(pipe) \in Stops /\ Head(pipe) \notin Starts /\ c2 - l2 = c - l - 1
    BY <1>3 DEF Takes
  <2>2. /\ Head(pipe) \in Starts => p2 = p - 1
        /\ Head(pipe) \notin Starts => p2 = p
        /\ Head(pipe) \in Stops => q2 = q - 1
        /\ Head(pipe) \notin Stops => q2 = q
    BY <1>2, <1>3
  <2> QED
    BY <2>1, <2>2
<1>6. c2 + p2 - q2 - l2 = n
  BY <1>4, <1>5
<1> QED
  BY <1>3, <1>4, <1>6, SentCountedNext DEF CountInv

\* A session that moves stays counted, one that ends is not, and the request to
\* stop the engine goes with it.
LEMMA MovesCount ==
  ASSUME session \in [Handlers -> SessionTyped], NEW h \in Live, Only(h), CountInv,
         session'[h].state \in SMState, session'[h].kind = session[h].kind,
         UNCHANGED <<ril, pipe, engineVars, started, stray>>
  PROVE  CountInv'
<1>1. NiLive' = NiLive
  BY DEF NiLive, Live, isNi, Only
<1>2. Sent' = Sent
  BY <1>1 DEF Sent, Inserting
<1>3. CountTypes'
  BY DEF CountInv, CountTypes, engineVars
<1> QED
  BY <1>2, <1>3, NothingSent

\* The end of a session keeps the count: a session less, a stop command more.
LEMMA EndsCount ==
  ASSUME session \in [Handlers -> SessionTyped], NEW h \in Live, endSuplSession(h), CountInv,
         UNCHANGED <<ril, engineVars, started, stray>>
  PROVE  CountInv'
<1>1. h \in Handlers /\ Only(h) /\ session'[h].state = "freed"
  BY Ends DEF Live
<1>2. NiLive' = NiLive \ {h}
  BY <1>1 DEF NiLive, Live, isNi, Only, SMState
<1>3. Inserting' = Inserting
  BY DEF Inserting
<1>4. pipe \in Seq(Commands)
  BY DEF CountInv, CountTypes
<1>5. CASE isNi(h)
  <2>1. h \in NiLive /\ pipe' = Append(pipe, "STOP_NI") /\ "STOP_NI" \in Commands
    BY <1>5 DEF NiLive, endSuplSession, Commands
  <2>2. Cardinality(NiLive') = Cardinality(NiLive) - 1
    BY <1>2, <2>1, FiniteCounts, FS_RemoveElement
  <2>3. CountTypes'
    <3>1. pipe' \in Seq(Commands)
      BY <1>4, <2>1, AppendProperties
    <3> QED
      BY <3>1 DEF CountInv, CountTypes, engineVars
  <2>4. Sent' = Sent - 1
    <3>1. /\ Cardinality(NiLive) \in Nat /\ Cardinality(Inserting) \in Nat /\ stray \in Nat
          /\ (IF started THEN 1 ELSE 0) \in Nat
      BY FiniteCounts DEF CountInv, CountTypes
    <3> QED
      BY <1>3, <2>2, <3>1 DEF Sent
  <2> QED
    BY <2>1, <2>3, <2>4, CommandAdded DEF Starts
<1>6. CASE ~isNi(h)
  <2>1. NiLive' = NiLive
    BY <1>2, <1>6 DEF NiLive
  <2>2. pipe' = pipe
    BY <1>6 DEF endSuplSession
  <2>3. CountTypes' /\ Sent' = Sent
    BY <1>3, <2>1, <2>2 DEF CountInv, CountTypes, engineVars, Sent
  <2> QED
    BY <2>2, <2>3, NothingSent
<1> QED
  BY <1>5, <1>6

\* The sessions and what a RIL thread inserts are not touched.
LEMMA SameSessions ==
  ASSUME UNCHANGED <<session, ril>>
  PROVE  NiLive' = NiLive /\ Inserting' = Inserting
<1>1. session' = session /\ ril' = ril
  OBVIOUS
<1> QED
  BY <1>1 DEF NiLive, Live, isNi, Inserting

\* The steps of the RIL threads keep the count.
LEMMA RilCounts ==
  ASSUME ConsentInv, ListInv, CountInv, NEW r \in RilThreads, rilThread(r)
  PROVE  CountInv'
<1>1. /\ Cardinality(NiLive) \in Nat /\ Cardinality(Inserting) \in Nat /\ stray \in Nat
      /\ (IF started THEN 1 ELSE 0) \in Nat
      /\ ril \in [RilThreads -> {"idle", "prepared", "inserted"}]
  BY FiniteCounts DEF CountInv, CountTypes
<1>2. CASE \/ niCheck(r)
           \/ niInsert(r) /\ UNCHANGED <<queue, session>> /\ ril' = [ril EXCEPT ![r] = "idle"]
  <2>1. /\ UNCHANGED <<session, pipe, engineVars, started, stray>>
        /\ ril[r] # "inserted"
        /\ ril' = [ril EXCEPT ![r] = "prepared"] \/ ril' = [ril EXCEPT ![r] = "idle"]
    BY <1>2 DEF niCheck, niInsert, listVars, frameworkVars
  <2>2. NiLive' = NiLive
    BY <2>1 DEF NiLive, Live, isNi
  <2>3. Inserting' = Inserting
    BY <1>1, <2>1 DEF Inserting
  <2>4. CountTypes' /\ Sent' = Sent
    BY <1>1, <2>1, <2>2, <2>3 DEF CountInv, CountTypes, engineVars, Sent
  <2> QED
    BY <2>1, <2>4, NothingSent
<1>3. CASE niInsert(r) /\ ril' = [ril EXCEPT ![r] = "inserted"] /\ ~full
  <2>1. PICK k \in Requests :
          /\ ril[r] = "prepared" /\ fresh # {}
          /\ UNCHANGED <<pipe, engineVars, started, stray>>
          /\ session' = [session EXCEPT ![allocateSM] =
                           [Unused EXCEPT !.state = "START", !.kind = k]]
    BY <1>1, <1>3 DEF niInsert, frameworkVars
  <2>2. /\ [Unused EXCEPT !.state = "START", !.kind = k] \in SessionTyped
        /\ [Unused EXCEPT !.state = "START", !.kind = k].state \in SMState
        /\ [Unused EXCEPT !.state = "START", !.kind = k].kind # "SI"
    BY DEF Unused, SessionTyped, SMState, Kinds, Requests
  <2>3. /\ allocateSM \in Handlers /\ session[allocateSM].state = "unused"
        /\ Only(allocateSM) /\ session'[allocateSM].state \in SMState
        /\ session'[allocateSM].kind # "SI"
    BY <2>1, <2>2, Inserted DEF ConsentInv
  <2>4. NiLive' = NiLive \cup {allocateSM} /\ allocateSM \notin NiLive
    BY <2>3 DEF NiLive, Live, isNi, Only, SMState
  <2>5. Inserting' = Inserting \cup {r} /\ r \notin Inserting
    BY <1>1, <1>3, <2>1 DEF Inserting
  <2>6. /\ Cardinality(NiLive') = Cardinality(NiLive) + 1
        /\ Cardinality(Inserting') = Cardinality(Inserting) + 1
    BY <2>4, <2>5, FiniteCounts, FS_AddElement
  <2>7. Sent' = Sent
    BY <1>1, <2>1, <2>6 DEF Sent
  <2>8. CountTypes'
    BY <1>1, <1>3, <2>1 DEF CountInv, CountTypes, engineVars
  <2> QED
    BY <2>1, <2>7, <2>8, NothingSent
<1>4. CASE niStart(r)
  <2>1. /\ ril[r] = "inserted" /\ ril' = [ril EXCEPT ![r] = "idle"]
        /\ pipe' = Append(pipe, "START_NI") /\ "START_NI" \in Commands
        /\ UNCHANGED <<session, engineVars, started, stray>>
    BY <1>4 DEF niStart, listVars, frameworkVars, Commands
  <2>2. NiLive' = NiLive
    BY <2>1 DEF NiLive, Live, isNi
  <2>3. Inserting' = Inserting \ {r} /\ r \in Inserting
    BY <1>1, <2>1 DEF Inserting
  <2>4. Cardinality(Inserting') = Cardinality(Inserting) - 1
    BY <2>3, FiniteCounts, FS_RemoveElement
  <2>5. Sent' = Sent + 1
    <3>1. /\ started' = started /\ stray' = stray
          /\ Cardinality(NiLive') = Cardinality(NiLive)
      BY <2>1, <2>2
    <3> QED
      BY <1>1, <2>4, <3>1 DEF Sent
  <2>6. pipe' \in Seq(Commands)
    BY <2>1, AppendProperties DEF CountInv, CountTypes
  <2>7. CountTypes'
    BY <1>1, <2>1, <2>6 DEF CountInv, CountTypes, engineVars
  <2> QED
    BY <2>1, <2>5, <2>7, CommandAdded DEF Starts
<1> QED
  BY <1>2, <1>3, <1>4 DEF rilThread, niInsert

\* The commands the GPS thread takes keep the count.
LEMMA EngineCounts ==
  ASSUME ConsentInv, CountInv, handleCmdInput
  PROVE  CountInv'
<1>1. CASE noCommand
  <2>1. UNCHANGED <<session, ril, pipe, engineVars, started, stray>>
    BY <1>1 DEF noCommand, listVars, frameworkVars
  <2>2. CountTypes' /\ Sent' = Sent
    BY <2>1, SameSessions DEF CountInv, CountTypes, engineVars, Sent
  <2> QED
    BY <2>1, <2>2, NothingSent
<1>2. CASE engineStart \/ engineStop
  <2>1. /\ UNCHANGED <<session, ril, started, stray>>
        /\ pipe # <<>> /\ pipe' = Tail(pipe)
    BY <1>2 DEF engineStart, engineStop, command, listVars, frameworkVars
  <2>2. pipe' \in Seq(Commands)
    BY <2>1, HeadTailProperties DEF CountInv, CountTypes
  <2>3. clientCount \in Nat /\ lost \in Nat
    BY DEF CountInv, CountTypes
  <2>4. \/ /\ Head(pipe) \in Starts /\ Head(pipe) \notin Stops
           /\ clientCount' = clientCount + 1 /\ lost' = lost
        \/ /\ Head(pipe) \in Stops /\ Head(pipe) \notin Starts
           /\ clientCount > 0 /\ clientCount' = clientCount - 1 /\ lost' = lost
        \/ /\ Head(pipe) \in Stops /\ Head(pipe) \notin Starts
           /\ clientCount' = clientCount /\ lost' = lost + 1
    BY <1>2 DEF engineStart, engineStop, command, Starts, Stops
  <2>5. CountTypes'
    BY <2>1, <2>2, <2>3, <2>4 DEF CountInv, CountTypes
  <2>6. Sent' = Sent
    BY <2>1, SameSessions DEF Sent
  <2>7. Takes
    BY <2>3, <2>4 DEF Takes
  <2> QED
    BY <2>1, <2>5, <2>6, <2>7, CommandTaken
<1>3. CASE suplStartSetInitiatedAction
  <2>1. UNCHANGED <<ril, pipe, engineVars, started, stray>>
    BY <1>3 DEF suplStartSetInitiatedAction, frameworkVars
  <2>2. NiLive' = NiLive
    <3>1. CASE session' = session
      BY <3>1 DEF NiLive, Live, isNi
    <3>2. CASE session' # session
      <4>1. PICK v \in {[Unused EXCEPT !.state = "WAIT_RES", !.timer = TRUE], Freed,
                        [Unused EXCEPT !.state = "NO_NETWORK", !.timer = TRUE]} :
              fresh # {} /\ session' = [session EXCEPT ![allocateSM] = v]
        BY <1>3, <3>2 DEF suplStartSetInitiatedAction
      <4>2. v \in SessionTyped /\ v.kind = "SI"
        BY <4>1 DEF Unused, Freed, SessionTyped, SMState, Kinds
      <4>3. /\ allocateSM \in Handlers /\ session[allocateSM].state = "unused"
            /\ Only(allocateSM) /\ session'[allocateSM].kind = "SI"
        BY <4>1, <4>2, Inserted DEF ConsentInv
      <4> QED
        BY <4>3 DEF NiLive, Live, isNi, Only, SMState
    <3> QED
      BY <3>1, <3>2
  <2>3. CountTypes' /\ Sent' = Sent
    BY <2>1, <2>2 DEF CountInv, CountTypes, engineVars, Sent, Inserting
  <2> QED
    BY <2>1, <2>3, NothingSent
<1> QED
  BY <1>1, <1>2, <1>3 DEF handleCmdInput

\* A visit of a live session.
LEMMA VisitCounts ==
  ASSUME session \in [Handlers -> SessionTyped], NEW h \in Live, CountInv,
         UNCHANGED <<ril, engineVars, started, stray>>,
         \/ endSuplSession(h)
         \/ \E s \in SMState, t \in BOOLEAN : moveTo(h, s, t)
         \/ \E r \in {"position", "msa"}, t \in BOOLEAN : awaitResponse(h, r, t)
  PROVE  CountInv'
<1>1. h \in Handlers
  BY DEF Live
<1>2. ASSUME NEW s \in SMState, NEW t \in BOOLEAN, moveTo(h, s, t) PROVE CountInv'
  <2>1. Only(h) /\ session'[h].state \in SMState /\ session'[h].kind = session[h].kind
    BY <1>1, <1>2, Moves
  <2> QED
    BY <1>2, <2>1, MovesCount DEF moveTo
<1>3. ASSUME NEW r \in {"position", "msa"}, NEW t \in BOOLEAN, awaitResponse(h, r, t)
      PROVE  CountInv'
  <2>1. Only(h) /\ session'[h].state \in SMState /\ session'[h].kind = session[h].kind
    BY <1>1, <1>3, Awaits DEF SMState
  <2> QED
    BY <1>3, <2>1, MovesCount DEF awaitResponse
<1> QED
  BY <1>2, <1>3, EndsCount

\* Every step keeps the count.
LEMMA CountNext ==
  ASSUME ConsentInv, ListInv, CountInv, [Next]_vars
  PROVE  CountInv'
<1>0. session \in [Handlers -> SessionTyped]
  BY DEF ConsentInv
<1>1. ASSUME NEW r \in RilThreads, rilThread(r) PROVE CountInv'
  BY <1>1, RilCounts
<1>2. ASSUME readSockets PROVE CountInv'
  <2>1. UNCHANGED <<ril, engineVars, started, stray>>
    BY <1>2 DEF readSockets, socketClosed, socketMessage, messageFor, visitFreed, readRest,
                frameworkVars
  <2>2. ASSUME NEW h \in Handlers, socketClosed(h) PROVE CountInv'
    <3>1. h \in Live /\ endSuplSession(h)
      BY <2>2 DEF socketClosed, visitRead, ListInv
    <3> QED
      BY <1>0, <2>1, <3>1, VisitCounts
  <2>3. ASSUME NEW h \in Handlers, NEW g \in Handlers, messageFor(h, g) PROVE CountInv'
    <3>1. g \in Live
      BY <2>3 DEF messageFor, ListInv
    <3>2. CASE UNCHANGED <<listVars, pipe>>
      <4>1. UNCHANGED <<session, pipe>> /\ Only(g) /\ session'[g] = session[g]
        BY <1>0, <3>2 DEF listVars, Only
      <4> QED
        BY <1>0, <2>1, <3>1, <4>1, MovesCount DEF Live
    <3>3. PICK m \in Messages : onMessage(g, m)
      BY <2>3 DEF messageFor
    <3> QED
      BY <1>0, <2>1, <3>1, <3>2, <3>3, MessageHandled, VisitCounts DEF SMState
  <2>4. CASE visitFreed
    <3>1. UNCHANGED <<session, ril, pipe, engineVars, started, stray>>
      BY <2>1, <2>4 DEF visitFreed, listVars
    <3>2. CountTypes' /\ Sent' = Sent
      BY <3>1, SameSessions DEF CountInv, CountTypes, engineVars, Sent
    <3> QED
      BY <3>1, <3>2, NothingSent
  <2> QED
    BY <1>2, <2>2, <2>3, <2>4 DEF readSockets, socketMessage
<1>3. CASE handleCmdInput
  BY <1>3, EngineCounts
<1>4. ASSUME NEW h \in Handlers,
             \/ checkStart(h) \/ checkTimeout(h) \/ checkPosition(h)
             \/ checkMsa(h) \/ checkNetwork(h)
      PROVE  CountInv'
  <2>1. h \in Live /\ UNCHANGED <<ril, engineVars, started, stray>>
    BY <1>4 DEF checkStart, checkTimeout, checkPosition, checkMsa, checkNetwork, visitCheck,
                connect, checkRest, askRest, frameworkVars, ListInv
  <2>2. CASE endSuplSession(h) \/ \E s \in SMState, t \in BOOLEAN : moveTo(h, s, t)
    BY <1>0, <2>1, <2>2, VisitCounts
  <2>3. CASE startNiSession(h)
    <3>1. UNCHANGED pipe /\ session' = [session EXCEPT ![h].state = "AUTH"]
      BY <2>3 DEF startNiSession
    <3>2. Only(h) /\ session'[h].state \in SMState /\ session'[h].kind = session[h].kind
      BY <1>0, <3>1 DEF Only, SessionTyped, SMState
    <3> QED
      BY <1>0, <2>1, <3>1, <3>2, MovesCount
  <2> QED
    BY <1>4, <2>2, <2>3
    DEF checkStart, checkTimeout, checkPosition, checkMsa, checkNetwork, connect,
        startSiSession, sendPositionResponse, SMState
<1>5. CASE suplHandleAuthorization
  <2>1. asking \in Live /\ UNCHANGED <<ril, engineVars, started, stray>>
    BY <1>5 DEF suplHandleAuthorization, ConsentInv, Asked, Live, SMState, frameworkVars
  <2>2. moveTo(asking, "RRLP", TRUE) \/ endSuplSession(asking)
    BY <1>5 DEF suplHandleAuthorization
  <2> QED
    BY <1>0, <2>1, <2>2, VisitCounts DEF SMState
<1>6. CASE checkDone \/ updateNetwork \/ UNCHANGED vars \/ \E h \in Handlers : respond(h)
  <2>1. UNCHANGED <<session, ril, pipe, engineVars, started, stray>>
    BY <1>6 DEF checkDone, updateNetwork, respond, othersRest, vars, listVars, frameworkVars
  <2>2. CountTypes' /\ Sent' = Sent
    BY <2>1, SameSessions DEF CountInv, CountTypes, engineVars, Sent
  <2> QED
    BY <2>1, <2>2, NothingSent
<1>7. CASE start \/ stop
  <2>1. /\ UNCHANGED <<session, ril, engineVars>>
        /\ \/ ~started /\ started' = TRUE /\ stray' = stray /\ pipe' = Append(pipe, "START_SI")
           \/ /\ started' = FALSE /\ stray' = IF started THEN stray ELSE stray + 1
              /\ pipe' = Append(pipe, "STOP_SI")
    BY <1>7 DEF start, stop, othersRest, listVars
  <2>2. pipe' \in Seq(Commands)
    BY <2>1, AppendProperties DEF CountInv, CountTypes, Commands
  <2>3. CountTypes'
    <3>0. started' \in BOOLEAN
      BY <2>1
    <3>1. stray' \in Nat
      BY <2>1 DEF CountInv, CountTypes
    <3>2. UNCHANGED <<ril, clientCount, lost>>
      BY <2>1 DEF engineVars
    <3> QED
      BY <2>2, <3>0, <3>1, <3>2 DEF CountInv, CountTypes
  <2>4. /\ Cardinality(NiLive') = Cardinality(NiLive) /\ Cardinality(NiLive) \in Nat
        /\ Cardinality(Inserting') = Cardinality(Inserting) /\ Cardinality(Inserting) \in Nat
        /\ stray \in Nat /\ started \in BOOLEAN
    BY <2>1, SameSessions, FiniteCounts DEF CountInv, CountTypes
  <2>5. CASE pipe' = Append(pipe, "START_SI") /\ ~started /\ started' = TRUE /\ stray' = stray
    <3>1. Sent' = Sent + 1
      BY <2>4, <2>5 DEF Sent
    <3> QED
      BY <2>1, <2>3, <2>5, <3>1, CommandAdded DEF Starts, Commands
  <2>6. CASE /\ pipe' = Append(pipe, "STOP_SI") /\ started' = FALSE
             /\ stray' = IF started THEN stray ELSE stray + 1
    <3>1. Sent' = Sent - 1
      BY <2>4, <2>6 DEF Sent
    <3> QED
      BY <2>1, <2>3, <2>6, <3>1, CommandAdded DEF Starts, Commands
  <2> QED
    BY <2>1, <2>5, <2>6
<1> QED
  BY <1>1, <1>2, <1>3, <1>4, <1>5, <1>6, <1>7 DEF Next, gpsThread, checkActions, others

\* The count starts at zero.
LEMMA CountInit == Init => CountInv
<1> SUFFICES ASSUME Init PROVE CountInv
  OBVIOUS
<1>1. CountTypes
  <2>1. pipe \in Seq(Commands)
    BY EmptySeq DEF Init
  <2> QED
    BY <2>1 DEF Init, CountTypes
<1>2. NiLive = {} /\ Inserting = {}
  BY DEF Init, NiLive, Live, isNi, Unused, SMState, Inserting
<1>3. Sent = 0
  BY <1>2, FS_EmptySet DEF Init, Sent
<1>4. inPipe(Starts) = 0 /\ inPipe(Stops) = 0
  <2>1. pipe = <<>> /\ DOMAIN pipe = {}
    BY EmptySeq, LenProperties DEF Init
  <2>2. ASSUME NEW S PROVE inPipe(S) = 0
    <3>1. {i \in DOMAIN pipe : pipe[i] \in S} = {}
      BY <2>1
    <3> QED
      BY <3>1, FS_EmptySet DEF inPipe
  <2> QED
    BY <2>2
<1> QED
  BY <1>1, <1>3, <1>4, SentCounted DEF CountInv, Init

\* The count of clients, the commands still in the pipe and the sessions about to
\* ask for the engine agree with the framework and the live sessions of the
\* network, but for the two kinds of stops that are not matched by a start.
THEOREM ClientsAlwaysCounted == Spec => []ClientsCounted
<1>1. CountInv => ClientsCounted
  BY DEF CountInv
<1> QED
  BY <1>1, ConsentInit, ConsentNext, ListInit, ListNext, CountInit, CountNext, PTL DEF Spec

----------------------------------------------------------------------------
(* Types. *)

RestTypes ==
  /\ phase \in {"read", "initiate", "check", "auth", "wild"} /\ crossed \in BOOLEAN
  /\ m_cmd \in Answers /\ isConnected \in BOOLEAN
  /\ calls \in Nat

\* The types of the remaining variables hold at first.
LEMMA RestInit == Init => RestTypes
<1> SUFFICES ASSUME Init PROVE RestTypes
  OBVIOUS
<1>1. isConnected = FALSE /\ crossed = FALSE
  BY DEF Init
<1>2. isConnected \in BOOLEAN /\ crossed \in BOOLEAN
  BY <1>1
<1>3. phase = "read" /\ m_cmd \in Answers /\ calls = 0
  BY DEF Init, Answers
<1> QED
  BY <1>2, <1>3 DEF RestTypes

\* ... and in every step.
LEMMA RestNext ==
  ASSUME RestTypes, [Next]_vars
  PROVE  RestTypes'
<1> USE DEF RestTypes, userVars
<1>1. ASSUME NEW r \in RilThreads, rilThread(r) PROVE RestTypes'
  BY <1>1 DEF rilThread, niCheck, niInsert, niStart, loopVars, frameworkVars
<1>2. ASSUME readSockets PROVE RestTypes'
  <2>1. ASSUME NEW h \in Handlers, NEW g \in Handlers, messageFor(h, g)
        PROVE  crossed' \in BOOLEAN
    <3>1. crossed' = (crossed \/ (g # h /\ session'[g].state = "freed"))
      BY <2>1 DEF messageFor
    <3> QED
      BY <3>1, Zenon
  <2>2. crossed' \in BOOLEAN
    BY <1>2, <2>1 DEF readSockets, socketClosed, socketMessage, visitFreed
  <2>3. /\ phase' \in {"read", "wild"} /\ m_cmd' = m_cmd /\ isConnected' = isConnected
        /\ calls' = calls
    BY <1>2 DEF readSockets, socketClosed, socketMessage, messageFor, visitFreed, visitRead,
                readRest, frameworkVars
  <2> QED
    BY <2>2, <2>3
<1>3. CASE handleCmdInput
  BY <1>3 DEF handleCmdInput, noCommand, engineStart, engineStop, suplStartSetInitiatedAction,
              command, toCheck, frameworkVars
<1>4. ASSUME NEW h \in Handlers,
             \/ checkStart(h) \/ checkTimeout(h) \/ checkPosition(h)
             \/ checkMsa(h) \/ checkNetwork(h)
      PROVE  RestTypes'
  BY <1>4 DEF checkStart, checkTimeout, checkPosition, checkMsa, checkNetwork, visitCheck,
              connect, startNiSession, checkRest, askRest, frameworkVars
<1>5. CASE suplHandleAuthorization \/ checkDone
  BY <1>5 DEF suplHandleAuthorization, checkDone, frameworkVars
<1>6. CASE start \/ stop \/ updateNetwork
  BY <1>6 DEF start, stop, updateNetwork, othersRest, loopVars, frameworkVars
<1>7. ASSUME NEW h \in Handlers, respond(h) PROVE RestTypes'
  BY <1>7 DEF respond, othersRest, loopVars, frameworkVars, Answers
<1>8. CASE UNCHANGED vars
  BY <1>8 DEF vars, loopVars, frameworkVars
<1> QED
  BY <1>1, <1>2, <1>3, <1>4, <1>5, <1>6, <1>7, <1>8
  DEF Next, gpsThread, checkActions, others

\* The variables of the sessions, of the GPS thread and of the engine control
\* always have values the code can give them.
THEOREM SuplTyped == Spec => []TypeOK
<1>1. ConsentInv /\ ListInv /\ CountInv /\ RestTypes => TypeOK
  <2> SUFFICES ASSUME ConsentInv, ListInv, CountInv, RestTypes PROVE TypeOK
    OBVIOUS
  <2>1. /\ at \in Handlers \cup {NoSession} /\ queue \in Seq(Handlers) /\ aborted \in BOOLEAN
    BY DEF ListInv, AtListed
  <2>2. /\ session \in [Handlers -> SessionTyped]
        /\ consent \in [Handlers -> Answers \cup {"none"}]
        /\ asking \in Handlers \cup {NoSession} /\ notified \subseteq Handlers /\ sem \in Nat
    BY DEF ConsentInv, Asked
  <2>3. CountTypes
    BY DEF CountInv
  <2> QED
    BY <2>1, <2>2, <2>3 DEF TypeOK, RestTypes, CountTypes, SessionTyped, Answers, Commands
<1> QED
  BY <1>1, ConsentInit, ConsentNext, ListInit, ListNext, CountInit, CountNext,
     RestInit, RestNext, PTL DEF Spec

=============================================================================
