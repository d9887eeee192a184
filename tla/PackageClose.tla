---------------------------- MODULE PackageClose ----------------------------
(****************************************************************************)
(* How a package connection ends (PackageConnection.imp.inl): Close with    *)
(* the FIN handshake, Reset, and the sends that race with them, on both     *)
(* sides of a network that loses, duplicates and reorders packages.         *)
(*                                                                          *)
(* A package holds one unit of the stream or none.  The ack and the SACK    *)
(* ranges of a package together tell the set of units received, and a send  *)
(* buffer is one unit (SendQueue.tla and RecvQueue.tla have the lists).     *)
(* Threads: the dispatch threads receive, several of them at an end, the    *)
(* timer thread runs the timer callbacks, the application calls Send, Close *)
(* and Reset; the send loop runs in whichever of them came first            *)
(* (TrySend.tla), so its turns are steps of their own.  A compare and swap  *)
(* of the sub-state, the call of closeTimer that follows it and the rest of *)
(* the package are steps apart, as the firing of the FIN timer, the start   *)
(* of its callback and the end of it are.  Bdt_TimerHelperStop and -Restart *)
(* are one step each (TimerStack.tla): what a Restart leaves whose Stop and *)
(* Start another call comes between, it leaves before or after that call.   *)
(****************************************************************************)
EXTENDS Integers, FiniteSets, FiniteSetsExt

CONSTANTS
    Sides,         \* the two ends
    Units,         \* bound: what the application of each end sends at most
    HalfOpen,      \* config->package.halfOpen
    Closers,       \* the ends whose application may call Close
    Resets,        \* the ends whose application may call Reset
    FinTimeouts,   \* the ends whose FIN timer may run out
    Threads,       \* the dispatch threads of both ends
    EndOf,         \* the end a dispatch thread works for
    NetCapacity    \* bound: packages in the network at a time

ASSUME CloseAssumption ==
    /\ IsFiniteSet(Sides) /\ Cardinality(Sides) = 2
    /\ Units \in [Sides -> Nat]
    /\ HalfOpen \in BOOLEAN
    /\ Closers \subseteq Sides
    /\ Resets \subseteq Sides
    /\ FinTimeouts \subseteq Sides
    /\ EndOf \in [Threads -> Sides]
    /\ NetCapacity \in Nat \ {0}

VARIABLES
    state, closeSubState, selfCloseStreamPos, remoteCloseStreamPos,
    closeTimer,    \* the callback of the timer closeTimer holds, if any
    finCallback,   \* where PackageConnectionFinTimerCallback is, if it runs
    \* the send queue: end of the buffers, next unit to cut, blocks, and the
    \* end of the buffers given back to the application
    end, next, flight, lost, popped,
    sending,       \* PackageConnectionSend is past its check of the state
    closing,       \* PackageConnectionClose is past its compare and swap
    resetting,     \* PackageConnectionReset is
    have, newAck,  \* the units received, and an ack of them that is due
    handling,      \* the packages with flags the dispatch threads are at work on
    turns,         \* runs of the send loop that are due
    hand,          \* the package the send loop has filled
    net,
    \* history: Reset was called; a FIN was built for less than the buffers
    \* held; a send was appended when the connection was closing or closed
    reset, early, late

closeVars == <<state, closeSubState, selfCloseStreamPos, remoteCloseStreamPos, closeTimer, finCallback>>
queueVars == <<end, next, flight, lost, popped>>
callVars == <<sending, closing, resetting, reset, late>>
recvVars == <<have, newAck, handling>>
driveVars == <<turns, hand, early>>
vars == <<closeVars, queueVars, callVars, recvVars, driveVars, net>>

Peer(s) == CHOOSE p \in Sides : p # s
None == [none |-> TRUE]

\* The ack position of a set of units: the first one missing.
AckOf(units) == Min({p \in 1 .. (Cardinality(units) + 1) : p \notin units})

(* PackageConnectionCreate; the handshake that came before is not part.    *)
Init ==
    /\ state = [s \in Sides |-> "ESTABLISH"]
    /\ closeSubState = [s \in Sides |-> "NONE"]
    /\ selfCloseStreamPos = [s \in Sides |-> 0]
    /\ remoteCloseStreamPos = [s \in Sides |-> 0]
    /\ closeTimer = [s \in Sides |-> "none"]
    /\ end = [s \in Sides |-> 1]
    /\ next = [s \in Sides |-> 1]
    /\ popped = [s \in Sides |-> 1]
    /\ flight = [s \in Sides |-> {}]
    /\ lost = [s \in Sides |-> {}]
    /\ have = [s \in Sides |-> {}]
    /\ turns = [s \in Sides |-> 0]
    /\ hand = [s \in Sides |-> None]
    /\ newAck = [s \in Sides |-> FALSE]
    /\ finCallback = [s \in Sides |-> "idle"]
    /\ sending = [s \in Sides |-> FALSE]
    /\ closing = [s \in Sides |-> FALSE]
    /\ resetting = [s \in Sides |-> FALSE]
    /\ handling = {}
    /\ reset = [s \in Sides |-> FALSE]
    /\ early = [s \in Sides |-> FALSE]
    /\ late = [s \in Sides |-> FALSE]
    /\ net = {}

\* PackageConnectionTrySendPackage called n times at s: a loop that runs
\* already will run once more for all that ask meanwhile.
TrySend(s, n) == turns' = [turns EXCEPT ![s] = Min({@ + n, 2})]

-----------------------------------------------------------------------------
(* The application's calls.                                                *)

(* PackageConnectionSend checks the state ...                              *)
Send(s) ==
    /\ ~sending[s]
    /\ end[s] <= Units[s]
    /\ state[s] = "ESTABLISH"
    /\ sending' = [sending EXCEPT ![s] = TRUE]
    /\ UNCHANGED <<closeVars, queueVars, closing, resetting, reset, late, recvVars, driveVars, net>>

(* ... and then SendQueueAddBuffer appends; PENDING if units were unsent.  *)
AddBuffer(s) ==
    /\ sending[s]
    /\ sending' = [sending EXCEPT ![s] = FALSE]
    /\ end' = [end EXCEPT ![s] = @ + 1]
    /\ late' = [late EXCEPT ![s] = @ \/ state[s] # "ESTABLISH"]
    /\ TrySend(s, IF next[s] = end[s] THEN 1 ELSE 0)
    /\ UNCHANGED <<closeVars, next, flight, lost, popped, closing, resetting, reset, recvVars, hand, early, net>>

(* PackageConnectionClose: the compare and swap ...                        *)
Close(s) ==
    /\ s \in Closers
    /\ state[s] = "ESTABLISH"
    /\ state' = [state EXCEPT ![s] = "CLOSING"]
    /\ closing' = [closing EXCEPT ![s] = TRUE]
    /\ UNCHANGED <<closeSubState, selfCloseStreamPos, remoteCloseStreamPos, closeTimer, finCallback,
                   queueVars, sending, resetting, reset, late, recvVars, driveVars, net>>

\* Mutant of AddCloseOperation: TrySendPackage is left to the acks.
AddCloseOperationSilent(s) ==
    /\ closing[s]
    /\ closing' = [closing EXCEPT ![s] = FALSE]
    /\ selfCloseStreamPos' = [selfCloseStreamPos EXCEPT ![s] = end[s]]
    /\ UNCHANGED <<state, closeSubState, remoteCloseStreamPos, closeTimer, finCallback,
                   queueVars, sending, resetting, reset, late, recvVars, driveVars, net>>

\* What the send queue has been told is received, as an ack position.
AckStreamPos(s) == Min({next[s]} \cup flight[s] \cup lost[s])

(* ... and then SendQueueAddCloseOperation: the position to close at; the  *)
(* send loop is asked for now if all is acked, else by the last ack.       *)
AddCloseOperation(s) ==
    /\ closing[s]
    /\ closing' = [closing EXCEPT ![s] = FALSE]
    /\ selfCloseStreamPos' = [selfCloseStreamPos EXCEPT ![s] = end[s]]
    /\ TrySend(s, IF end[s] = AckStreamPos(s) THEN 1 ELSE 0)
    /\ UNCHANGED <<state, closeSubState, remoteCloseStreamPos, closeTimer, finCallback,
                   queueVars, sending, resetting, reset, late, recvVars, hand, early, net>>

\* Mutant of MaybeCloseFinish: it gives no buffers back.
MaybeCloseFinishKeeps(s) ==
    /\ state' = [state EXCEPT ![s] = IF @ = "CLOSING" THEN "CLOSE" ELSE @]
    /\ UNCHANGED popped

(* PackageConnectionMaybeCloseFinish, once the sub-state is CLOSED; what   *)
(* it does to closeTimer is with its callers.                              *)
MaybeCloseFinish(s) ==
    /\ state' = [state EXCEPT ![s] = IF @ = "CLOSING" THEN "CLOSE" ELSE @]
    /\ popped' = [popped EXCEPT ![s] = IF state[s] = "CLOSING" THEN end[s] ELSE @]

(* PackageConnectionReset: the compare and swap ...                        *)
Reset(s) ==
    /\ s \in Resets
    /\ state[s] = "ESTABLISH"
    /\ state' = [state EXCEPT ![s] = "CLOSING"]
    /\ resetting' = [resetting EXCEPT ![s] = TRUE]
    /\ reset' = [reset EXCEPT ![s] = TRUE]
    /\ UNCHANGED <<closeSubState, selfCloseStreamPos, remoteCloseStreamPos, closeTimer, finCallback,
                   queueVars, sending, closing, late, recvVars, driveVars, net>>

(* ... and then the sub-state is set, whatever the send loop and the       *)
(* dispatch threads have made of it.                                       *)
ResetFinish(s) ==
    /\ resetting[s]
    /\ resetting' = [resetting EXCEPT ![s] = FALSE]
    /\ closeSubState' = [closeSubState EXCEPT ![s] = "CLOSED"]
    /\ MaybeCloseFinish(s)
    /\ closeTimer' = [closeTimer EXCEPT ![s] = IF state[s] = "CLOSING" THEN "none" ELSE @]
    /\ UNCHANGED <<selfCloseStreamPos, remoteCloseStreamPos, finCallback, end, next, flight, lost,
                   sending, closing, reset, late, recvVars, driveVars, net>>

-----------------------------------------------------------------------------
(* The send loop.                                                          *)

\* What LedbatCcTrySendPayload may answer: the window is two mtu at least.
Room(s) == IF Cardinality(flight[s]) < 2 THEN {"mtu"} ELSE {"mtu", "part", "none"}

FinStates == {"NONE", "FIN1", "CLOSING", "WAITCLOSE", "LASTACK"}

FinDue(s, endPos) ==
    /\ state[s] = "CLOSING"
    /\ endPos >= selfCloseStreamPos[s]
    /\ closeSubState[s] \in FinStates

\* Mutant of FinAckDue: a FIN is answered before all up to it is here.
FinAckDueEarly(s) == remoteCloseStreamPos[s] > 0

FinAckDue(s) == remoteCloseStreamPos[s] = AckOf(have[s])

(* PackageConnectionFillPackage: the first lost unit, else the next new    *)
(* one, else none; FIN and FINACK; an ack of its own only if one is due.   *)
(* If there is nothing to send the loop ends.                              *)
Fill(s, room) ==
    LET resend == room = "mtu" /\ lost[s] # {}
        fresh == room = "mtu" /\ lost[s] = {} /\ next[s] < end[s]
        pos == IF resend THEN Min(lost[s]) ELSE next[s]
        len == IF resend \/ fresh THEN 1 ELSE 0
        fin == FinDue(s, pos + len)
        finack == FinAckDue(s)
        due == len = 1 \/ fin \/ finack
    IN
    /\ turns[s] > 0
    /\ hand[s] = None
    /\ lost' = [lost EXCEPT ![s] = @ \ {p \in {pos} : resend}]
    /\ flight' = [flight EXCEPT ![s] = @ \cup {p \in {pos} : len = 1}]
    /\ next' = [next EXCEPT ![s] = IF fresh THEN @ + 1 ELSE @]
    /\ newAck' = [newAck EXCEPT ![s] = @ /\ due]
    /\ early' = [early EXCEPT ![s] = @ \/ (fin /\ pos + len < end[s])]
    /\ IF due \/ newAck[s]
       THEN /\ hand' = [hand EXCEPT ![s] = [to |-> Peer(s), pos |-> pos, len |-> len, fin |-> fin,
                                            finack |-> finack, have |-> have[s], room |-> room]]
            /\ UNCHANGED turns
       ELSE /\ turns' = [turns EXCEPT ![s] = @ - 1]
            /\ UNCHANGED hand
    /\ UNCHANGED <<closeVars, end, popped, callVars, have, handling, net>>

(* A datagram is under way until it is lost, at the latest when the        *)
(* network is full; receiving it leaves it there, so it can come again.    *)
Transmit(m) ==
    IF Cardinality(net \cup {m}) <= NetCapacity
    THEN net' = net \cup {m}
    ELSE \E dropped \in net : net' = (net \ {dropped}) \cup {m}

Lose(m) ==
    /\ net' = net \ {m}
    /\ UNCHANGED <<closeVars, queueVars, callVars, recvVars, driveVars>>

AfterFinSent(sub) ==
    CASE sub = "NONE" -> "FIN1" [] sub = "WAITCLOSE" -> "LASTACK" [] OTHER -> sub

\* Mutants of SendOut: the FIN timer is started for the first FIN only; it is
\* started again with every FIN.
SendOutNoLastAckTimer(s) ==
    LET p == hand[s]
        sub == IF p.fin THEN AfterFinSent(closeSubState[s]) ELSE closeSubState[s]
        ends == state[s] = "CLOSE" \/ p.room = "none" \/ (next[s] = end[s] /\ lost[s] = {})
    IN
    /\ p # None
    /\ hand' = [hand EXCEPT ![s] = None]
    /\ closeSubState' = [closeSubState EXCEPT ![s] = sub]
    /\ closeTimer' = [closeTimer EXCEPT ![s] = IF sub # closeSubState[s] /\ sub = "FIN1" THEN "fin" ELSE @]
    /\ IF state[s] = "CLOSE" THEN UNCHANGED net ELSE Transmit([p EXCEPT !.room = "mtu"])
    /\ turns' = [turns EXCEPT ![s] = IF ends THEN @ - 1 ELSE @]
    /\ UNCHANGED <<state, selfCloseStreamPos, remoteCloseStreamPos, finCallback, queueVars, callVars,
                   recvVars, early>>

SendOutTimerAlways(s) ==
    LET p == hand[s]
        sub == IF p.fin THEN AfterFinSent(closeSubState[s]) ELSE closeSubState[s]
        ends == state[s] = "CLOSE" \/ p.room = "none" \/ (next[s] = end[s] /\ lost[s] = {})
    IN
    /\ p # None
    /\ hand' = [hand EXCEPT ![s] = None]
    /\ closeSubState' = [closeSubState EXCEPT ![s] = sub]
    /\ closeTimer' = [closeTimer EXCEPT ![s] = IF p.fin THEN "fin" ELSE @]
    /\ IF state[s] = "CLOSE" THEN UNCHANGED net ELSE Transmit([p EXCEPT !.room = "mtu"])
    /\ turns' = [turns EXCEPT ![s] = IF ends THEN @ - 1 ELSE @]
    /\ UNCHANGED <<state, selfCloseStreamPos, remoteCloseStreamPos, finCallback, queueVars, callVars,
                   recvVars, early>>

(* PackageConnectionOnPreSendPackage, PackageConnectionSendPackage, and    *)
(* the end of the loop's body: it goes on while there is room for part of  *)
(* a package and something to send.                                        *)
SendOut(s) ==
    LET p == hand[s]
        sub == IF p.fin THEN AfterFinSent(closeSubState[s]) ELSE closeSubState[s]
        ends == state[s] = "CLOSE" \/ p.room = "none" \/ (next[s] = end[s] /\ lost[s] = {})
    IN
    /\ p # None
    /\ hand' = [hand EXCEPT ![s] = None]
    /\ closeSubState' = [closeSubState EXCEPT ![s] = sub]
    /\ closeTimer' = [closeTimer EXCEPT ![s] = IF sub # closeSubState[s] THEN "fin" ELSE @]
    /\ IF state[s] = "CLOSE" THEN UNCHANGED net ELSE Transmit([p EXCEPT !.room = "mtu"])
    /\ turns' = [turns EXCEPT ![s] = IF ends THEN @ - 1 ELSE @]
    /\ UNCHANGED <<state, selfCloseStreamPos, remoteCloseStreamPos, finCallback, queueVars, callVars,
                   recvVars, early>>

-----------------------------------------------------------------------------
(* The dispatch threads.                                                   *)

AfterFin(sub) ==
    CASE sub = "NONE" -> "WAITCLOSE" [] sub = "FIN1" -> "CLOSING" [] sub = "FIN2" -> "TIMEWAIT"
      [] OTHER -> sub

AfterFinAck(sub) ==
    CASE sub = "FIN1" -> "FIN2" [] sub = "CLOSING" -> "TIMEWAIT" [] sub = "LASTACK" -> "CLOSED"
      [] OTHER -> sub

\* Mutant of FinPos: the payload of the package is left out.
FinPosStart(m) == m.pos

\* The position a package with a FIN closes the stream at.
FinPos(m) == m.pos + m.len

(* PackageConnectionPushPackage after the sub-state: the ack, the position *)
(* of the FIN, and the payload.  An ack that confirms a unit, and data or  *)
(* a FIN, each ask for the send loop.                                      *)
Push(m) ==
    LET s == m.to
        blocks == flight[s] \cup lost[s]
        confirmed == m.have \cap blocks
        complete == Min({next[s]} \cup (blocks \ m.have))
        news == m.fin \/ m.len = 1
    IN
    /\ flight' = [flight EXCEPT ![s] = @ \ m.have]
    /\ lost' = [lost EXCEPT ![s] = @ \ m.have]
    /\ popped' = [popped EXCEPT ![s] = IF confirmed = {} THEN @ ELSE Max({@, complete})]
    /\ remoteCloseStreamPos' = [remoteCloseStreamPos EXCEPT ![s] = IF m.fin THEN FinPos(m) ELSE @]
    /\ have' = [have EXCEPT ![s] = @ \cup {p \in {m.pos} : m.len = 1}]
    /\ newAck' = [newAck EXCEPT ![s] = @ \/ news]
    /\ TrySend(s, Cardinality({c \in {"ack", "data"} : IF c = "ack" THEN confirmed # {} ELSE news}))
    /\ UNCHANGED <<state, closeSubState, selfCloseStreamPos, closeTimer, finCallback, end, next, callVars,
                   hand, early, net>>

\* A dispatch thread of the end that is at work on no package.
Free(s, t) == EndOf[t] = s /\ \A w \in handling : w.thread # t

Handles(t, m, step) == handling' = handling \cup {[thread |-> t, m |-> m, step |-> step]}

GoOn(w, step) == handling' = (handling \ {w}) \cup {[w EXCEPT !.step = step]}

\* The FIN, or the FINACK, of a package moves the sub-state of s.
FinMoves(s, m) == m.fin /\ AfterFin(closeSubState[s]) # closeSubState[s]
FinAckMoves(s, m) == m.finack /\ AfterFinAck(closeSubState[s]) # closeSubState[s]

(* A package that leaves the sub-state alone, and always would from now on:*)
(* it has no FIN and no FINACK, or they came before.                       *)
Receive(m, t) ==
    /\ Free(m.to, t)
    /\ ~FinMoves(m.to, m) /\ ~FinAckMoves(m.to, m)
    /\ Push(m)
    /\ UNCHANGED handling

(* PackageConnectionUpdateCloseSubState: the compare and swaps for a FIN,  *)
(* with the whole of Close (whose own race is modelled for the             *)
(* application's call) when the connection is not half open.               *)
UpdateOnFin(m, t) ==
    LET s == m.to
        closes == closeSubState[s] = "NONE" /\ ~HalfOpen /\ state[s] = "ESTABLISH"
    IN
    /\ Free(s, t)
    /\ FinMoves(s, m)
    /\ closeSubState' = [closeSubState EXCEPT ![s] = AfterFin(@)]
    /\ state' = [state EXCEPT ![s] = IF closes THEN "CLOSING" ELSE @]
    /\ selfCloseStreamPos' = [selfCloseStreamPos EXCEPT ![s] = IF closes THEN end[s] ELSE @]
    /\ TrySend(s, IF closes /\ end[s] = AckStreamPos(s) THEN 1 ELSE 0)
    /\ Handles(t, m, IF closeSubState[s] = "FIN2" THEN "begin" ELSE IF m.finack THEN "finack" ELSE "push")
    /\ UNCHANGED <<remoteCloseStreamPos, closeTimer, finCallback, queueVars, callVars, have, newAck,
                   hand, early, net>>

\* What the compare and swap for a FINACK that succeeds is followed by.
AfterSwap(sub) == CASE sub = "FIN2" -> "stop" [] sub = "TIMEWAIT" -> "begin" [] OTHER -> "finish"

(* Those for a FINACK, after those for a FIN of the same package.          *)
UpdateOnFinAck(m, t) ==
    LET s == m.to IN
    /\ Free(s, t)
    /\ ~FinMoves(s, m) /\ FinAckMoves(s, m)
    /\ closeSubState' = [closeSubState EXCEPT ![s] = AfterFinAck(@)]
    /\ Handles(t, m, AfterSwap(closeSubState'[s]))
    /\ UNCHANGED <<state, selfCloseStreamPos, remoteCloseStreamPos, closeTimer, finCallback, queueVars,
                   callVars, have, newAck, driveVars, net>>

UpdateOnFinAckToo(w) ==
    LET s == w.m.to IN
    /\ w.step = "finack"
    /\ closeSubState' = [closeSubState EXCEPT ![s] = AfterFinAck(@)]
    /\ GoOn(w, IF FinAckMoves(s, w.m) THEN AfterSwap(closeSubState'[s]) ELSE "push")
    /\ UNCHANGED <<state, selfCloseStreamPos, remoteCloseStreamPos, closeTimer, finCallback, queueVars,
                   callVars, have, newAck, driveVars, net>>

(* ... and what follows the one that succeeded: FIN2 stops the FIN timer,  *)
(* TIMEWAIT stops it and starts its own.                                   *)
StopCloseTimer(w) ==
    /\ w.step = "stop"
    /\ closeTimer' = [closeTimer EXCEPT ![w.m.to] = "none"]
    /\ GoOn(w, "push")
    /\ UNCHANGED <<state, closeSubState, selfCloseStreamPos, remoteCloseStreamPos, finCallback, queueVars,
                   callVars, have, newAck, driveVars, net>>

BeginTimewaitTimer(w) ==
    /\ w.step = "begin"
    /\ closeTimer' = [closeTimer EXCEPT ![w.m.to] = "timewait"]
    /\ GoOn(w, "push")
    /\ UNCHANGED <<state, closeSubState, selfCloseStreamPos, remoteCloseStreamPos, finCallback, queueVars,
                   callVars, have, newAck, driveVars, net>>

(* CLOSED: the last FIN of this end was answered.                          *)
LastAck(w) ==
    /\ w.step = "finish"
    /\ closeTimer' = [closeTimer EXCEPT ![w.m.to] = "none"]
    /\ MaybeCloseFinish(w.m.to)
    /\ GoOn(w, "push")
    /\ UNCHANGED <<closeSubState, selfCloseStreamPos, remoteCloseStreamPos, finCallback, end, next, flight,
                   lost, callVars, have, newAck, driveVars, net>>

PushHandled(w) ==
    /\ w.step = "push"
    /\ Push(w.m)
    /\ handling' = handling \ {w}

Handle(w) ==
    \/ UpdateOnFinAckToo(w) \/ StopCloseTimer(w) \/ BeginTimewaitTimer(w) \/ LastAck(w) \/ PushHandled(w)

-----------------------------------------------------------------------------
(* The timer thread.                                                       *)

(* The FIN timer fires; closeTimer holds it until a Stop takes it out.     *)
FinTimer(s) ==
    /\ s \in FinTimeouts
    /\ closeTimer[s] = "fin"
    /\ finCallback[s] = "idle"
    /\ finCallback' = [finCallback EXCEPT ![s] = "fired"]
    /\ UNCHANGED <<state, closeSubState, selfCloseStreamPos, remoteCloseStreamPos, closeTimer, queueVars,
                   callVars, recvVars, driveVars, net>>

(* PackageConnectionFinTimerCallback stops whatever timer closeTimer holds *)
(* by now and looks at the sub-state: while the FIN is not answered the    *)
(* send loop sends it again ...                                            *)
FinTimerCallback(s) ==
    /\ finCallback[s] = "fired"
    /\ closeTimer' = [closeTimer EXCEPT ![s] = "none"]
    /\ IF closeSubState[s] \in {"FIN2", "TIMEWAIT", "CLOSED"}
       THEN finCallback' = [finCallback EXCEPT ![s] = "idle"] /\ UNCHANGED turns
       ELSE finCallback' = [finCallback EXCEPT ![s] = "again"] /\ TrySend(s, 1)
    /\ UNCHANGED <<state, closeSubState, selfCloseStreamPos, remoteCloseStreamPos, queueVars, callVars,
                   recvVars, hand, early, net>>

(* ... and the timer is started again, in place of whatever runs by then.  *)
FinTimerRestart(s) ==
    /\ finCallback[s] = "again"
    /\ finCallback' = [finCallback EXCEPT ![s] = "idle"]
    /\ closeTimer' = [closeTimer EXCEPT ![s] = "fin"]
    /\ UNCHANGED <<state, closeSubState, selfCloseStreamPos, remoteCloseStreamPos, queueVars, callVars,
                   recvVars, driveVars, net>>

(* PackageConnectionTimewaitTimerCallback.                                 *)
TimewaitTimer(s) ==
    /\ closeTimer[s] = "timewait"
    /\ closeTimer' = [closeTimer EXCEPT ![s] = "none"]
    /\ closeSubState' = [closeSubState EXCEPT ![s] = "CLOSED"]
    /\ MaybeCloseFinish(s)
    /\ UNCHANGED <<selfCloseStreamPos, remoteCloseStreamPos, finCallback, end, next, flight, lost, callVars,
                   recvVars, driveVars, net>>

\* Mutant of RtoTimer: the units stay on the flight list as well.
RtoTimerCopies(s, old) ==
    /\ state[s] # "CLOSE"
    /\ old \subseteq flight[s] /\ old # {}
    /\ lost' = [lost EXCEPT ![s] = @ \cup old]
    /\ TrySend(s, 1)
    /\ UNCHANGED <<closeVars, end, next, flight, popped, callVars, recvVars, hand, early, net>>

(* PackageConnectionRtoTimerCallback: units in flight for too long.        *)
RtoTimer(s, old) ==
    /\ state[s] # "CLOSE"
    /\ old \subseteq flight[s] /\ old # {}
    /\ flight' = [flight EXCEPT ![s] = @ \ old]
    /\ lost' = [lost EXCEPT ![s] = @ \cup old]
    /\ TrySend(s, 1)
    /\ UNCHANGED <<closeVars, end, next, popped, callVars, recvVars, hand, early, net>>

-----------------------------------------------------------------------------
Next ==
    \/ \E s \in Sides : Send(s) \/ AddBuffer(s) \/ Close(s) \/ AddCloseOperation(s)
    \/ \E s \in Sides : Reset(s) \/ ResetFinish(s)
    \/ \E s \in Sides : \E room \in Room(s) : Fill(s, room)
    \/ \E s \in Sides : SendOut(s)
    \/ \E s \in Sides : FinTimer(s) \/ FinTimerCallback(s) \/ FinTimerRestart(s)
    \/ \E s \in Sides : TimewaitTimer(s)
    \/ \E s \in Sides : \E old \in SUBSET flight[s] : RtoTimer(s, old)
    \/ \E m \in net : \E t \in Threads : Receive(m, t) \/ UpdateOnFin(m, t) \/ UpdateOnFinAck(m, t)
    \/ \E w \in handling : Handle(w)
    \/ \E m \in net : Lose(m)

(* Threads run on and timers fire.  The network does not lose every copy   *)
(* of what is sent again and again: of the payload, the FIN at the end and *)
(* its FINACK, and the acks that are news.                                 *)
Arrives(m) == \E t \in Threads : Receive(m, t) \/ UpdateOnFin(m, t) \/ UpdateOnFinAck(m, t)

Fairness ==
    /\ \A t \in Threads : WF_vars(\E w \in handling : w.thread = t /\ Handle(w))
    /\ \A s \in Sides :
        /\ WF_vars(AddBuffer(s) \/ AddCloseOperation(s) \/ ResetFinish(s))
        /\ WF_vars(SendOut(s) \/ \E room \in Room(s) : Fill(s, room))
        /\ WF_vars(FinTimer(s) \/ FinTimerCallback(s) \/ FinTimerRestart(s) \/ TimewaitTimer(s))
        /\ WF_vars(RtoTimer(s, flight[s]))
        /\ SF_vars(\E m \in net : m.to = s /\ m.fin /\ m.pos + m.len = end[Peer(s)] /\ Arrives(m))
        /\ SF_vars(\E m \in net : m.to = s /\ m.finack /\ Arrives(m))
        /\ SF_vars(\E m \in net : m.to = s /\ m.len = 1 /\ m.pos = AckOf(have[s]) /\ Arrives(m))
        /\ SF_vars(\E m \in net : m.to = s /\ m.have \cap (flight[s] \cup lost[s]) # {} /\ Arrives(m))

Spec == Init /\ [][Next]_vars
FairSpec == Spec /\ Fairness

-----------------------------------------------------------------------------
(* Properties                                                              *)

Package ==
    [to : Sides, pos : Nat, len : {0, 1}, fin : BOOLEAN, finack : BOOLEAN, have : SUBSET Nat,
     room : {"mtu", "part", "none"}]

Handled == [thread : Threads, m : Package, step : {"finack", "stop", "begin", "finish", "push"}]

TypeOK ==
    /\ state \in [Sides -> {"ESTABLISH", "CLOSING", "CLOSE"}]
    /\ closeSubState \in [Sides -> FinStates \cup {"FIN2", "TIMEWAIT", "CLOSED"}]
    /\ closeTimer \in [Sides -> {"none", "fin", "timewait"}]
    /\ \A s \in Sides :
        /\ flight[s] \cup lost[s] \subseteq 1 .. (next[s] - 1)
        /\ flight[s] \cap lost[s] = {}
        /\ next[s] <= end[s] /\ popped[s] <= end[s]
        /\ have[s] \subseteq 1 .. (next[Peer(s)] - 1)
        /\ selfCloseStreamPos[s] <= end[s]
        /\ turns[s] \in 0 .. 2
        /\ hand[s] # None => hand[s] \in Package /\ turns[s] > 0
    /\ finCallback \in [Sides -> {"idle", "fired", "again"}]
    /\ net \subseteq Package
    /\ handling \subseteq Handled

(* A close that finished without a Reset has delivered everything: the     *)
(* send callbacks of MaybeCloseFinish report success for buffers no ack    *)
(* was counted for, and that is true because only a FINACK, which stands   *)
(* for all data up to the FIN, leads here.  The exceptions are the two     *)
(* races of Close: a FIN built before selfCloseStreamPos was set, and a    *)
(* send appended after it.                                                 *)
ClosedMeansReceived ==
    \A s \in Sides :
        state[s] = "CLOSE" /\ ~reset[s] /\ ~early[s] /\ ~late[s] =>
            have[Peer(s)] = 1 .. (end[s] - 1)

(* The FIN is answered only when the ack position is exactly that of the   *)
(* FIN: outside the two races the receiver never gets beyond it, with any  *)
(* reordering of FINs and data.                                            *)
AckStopsAtFin ==
    \A s \in Sides :
        remoteCloseStreamPos[s] > 0 /\ ~early[Peer(s)] /\ ~late[Peer(s)] =>
            AckOf(have[s]) <= remoteCloseStreamPos[s]

(* The callbacks of a closed connection are all called: only a send whose  *)
(* check of the state came before the end and its append after it is left  *)
(* in the queue.                                                           *)
ClosedMeansReported ==
    \A s \in Sides : state[s] = "CLOSE" /\ popped[s] < end[s] => late[s]

(* An unanswered FIN is sent again: the timer runs, or its callback is     *)
(* about to start it, in every sub-state that waits for a FINACK.          *)
FinIsRepeated ==
    \A s \in Sides :
        closeSubState[s] \in {"FIN1", "CLOSING", "LASTACK"} => closeTimer[s] = "fin" \/ finCallback[s] # "idle"

(* When both applications have closed, one end at least gets the answer to *)
(* its FIN, whatever the network loses.  (The other one may be left with   *)
(* an end that is gone.)                                                   *)
SomeFinAnswered ==
    (\A s \in Sides : state[s] # "ESTABLISH") ~>
        (\E s \in Sides : closeSubState[s] \in {"TIMEWAIT", "CLOSED"})

(* TIMEWAIT is the last thing closeTimer is used for: once the thread that *)
(* enters it has started the timer, or is all that is left to start one,   *)
(* no step but the end of the timer takes it away, not a FIN filled before *)
(* and sent after, and not a FIN or FINACK received again.  What can take   *)
(* it away, and leave the connection in TIMEWAIT for good, was under way   *)
(* before: a FIN timer callback, which stops whatever timer it finds, and  *)
(* the Stop of a thread that entered FIN2 when another one entered         *)
(* TIMEWAIT since.                                                         *)
TimewaitAlone(s) ==
    /\ \/ closeTimer[s] = "timewait"
       \/ closeTimer[s] = "none" /\ \E w \in handling : w.m.to = s /\ w.step = "begin"
    /\ finCallback[s] = "idle"
    /\ \A w \in handling : w.m.to = s => w.step # "stop"

TimewaitKept == [][\A s \in Sides : TimewaitAlone(s) => TimewaitAlone(s)' \/ state'[s] = "CLOSE"]_vars

=============================================================================
