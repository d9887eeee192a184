-------------------------- MODULE ConnectionProofs --------------------------
(****************************************************************************)
(* The connection handshake of Connection.tla is safe for every number of   *)
(* threads that deal UDP packages, every choice of connectors and every     *)
(* set of applications that close or reset.                                 *)
(*                                                                          *)
(* The part of the invariant that concerns one end only, LocalInv, is a     *)
(* predicate of its BdtConnection c and of the labels p of its threads, so  *)
(* that what each kind of section does to it is proved once for both ends.  *)
(****************************************************************************)
EXTENDS Connection, SequenceTheorems, TLAPS

Trying == {"tryPackage", "tryStream", "tryStreamAnyway"}
Establishing == {"establishPackage", "establishStream"}
Calling == {"closePackage", "closeStream", "resetPackage", "resetStream"}

Conn == [state : State, provider : {"WAITING", "PACKAGE", "STREAM"},
         calls : SUBSET {"close", "reset"}, callback : BOOLEAN,
         reported : {<<>>, <<"ok">>, <<"error">>}, timeout : BOOLEAN,
         firstAnswer : BOOLEAN, listed : BOOLEAN, anyway : BOOLEAN]

(* Before ESTABLISH there is no provider, no thread that brings one, and   *)
(* nothing was reported; before CONNECTING nobody tries, and without a     *)
(* provider nobody calls one.                                              *)
NothingEarly(c, p) ==
    /\ c.state \in {"NONE", "CONNECTING"} =>
         /\ c.provider = "WAITING"
         /\ c.reported = <<>>
         /\ \A t \in Thread : p[t] \notin Establishing \cup Calling
    /\ c.state = "NONE" => \A t \in Thread : p[t] \notin Trying
    /\ c.provider = "WAITING" => \A t \in Thread : p[t] \notin Calling

(* A connection without its provider has a thread that brings it.          *)
ProviderComes(c, p) ==
    c.state \in {"ESTABLISH", "CLOSING"} /\ c.provider = "WAITING" =>
        \E t \in Thread : p[t] \in Establishing

(* A Close or a Reset has reached the provider or will.                    *)
CloseComes(c, p) ==
    c.state = "CLOSING" =>
        \/ "close" \in c.calls
        \/ \E t \in Thread : p[t] \in Establishing \cup {CloseCall(c.provider)}

ResetComes(c, p) ==
    c.state = "CLOSED" /\ c.provider # "WAITING" =>
        \/ "reset" \in c.calls
        \/ \E t \in Thread : p[t] \in Establishing \cup {ResetCall(c.provider)}

(* The result reported is the one the connection has.                      *)
ReportFits(c) ==
    /\ c.callback => c.reported = <<>>
    /\ c.reported = <<"ok">> => c.provider # "WAITING"
    /\ c.reported = <<"error">> => c.state = "CLOSED"

LocalInv(c, p) ==
    /\ NothingEarly(c, p)
    /\ ProviderComes(c, p)
    /\ CloseComes(c, p)
    /\ ResetComes(c, p)
    /\ ReportFits(c)

(* Nothing that answers the active end exists before the application of    *)
(* the passive end gave its first answer.                                  *)
NoAnswerBefore ==
    ~conn["passive"].firstAnswer =>
        /\ udp \cap {"ack", "ackack"} = {}
        /\ tcpPackages \cap {"ack", "ackack"} = {}
        /\ ~cached /\ ~acceptor.confirmed /\ ackTimer = "off" /\ confirmation = "none"
        /\ \A e \in End : \A t \in Thread : pc[e][t] \notin Trying \cup Establishing
        /\ pc["passive"]["app"] \notin {"cache", "confirm", "sendAck"}
        /\ pc["passive"]["timer"] \notin {"ackType", "resendAck"}
        /\ \A e \in End : conn[e].reported # <<"ok">>

(* The active end tells its application how the connecting ended.          *)
ActiveTold ==
    LET c == conn["active"] IN
    /\ c.state = "CONNECTING" => c.callback
    /\ c.state = "ESTABLISH" =>
         c.reported = <<"ok">> \/ (c.callback /\ c.provider = "WAITING")

(* The thread that connects does nothing else with the connection.         *)
Connecting == {"idle", "connect", "byTunnel", "byBuilder", "sendSyn", "sendReverseSyn",
               "connectTcp", "build", "cancelBuild"}
AppConnects == pc["active"]["app"] \in Connecting

(* The passive end does, or BdtConfirmConnection finds that it came late.  *)
PassiveTold ==
    LET c == conn["passive"]
        asking == pc["passive"]["app"] \in {"cache", "confirm"}
    IN
    /\ c.state = "CONNECTING" /\ c.firstAnswer => asking \/ (confirmation = "ok" /\ c.callback)
    /\ c.state = "ESTABLISH" =>
         \/ c.reported = <<"ok">>
         \/ c.callback /\ c.provider = "WAITING"
         \/ asking
         \/ confirmation = "refused"

PassiveBegins ==
    /\ conn["passive"].firstAnswer => conn["passive"].state # "NONE"
    /\ ~created =>
         /\ conn["passive"].state = "NONE" /\ ~conn["passive"].listed
         /\ ~offered
         /\ \A t \in Thread : pc["passive"][t] = "idle"
    /\ conn["passive"].state = "CONNECTING" => acceptor.type \in {"MAYBE_BUILDER", "REVERSE_STREAM"}

(* A confirmed builder connection is answered by a thread at work, over    *)
(* TCP if that is there, or by the timer that resends the ACK.             *)
AnswerComes ==
    /\ confirmation = "ok"
    /\ conn["passive"].state = "CONNECTING"
    /\ acceptor.type = "MAYBE_BUILDER"
    => IF acceptor.tcp
       THEN \/ pc["passive"]["tcp"] \in {"tcpBound", "tcpBoundNew", "tryStream"}
            \/ pc["passive"]["app"] = "tryStreamAnyway"
       ELSE ackTimer # "off" \/ pc["passive"]["app"] = "sendAck"

-----------------------------------------------------------------------------
(* What the sections do to one end                                         *)

Moved(p, t, l) == [p EXCEPT ![t] = l]

(* A thread that neither brings a provider nor calls one moves on; it may  *)
(* begin to try once the connection is CONNECTING.                         *)
LEMMA MoveLocal ==
  ASSUME NEW c \in Conn, NEW p \in [Thread -> Label], NEW t \in Thread, NEW l \in Label,
         LocalInv(c, p), p[t] \notin Establishing \cup Calling, l \notin Establishing \cup Calling,
         l \in Trying => c.state # "NONE"
  PROVE  LocalInv(c, Moved(p, t, l))
<1> DEFINE q == Moved(p, t, l)
<1>1. q[t] = l /\ \A u \in Thread \ {t} : q[u] = p[u]
  BY DEF Moved
<1> HIDE DEF q
<1>2. \A a : (\E u \in Thread : p[u] \in Establishing \cup {a}) /\ a \in Calling
             => \E u \in Thread : q[u] \in Establishing \cup {a}
  BY <1>1 DEF Calling
<1>3. (\E u \in Thread : p[u] \in Establishing) => \E u \in Thread : q[u] \in Establishing
  BY <1>1
<1>4. NothingEarly(c, q)
  BY <1>1 DEF LocalInv, NothingEarly
<1>5. ProviderComes(c, q)
  BY <1>3 DEF LocalInv, ProviderComes
<1>6. CloseComes(c, q) /\ ResetComes(c, q)
  BY <1>2 DEF LocalInv, CloseComes, ResetComes, CloseCall, ResetCall, Calling
<1> QED
  BY <1>4, <1>5, <1>6 DEF LocalInv, q

(* Of a connection only listed, timeout, firstAnswer or the callback       *)
(* change.                                                                 *)
LEMMA NoteLocal ==
  ASSUME NEW c \in Conn, NEW d \in Conn, NEW p \in [Thread -> Label], LocalInv(c, p),
         d.state = c.state, d.provider = c.provider, d.calls = c.calls, d.reported = c.reported,
         d.callback => c.callback \/ c.reported = <<>>
  PROVE  LocalInv(d, p)
BY DEF LocalInv, NothingEarly, ProviderComes, CloseComes, ResetComes, ReportFits

(* NONE becomes CONNECTING.                                                *)
LEMMA BeginLocal ==
  ASSUME NEW c \in Conn, NEW d \in Conn, NEW p \in [Thread -> Label], LocalInv(c, p),
         c.state \in {"NONE", "CONNECTING"}, d.state = "CONNECTING",
         d.provider = c.provider, d.calls = c.calls, d.reported = c.reported
  PROVE  LocalInv(d, p)
BY DEF LocalInv, NothingEarly, ProviderComes, CloseComes, ResetComes, ReportFits

(* A connection without a provider is closed, with or without a report.    *)
LEMMA EndLocal ==
  ASSUME NEW c \in Conn, NEW d \in Conn, NEW p \in [Thread -> Label], LocalInv(c, p),
         c.state \in {"NONE", "CONNECTING"}, d.state = "CLOSED",
         d.provider = c.provider, d.reported \in {<<>>, <<"error">>}, ~d.callback
  PROVE  LocalInv(d, p)
<1>1. <<>> # <<"ok">> /\ <<"error">> # <<"ok">>
  OBVIOUS
<1> QED
  BY <1>1 DEF LocalInv, NothingEarly, ProviderComes, CloseComes, ResetComes, ReportFits

(* BdtConnectionClose and BdtConnectionReset with a provider, or with one  *)
(* that comes.                                                             *)
LEMMA CloseLocal ==
  ASSUME NEW c \in Conn, NEW d \in Conn, NEW p \in [Thread -> Label], NEW q \in [Thread -> Label],
         NEW l \in Calling, LocalInv(c, p), p["user"] = "idle",
         d.provider = c.provider, d.calls = c.calls, d.reported = c.reported,
         d.callback => c.callback, c.reported # <<"error">>,
         \/ l = CloseCall(c.provider) /\ c.state = "ESTABLISH" /\ d.state = "CLOSING"
         \/ l = ResetCall(c.provider) /\ c.state \in {"ESTABLISH", "CLOSING"} /\ d.state = "CLOSED",
         q = IF c.provider = "WAITING" THEN p ELSE Moved(p, "user", l)
  PROVE  LocalInv(d, q)
<1>1. "user" \in Thread
  BY DEF Thread
<1>2. NothingEarly(d, q) /\ ReportFits(d)
  BY DEF LocalInv, NothingEarly, ReportFits
<1>3. CASE c.provider = "WAITING"
  BY <1>2, <1>3 DEF LocalInv, ProviderComes, CloseComes, ResetComes
<1>4. CASE c.provider # "WAITING"
  <2>1. q["user"] = l
    BY <1>1, <1>4 DEF Moved
  <2> QED
    BY <1>1, <1>2, <1>4, <2>1 DEF LocalInv, ProviderComes, CloseComes, ResetComes
<1> QED
  BY <1>3, <1>4

(* Bdt_ConnectionTryEnterEstablish succeeds.                               *)
LEMMA EnterLocal ==
  ASSUME NEW c \in Conn, NEW d \in Conn, NEW p \in [Thread -> Label], NEW t \in Thread,
         NEW l \in Establishing, LocalInv(c, p), c.state = "CONNECTING", d.state = "ESTABLISH",
         d.provider = "WAITING", d.reported = c.reported, d.callback = c.callback
  PROVE  LocalInv(d, Moved(p, t, l))
<1> DEFINE q == Moved(p, t, l)
<1>1. q[t] \in Establishing /\ \A u \in Thread \ {t} : q[u] = p[u]
  BY DEF Moved
<1> HIDE DEF q
<1>2. <<>> # <<"ok">> /\ <<>> # <<"error">>
  OBVIOUS
<1>3. \A u \in Thread : q[u] \notin Calling
  BY <1>1 DEF LocalInv, NothingEarly, Establishing, Calling
<1> QED
  BY <1>1, <1>2, <1>3 DEF q, LocalInv, NothingEarly, ProviderComes, CloseComes, ResetComes, ReportFits

(* It fails, and a provider is brought all the same.                       *)
LEMMA AnywayLocal ==
  ASSUME NEW c \in Conn, NEW p \in [Thread -> Label], NEW t \in Thread,
         NEW l \in Establishing, LocalInv(c, p), c.state # "CONNECTING", p[t] \in Trying
  PROVE  LocalInv(c, Moved(p, t, l))
<1> DEFINE q == Moved(p, t, l)
<1>1. q[t] \in Establishing /\ \A u \in Thread \ {t} : q[u] = p[u]
  BY DEF Moved
<1> HIDE DEF q
<1>2. c.state \notin {"NONE", "CONNECTING"}
  BY DEF LocalInv, NothingEarly
<1>3. c.provider = "WAITING" => \A u \in Thread : q[u] \notin Calling
  BY <1>1 DEF LocalInv, NothingEarly, Establishing, Calling
<1> QED
  BY <1>1, <1>2, <1>3 DEF q, LocalInv, NothingEarly, ProviderComes, CloseComes, ResetComes, ReportFits

(* A result is reported at most once.                                      *)
LEMMA ReportOnce ==
  ASSUME NEW c \in Conn, ReportFits(c), NEW r \in {"ok", "error"}
  PROVE  /\ Report(c, r) = IF c.callback THEN <<r>> ELSE c.reported
         /\ c.reported = <<>> => Report(c, r) \in {<<>>, <<r>>}
<1>1. Append(<<>>, r) = <<r>>
  OBVIOUS
<1>2. c.callback => Append(c.reported, r) = <<r>>
  BY <1>1, Zenon DEF ReportFits
<1>3. Report(c, r) = IF c.callback THEN <<r>> ELSE c.reported
  BY <1>2 DEF Report
<1> QED
  BY <1>3

(* The section of Bdt_ConnectionEstablishWithPackage and ...WithStream: it *)
(* takes over a Close or Reset that came before it.                        *)
LEMMA ProvideLocal ==
  ASSUME NEW c \in Conn, NEW p \in [Thread -> Label], NEW t \in Thread, p[t] \in Establishing,
         NEW kind \in {"PACKAGE", "STREAM"}, LocalInv(c, p)
  PROVE  /\ Provided(c, kind) \in Conn
         /\ Settle(c.state, kind) \in Label
         /\ LocalInv(Provided(c, kind), Moved(p, t, Settle(c.state, kind)))
<1> DEFINE d == Provided(c, kind)
           q == Moved(p, t, Settle(c.state, kind))
<1>1. c.state \in {"ESTABLISH", "CLOSING", "CLOSED"}
  BY DEF LocalInv, NothingEarly, Conn, State
<1>2. /\ d.state = c.state /\ d.provider = kind /\ d.calls = {} /\ d.callback = FALSE
      /\ d.timeout = c.timeout /\ d.firstAnswer = c.firstAnswer /\ d.listed = c.listed
      /\ d.reported = IF c.state = "ESTABLISH" THEN Report(c, "ok") ELSE c.reported
  BY DEF Provided, Conn
<1>3. d.reported = IF c.state = "ESTABLISH" /\ c.callback THEN <<"ok">> ELSE c.reported
  BY <1>2, ReportOnce DEF LocalInv
<1>4. d \in Conn
  BY <1>2, <1>3 DEF Provided, Conn
<1>5. Settle(c.state, kind) \in Label
  BY <1>1 DEF Settle, CloseCall, ResetCall, Label
<1>6. q[t] = Settle(c.state, kind)
  BY DEF Moved
<1> HIDE DEF d, q
<1>7. NothingEarly(d, q) /\ ProviderComes(d, q)
  BY <1>1, <1>2 DEF NothingEarly, ProviderComes
<1>8. CloseComes(d, q) /\ ResetComes(d, q)
  BY <1>1, <1>2, <1>6 DEF CloseComes, ResetComes, Settle
<1>9. ReportFits(d)
  <2>1. <<"ok">> # <<"error">> /\ kind # "WAITING"
    OBVIOUS
  <2> QED
    BY <1>1, <1>2, <1>3, <2>1 DEF LocalInv, ReportFits
<1> QED
  BY <1>4, <1>5, <1>7, <1>8, <1>9 DEF LocalInv, d, q

(* The provider is called; the call of one that was replaced by another of *)
(* the other type changes nothing.                                         *)
LEMMA CallLocal ==
  ASSUME NEW c \in Conn, NEW d \in Conn, NEW p \in [Thread -> Label], NEW t \in Thread,
         LocalInv(c, p), d.state = c.state, d.provider = c.provider, p[t] \in Calling,
         d.reported = c.reported, d.callback = c.callback,
         \/ p[t] = CloseCall(c.provider) /\ d.calls = c.calls \cup {"close"}
         \/ p[t] = ResetCall(c.provider) /\ d.calls = c.calls \cup {"reset"}
         \/ p[t] \notin {CloseCall(c.provider), ResetCall(c.provider)} /\ d.calls = c.calls
  PROVE  LocalInv(d, Moved(p, t, "idle"))
<1> DEFINE q == Moved(p, t, "idle")
<1>1. q[t] = "idle" /\ \A u \in Thread \ {t} : q[u] = p[u]
  BY DEF Label, Moved
<1> HIDE DEF q
<1>2. p[t] \notin Establishing \cup Trying
  BY DEF Calling, Establishing, Trying
<1>3. NothingEarly(d, q) /\ ReportFits(d)
  BY <1>1 DEF LocalInv, NothingEarly, ReportFits, Establishing, Trying, Calling
<1>4. ProviderComes(d, q)
  BY <1>1, <1>2 DEF LocalInv, ProviderComes
<1>5. CloseCall(c.provider) # ResetCall(c.provider)
  BY DEF CloseCall, ResetCall
<1>6. CloseComes(d, q)
  BY <1>1, <1>2, <1>5 DEF LocalInv, CloseComes
<1>7. ResetComes(d, q)
  BY <1>1, <1>2, <1>5 DEF LocalInv, ResetComes
<1> QED
  BY <1>3, <1>4, <1>6, <1>7 DEF q, LocalInv

-----------------------------------------------------------------------------
(* One lemma per action                                                    *)

Locals == \A e \in End : LocalInv(conn[e], pc[e])

(* An end an action does not touch keeps its part.                         *)
LEMMA OtherEnd ==
  ASSUME Locals, NEW e \in End, LocalInv(conn'[e], pc'[e]),
         \A f \in End \ {e} : conn'[f] = conn[f] /\ pc'[f] = pc[f]
  PROVE  Locals'
<1> SUFFICES ASSUME NEW f \in End PROVE LocalInv(conn'[f], pc'[f])
  BY DEF Locals
<1>1. CASE f = e
  BY <1>1
<1>2. CASE f # e
  BY <1>2 DEF Locals
<1> QED
  BY <1>1, <1>2

AcceptorRec == [type : {"NULL", "FREED", "MAYBE_BUILDER", "REVERSE_STREAM"},
                tcp : BOOLEAN, confirmed : BOOLEAN]

(* The acceptors the actions make.                                         *)
LEMMA AcceptorTypes ==
  /\ NoAcceptor \in AcceptorRec
  /\ \A type \in {"FREED", "MAYBE_BUILDER", "REVERSE_STREAM"}, s \in BOOLEAN :
       /\ Acceptor(type, s) \in AcceptorRec
       /\ Acceptor(type, s).type = type
       /\ Acceptor(type, s).tcp = s
       /\ ~Acceptor(type, s).confirmed
BY DEF NoAcceptor, Acceptor, AcceptorRec

Types ==
    /\ conn \in [End -> Conn]
    /\ connector \in ConnectorType \cup {"NULL", "FREED"}
    /\ acceptor \in AcceptorRec
    /\ pc \in [End -> [Thread -> Label]]
    /\ builder \in {"none", "building", "idle"}
    /\ created \in BOOLEAN /\ offered \in BOOLEAN /\ cached \in BOOLEAN
    /\ waiting \in BOOLEAN /\ refused \in BOOLEAN /\ crashed \in BOOLEAN
    /\ synTimer \in {"off", "package", "reverse"}
    /\ confirmation \in {"none", "ok", "refused"}
    /\ ackTimer \in {"off", "armed", "failed"}
    /\ udp \subseteq {"syn", "ack", "ackack", "reverseSyn"}
    /\ tcp \in {"none", "connecting", "building", "up", "broken"}
    /\ tcpPackages \subseteq {"syn", "ack", "ackack"}

(* Types is the type invariant, with one conjunct for each variable.        *)
LEMMA TypesSame == TypeOK <=> Types
BY DEF TypeOK, Types, Conn, AcceptorRec

Inv ==
    /\ Types
    /\ Locals
    /\ NoAnswerBefore
    /\ ActiveTold
    /\ AppConnects
    /\ PassiveTold
    /\ PassiveBegins
    /\ AnswerComes

(* The two ends and the threads the lemmas name.                           *)
LEMMA Names ==
  /\ "active" \in End /\ "passive" \in End /\ \A e \in End : e = "active" \/ e = "passive"
  /\ {"app", "user", "tcp", "timer"} \subseteq Thread /\ Dispatchers \subseteq Thread
  /\ \A t \in Dispatchers : t \notin {"app", "user", "tcp", "timer"}
BY ConnectionAssumption DEF ConnectionAssumption, End, Thread

(* The label of one thread changes.                                        *)
LEMMA Goes ==
  ASSUME Types, NEW e \in End, NEW t \in Thread, NEW l \in Label, Goto(e, t, l)
  PROVE  /\ pc' \in [End -> [Thread -> Label]]
         /\ pc[e] \in [Thread -> Label]
         /\ pc'[e] = Moved(pc[e], t, l)
         /\ pc'[e][t] = l
         /\ \A u \in Thread \ {t} : pc'[e][u] = pc[e][u]
         /\ \A f \in End \ {e} : pc'[f] = pc[f]
<1>1. pc \in [End -> [Thread -> Label]] /\ pc' = [pc EXCEPT ![e][t] = l]
  BY DEF Types, Goto
<1>2. pc[e] \in [Thread -> Label]
  BY <1>1
<1>3. [pc[e] EXCEPT ![t] = l] \in [Thread -> Label]
  BY <1>2
<1> QED
  BY <1>1, <1>2, <1>3 DEF Moved

(* The connection of one end changes.                                      *)
LEMMA Becomes ==
  ASSUME Types, NEW e \in End, NEW d \in Conn, conn' = [conn EXCEPT ![e] = d]
  PROVE  /\ conn' \in [End -> Conn]
         /\ conn'[e] = d
         /\ \A f \in End \ {e} : conn'[f] = conn[f]
BY DEF Types

(* A step of the active end alone.                                         *)
LEMMA ActiveEndStep ==
  ASSUME Inv, Types', conn'["passive"] = conn["passive"], pc'["passive"] = pc["passive"],
         UNCHANGED <<acceptor, created, offered, cached, confirmation, ackTimer>>,
         LocalInv(conn'["active"], pc'["active"]), ActiveTold', AppConnects',
         ~conn["passive"].firstAnswer =>
           /\ udp' \cap {"ack", "ackack"} = {}
           /\ tcpPackages' \cap {"ack", "ackack"} = {}
           /\ \A t \in Thread : pc'["active"][t] \notin Trying \cup Establishing
           /\ conn'["active"].reported # <<"ok">>
  PROVE  Inv'
<1> USE Names
<1>1. Locals'
  BY OtherEnd DEF Inv
<1>2. NoAnswerBefore'
  BY DEF Inv, NoAnswerBefore
<1>3. PassiveTold' /\ PassiveBegins' /\ AnswerComes'
  BY DEF Inv, PassiveTold, PassiveBegins, AnswerComes
<1> QED
  BY <1>1, <1>2, <1>3 DEF Inv

(* A step of the passive end alone.                                        *)
LEMMA PassiveEndStep ==
  ASSUME Inv, Types', conn'["active"] = conn["active"], pc'["active"] = pc["active"],
         LocalInv(conn'["passive"], pc'["passive"]),
         NoAnswerBefore', PassiveTold', PassiveBegins', AnswerComes'
  PROVE  Inv'
<1>1. Locals'
  BY Names, OtherEnd DEF Inv
<1>2. ActiveTold' /\ AppConnects'
  BY DEF Inv, ActiveTold, AppConnects
<1> QED
  BY <1>1, <1>2 DEF Inv

(* BdtConnectionConnect *)
LEMMA ConnectInv == ASSUME Inv, Connect PROVE Inv'
<1> USE Names
<1> DEFINE c == conn["active"]
           d == [c EXCEPT !.state = "CONNECTING", !.callback = TRUE]
<1>1. /\ c.state = "NONE"
      /\ conn' = [conn EXCEPT !["active"] = d]
      /\ Goto("active", "app", "connect")
      /\ UNCHANGED <<connector, acceptor, created, offered, cached, confirmation, ackTimer,
                     synTimer, builder, waiting, refused, udp, tcp, tcpPackages, crashed>>
  BY DEF Connect, passiveVars, activeVars, netVars
<1>2. Types /\ "connect" \in Label /\ c \in Conn
  BY DEF Inv, Types, Label
<1>3. d \in Conn
  BY <1>2 DEF Conn, State
<1>4. /\ d.state = "CONNECTING" /\ d.callback = TRUE /\ d.provider = c.provider
      /\ d.calls = c.calls /\ d.reported = c.reported
  BY <1>2 DEF Conn
<1> HIDE DEF d, c
<1>5. /\ conn' \in [End -> Conn]
      /\ conn'["active"] = d /\ conn'["passive"] = conn["passive"]
  BY <1>1, <1>2, <1>3, Becomes DEF c
<1>6. /\ pc' \in [End -> [Thread -> Label]]
      /\ pc["active"] \in [Thread -> Label]
      /\ pc'["active"] = Moved(pc["active"], "app", "connect")
      /\ pc'["passive"] = pc["passive"]
      /\ pc'["active"]["app"] = "connect"
      /\ \A t \in Thread : pc'["active"][t] = "connect" \/ pc'["active"][t] = pc["active"][t]
  BY <1>1, <1>2, Goes
<1>7. Types'
  BY <1>1, <1>2, <1>5, <1>6 DEF Types
<1>8. LocalInv(d, pc'["active"])
  <2>1. LocalInv(c, pc["active"]) /\ pc["active"]["app"] \notin Establishing \cup Calling
    BY <1>1 DEF Inv, Locals, LocalInv, NothingEarly, c
  <2>2. LocalInv(c, pc'["active"])
    BY <1>2, <1>6, <2>1, MoveLocal DEF Trying, Establishing, Calling
  <2> QED
    BY <1>1, <1>2, <1>3, <1>4, <1>6, <2>2, BeginLocal
<1>9. ActiveTold' /\ AppConnects'
  BY <1>4, <1>5, <1>6 DEF ActiveTold, AppConnects, Connecting
<1> QED
  BY <1>1, <1>4, <1>5, <1>6, <1>7, <1>8, <1>9, ActiveEndStep, ZenonT(60)
     DEF Inv, NoAnswerBefore, Trying, Establishing, c

(* A thread of the active end moves on without a look at an answer.        *)
LEMMA ActiveMove ==
  ASSUME Inv, NEW t \in {"app", "timer"}, NEW l \in Connecting \cup {"resendSyn"},
         t = "app" => l \in Connecting, Goto("active", t, l),
         pc["active"][t] \notin Establishing \cup Calling,
         NEW d \in Conn, conn' = [conn EXCEPT !["active"] = d], d.state = conn["active"].state,
         d.callback = conn["active"].callback, d.provider = conn["active"].provider,
         d.calls = conn["active"].calls, d.reported = conn["active"].reported,
         connector' \in ConnectorType \cup {"NULL", "FREED"},
         synTimer' \in {"off", "package", "reverse"}, builder' \in {"none", "building", "idle"},
         waiting' \in BOOLEAN, refused' \in BOOLEAN, crashed' \in BOOLEAN,
         udp' \subseteq udp \cup {"syn", "reverseSyn"}, tcp' \in {tcp, "connecting", "building", "broken"},
         UNCHANGED <<acceptor, created, offered, cached, confirmation, ackTimer, tcpPackages>>
  PROVE  Inv'
<1> USE Names
<1> DEFINE c == conn["active"]
<1>1. /\ Types /\ l \in Label /\ c \in Conn /\ t \in Thread
      /\ l \notin Trying \cup Establishing \cup Calling
  BY DEF Inv, Types, Connecting, Label, Trying, Establishing, Calling
<1>2. /\ conn' \in [End -> Conn]
      /\ conn'["active"] = d /\ conn'["passive"] = conn["passive"]
  BY <1>1, Becomes
<1>3. /\ pc' \in [End -> [Thread -> Label]]
      /\ pc["active"] \in [Thread -> Label]
      /\ pc'["active"] = Moved(pc["active"], t, l)
      /\ pc'["passive"] = pc["passive"]
      /\ pc'["active"]["app"] \in {pc["active"]["app"]} \cup Connecting
      /\ \A u \in Thread : pc'["active"][u] = l \/ pc'["active"][u] = pc["active"][u]
  BY <1>1, Goes
<1>4. Types'
  BY <1>1, <1>2, <1>3 DEF Types
<1>5. LocalInv(d, pc'["active"])
  <2>1. LocalInv(c, pc["active"])
    BY DEF Inv, Locals
  <2>2. LocalInv(c, pc'["active"])
    BY <1>1, <1>3, <2>1, MoveLocal
  <2> QED
    BY <1>1, <1>3, <2>2, NoteLocal
<1>6. ActiveTold' /\ AppConnects'
  BY <1>2, <1>3 DEF Inv, ActiveTold, AppConnects
<1>7. ~conn["passive"].firstAnswer =>
         /\ udp' \cap {"ack", "ackack"} = {}
         /\ \A u \in Thread : pc'["active"][u] \notin Trying \cup Establishing
         /\ conn'["active"].reported # <<"ok">>
  BY <1>1, <1>2, <1>3 DEF Inv, NoAnswerBefore
<1> QED
  BY <1>2, <1>3, <1>4, <1>5, <1>6, <1>7, ActiveEndStep DEF Inv, NoAnswerBefore

(* The same when the connection stays as it is.                            *)
LEMMA ActiveGoes ==
  ASSUME Inv, NEW t \in {"app", "timer"}, NEW l \in Connecting \cup {"resendSyn"},
         t = "app" => l \in Connecting, Goto("active", t, l),
         pc["active"][t] \in Connecting \cup {"resendSyn"},
         synTimer' \in {"off", "package", "reverse"}, builder' \in {"none", "building", "idle"},
         waiting' \in BOOLEAN, refused' \in BOOLEAN, crashed' \in BOOLEAN,
         udp' \subseteq udp \cup {"syn", "reverseSyn"}, tcp' \in {tcp, "connecting", "building", "broken"},
         UNCHANGED <<conn, connector, acceptor, created, offered, cached, confirmation, ackTimer, tcpPackages>>
  PROVE  Inv'
<1>1. Types /\ conn["active"] \in Conn
  BY Names DEF Inv, Types
<1>2. conn' = [conn EXCEPT !["active"] = conn["active"]]
  BY <1>1 DEF Types
<1>3. pc["active"][t] \notin Establishing \cup Calling
  BY DEF Connecting, Establishing, Calling
<1>4. connector' \in ConnectorType \cup {"NULL", "FREED"}
  BY <1>1 DEF Types
<1> QED
  BY <1>1, <1>2, <1>3, <1>4, ActiveMove

(* No thread moves and no connection changes.                              *)
LEMMA OnlyAround ==
  ASSUME Inv, Types',
         UNCHANGED <<conn, pc, acceptor, created, offered, cached, confirmation, ackTimer, udp>>,
         ~conn["passive"].firstAnswer => tcpPackages' \cap {"ack", "ackack"} = {}
  PROVE  Inv'
<1>1. LocalInv(conn["active"], pc["active"])
  BY Names DEF Inv, Locals
<1>2. ActiveTold' /\ AppConnects'
  BY DEF Inv, ActiveTold, AppConnects
<1> QED
  BY <1>1, <1>2, ActiveEndStep, Names DEF Inv, NoAnswerBefore

(* BdtTunnel_ConnectConnection *)
LEMMA ConnectConnectionInv == ASSUME Inv, ConnectConnection PROVE Inv'
<1>1. /\ pc["active"]["app"] = "connect"
      /\ UNCHANGED <<conn, connector, acceptor, created, offered, cached, confirmation, ackTimer,
                     synTimer, udp, tcp, tcpPackages, crashed>>
  BY DEF ConnectConnection, At, passiveVars, netVars
<1>2. /\ builder \in {"none", "building", "idle"} /\ waiting \in BOOLEAN /\ refused \in BOOLEAN
      /\ synTimer \in {"off", "package", "reverse"} /\ crashed \in BOOLEAN
  BY DEF Inv, Types
<1>3. {"idle", "connect", "byTunnel", "byBuilder"} \subseteq Connecting
  BY DEF Connecting
<1>4. PICK l \in {"idle", "byTunnel", "byBuilder"} :
        /\ Goto("active", "app", l)
        /\ builder' \in {"none", "building", "idle"} /\ waiting' \in BOOLEAN /\ refused' \in BOOLEAN
  BY <1>2 DEF ConnectConnection, Chosen
<1> QED
  BY <1>1, <1>2, <1>3, <1>4, ActiveGoes

(* TunnelContainerResetBuilder *)
LEMMA ResetBuilderInv == ASSUME Inv, ResetBuilder PROVE Inv'
<1>1. /\ UNCHANGED <<conn, connector, acceptor, created, offered, cached, confirmation, ackTimer,
                     synTimer, refused, udp, tcp, tcpPackages, crashed>>
      /\ waiting' \in BOOLEAN
  BY DEF ResetBuilder, passiveVars, netVars
<1>2. CASE \E by \in {"byTunnel", "byBuilder"} : Chosen(by)
  <2>1. PICK by \in {"byTunnel", "byBuilder"} : Chosen(by)
    BY <1>2
  <2>2. by \in Connecting /\ pc["active"]["app"] \in Connecting
    BY DEF Inv, AppConnects, Connecting
  <2>3. synTimer \in {"off", "package", "reverse"} /\ refused \in BOOLEAN /\ crashed \in BOOLEAN
    BY DEF Inv, Types
  <2> QED
    BY <1>1, <2>1, <2>2, <2>3, ActiveGoes DEF Chosen
<1>3. CASE builder' = "none" /\ UNCHANGED pc
  <2>1. Types'
    BY <1>1, <1>3 DEF Inv, Types
  <2> QED
    BY <1>1, <1>3, <2>1, OnlyAround DEF Inv, NoAnswerBefore
<1> QED
  BY <1>2, <1>3 DEF ResetBuilder

(* TunnelContainerBuildTunnelForAcceptConnection, ConnectionOnSendSynTimer *)
(* and ConnectionOnTcpEstablish.                                           *)
LEMMA AroundInv ==
  ASSUME Inv,
         \/ \E answer \in SnCalled : BuildTunnelForAcceptConnection(answer)
         \/ SynTimer
         \/ TcpEstablish
  PROVE  Inv'
<1>1. CASE \E answer \in SnCalled : BuildTunnelForAcceptConnection(answer)
  <2>1. /\ builder' \in {"building", "idle"}
        /\ UNCHANGED <<conn, connector, acceptor, pc, created, offered, cached, confirmation, ackTimer,
                       synTimer, waiting, refused, udp, tcp, tcpPackages, crashed>>
    BY <1>1 DEF BuildTunnelForAcceptConnection, passiveVars, netVars
  <2>2. Types'
    BY <2>1 DEF Inv, Types
  <2> QED
    BY <2>1, <2>2, OnlyAround DEF Inv, NoAnswerBefore
<1>2. CASE SynTimer
  <2>1. /\ synTimer' = "off" /\ crashed' \in BOOLEAN
        /\ UNCHANGED <<conn, connector, acceptor, pc, created, offered, cached, confirmation, ackTimer,
                       builder, waiting, refused, udp, tcp, tcpPackages>>
    BY <1>2 DEF SynTimer, passiveVars, netVars
  <2>2. Types'
    BY <2>1 DEF Inv, Types
  <2> QED
    BY <2>1, <2>2, OnlyAround DEF Inv, NoAnswerBefore
<1>3. CASE TcpEstablish
  <2>1. /\ tcp' = "up"
        /\ tcpPackages' \in {{"syn"}, {"ack"}, {}}
        /\ tcpPackages' = {"ack"} => acceptor.confirmed
        /\ UNCHANGED <<conn, connector, acceptor, pc, created, offered, cached, confirmation, ackTimer,
                       synTimer, builder, waiting, refused, udp, crashed>>
    BY <1>3 DEF TcpEstablish, passiveVars, activeVars
  <2>2. Types'
    BY <2>1 DEF Inv, Types
  <2>3. ~conn["passive"].firstAnswer => tcpPackages' \in {{"syn"}, {}}
    BY <2>1 DEF Inv, NoAnswerBefore
  <2> QED
    BY <2>1, <2>2, <2>3, OnlyAround
<1> QED
  BY <1>1, <1>2, <1>3

(* ConnectionTryEnterConnecting, for Bdt_ConnectionConnectWithPackage,     *)
(* -Stream and -Builder.                                                   *)
LEMMA ConnectWithInv ==
  ASSUME Inv, NEW type \in Connectors, ConnectWith(type)
  PROVE  Inv'
<1> USE Names
<1> DEFINE c == conn["active"]
           d == [c EXCEPT !.timeout = TRUE]
<1>1. Types /\ c \in Conn /\ type \in ConnectorType
  BY ConnectionAssumption DEF Inv, Types, ConnectionAssumption
<1>2. /\ conn' = [conn EXCEPT !["active"] = d]
      /\ UNCHANGED <<acceptor, created, offered, cached, confirmation, ackTimer, synTimer,
                     builder, waiting, refused, udp, tcp, tcpPackages, crashed>>
  BY <1>1 DEF ConnectWith, Types, passiveVars, activeVars, netVars
<1>3. d \in Conn
  BY <1>1 DEF Conn
<1>4. /\ d.state = c.state /\ d.callback = c.callback /\ d.provider = c.provider
      /\ d.calls = c.calls /\ d.reported = c.reported
  BY <1>1 DEF Conn
<1> HIDE DEF d, c
<1>5. PICK l \in {"idle", "build", "sendSyn", "sendReverseSyn", "connectTcp"} :
        Goto("active", "app", l) /\ connector' \in {connector, type}
  BY <1>1 DEF ConnectWith, Begins, ConnectorType
<1>6. l \in Connecting /\ connector' \in ConnectorType \cup {"NULL", "FREED"}
  BY <1>1, <1>5 DEF Types, Connecting
<1>7. /\ pc["active"]["app"] \notin Establishing \cup Calling
  BY DEF Inv, AppConnects, Connecting, Establishing, Calling
<1>8. /\ synTimer \in {"off", "package", "reverse"} /\ builder \in {"none", "building", "idle"}
      /\ waiting \in BOOLEAN /\ refused \in BOOLEAN /\ crashed \in BOOLEAN
  BY <1>1 DEF Types
<1> QED
  BY <1>2, <1>3, <1>4, <1>5, <1>6, <1>7, <1>8, ActiveMove DEF c

(* ConnectionSendSyn and ConnectionSendTcpReverseSyn, the connect over TCP *)
(* and the start and the cancelling of a tunnel builder.                   *)
LEMMA BeginsInv ==
  ASSUME Inv, SendSyn \/ ConnectTcp \/ StartBuilder \/ CancelBuild
  PROVE  Inv'
<1>1. /\ synTimer \in {"off", "package", "reverse"} /\ builder \in {"none", "building", "idle"}
      /\ waiting \in BOOLEAN /\ refused \in BOOLEAN /\ crashed \in BOOLEAN
  BY DEF Inv, Types
<1>2. pc["active"]["app"] \in Connecting /\ {"idle", "cancelBuild"} \subseteq Connecting
  BY DEF Inv, AppConnects, Connecting
<1>3. PICK l \in {"idle", "cancelBuild"} :
        /\ Goto("active", "app", l)
        /\ synTimer' \in {"off", "package", "reverse"} /\ crashed' \in BOOLEAN
        /\ udp' \subseteq udp \cup {"syn", "reverseSyn"}
        /\ tcp' \in {tcp, "connecting", "building", "broken"}
        /\ UNCHANGED <<conn, connector, acceptor, created, offered, cached, confirmation, ackTimer,
                       builder, waiting, refused, tcpPackages>>
  <2>1. CASE SendSyn
    BY <2>1 DEF SendSyn, passiveVars
  <2>2. CASE ConnectTcp
    BY <1>1, <2>2 DEF ConnectTcp, passiveVars, activeVars
  <2>3. CASE StartBuilder
    BY <1>1, <2>3 DEF StartBuilder, passiveVars, activeVars
  <2>4. CASE CancelBuild
    BY <1>1, <2>4 DEF CancelBuild, passiveVars, activeVars
  <2> QED
    BY <2>1, <2>2, <2>3, <2>4
<1> QED
  BY <1>1, <1>2, <1>3, ActiveGoes

(* ConnectionOnSendTcpReverseSynTimer *)
LEMMA ReverseSynInv ==
  ASSUME Inv, ReverseSynTimer \/ ResendReverseSyn
  PROVE  Inv'
<1>1. /\ synTimer \in {"off", "package", "reverse"} /\ builder \in {"none", "building", "idle"}
      /\ waiting \in BOOLEAN /\ refused \in BOOLEAN /\ crashed \in BOOLEAN
  BY DEF Inv, Types
<1>2. "idle" \in Connecting
  BY DEF Connecting
<1>3. CASE ReverseSynTimer /\ Goto("active", "timer", "resendSyn") /\ UNCHANGED synTimer
  BY <1>1, <1>2, <1>3, ActiveGoes DEF ReverseSynTimer, At, passiveVars, netVars
<1>4. CASE ReverseSynTimer /\ synTimer' = "off" /\ UNCHANGED pc
  <2>1. UNCHANGED <<conn, connector, acceptor, pc, created, offered, cached, confirmation, ackTimer,
                    builder, waiting, refused, udp, tcp, tcpPackages, crashed>>
    BY <1>4 DEF ReverseSynTimer, passiveVars, netVars
  <2>2. Types'
    BY <1>4, <2>1 DEF Inv, Types
  <2> QED
    BY <2>1, <2>2, OnlyAround DEF Inv, NoAnswerBefore
<1>5. CASE ResendReverseSyn
  <2>1. /\ pc["active"]["timer"] = "resendSyn" /\ Goto("active", "timer", "idle") /\ crashed' \in BOOLEAN
        /\ UNCHANGED <<conn, connector, acceptor, created, offered, cached, confirmation, ackTimer,
                       synTimer, builder, waiting, refused, udp, tcp, tcpPackages>>
    BY <1>5 DEF ResendReverseSyn, At, passiveVars, activeVars, netVars
  <2> QED
    BY <1>1, <1>2, <2>1, ActiveGoes
<1> QED
  BY <1>3, <1>4, <1>5 DEF ReverseSynTimer

(* A thread of the active end that received an answer begins to try.       *)
LEMMA AnswerReceived ==
  ASSUME Inv, NEW t \in Thread, t # "app", pc["active"][t] = "idle", conn["active"].state = "CONNECTING",
         conn["passive"].firstAnswer, NEW l \in Trying, Goto("active", t, l), NEW b \in BOOLEAN,
         conn' = [conn EXCEPT !["active"] = [conn["active"] EXCEPT !.firstAnswer = b]],
         tcpPackages' \subseteq tcpPackages, crashed' \in BOOLEAN,
         UNCHANGED <<connector, acceptor, created, offered, cached, confirmation, ackTimer,
                     synTimer, builder, waiting, refused, udp, tcp>>
  PROVE  Inv'
<1> USE Names
<1> DEFINE c == conn["active"]
           d == [c EXCEPT !.firstAnswer = b]
<1>1. Types /\ l \in Label /\ c \in Conn
  BY DEF Inv, Types, Label, Trying
<1>2. d \in Conn
  BY <1>1 DEF Conn
<1>3. /\ d.state = c.state /\ d.callback = c.callback /\ d.provider = c.provider
      /\ d.calls = c.calls /\ d.reported = c.reported
  BY <1>1 DEF Conn
<1>4. conn' = [conn EXCEPT !["active"] = d]
  OBVIOUS
<1> HIDE DEF d, c
<1>5. /\ conn' \in [End -> Conn]
      /\ conn'["active"] = d /\ conn'["passive"] = conn["passive"]
  BY <1>1, <1>2, <1>4, Becomes
<1>6. /\ pc' \in [End -> [Thread -> Label]]
      /\ pc["active"] \in [Thread -> Label]
      /\ pc'["active"] = Moved(pc["active"], t, l)
      /\ pc'["passive"] = pc["passive"]
      /\ pc'["active"]["app"] = pc["active"]["app"]
  BY <1>1, Goes
<1>7. Types'
  BY <1>1, <1>5, <1>6 DEF Types
<1>8. LocalInv(d, pc'["active"])
  <2>1. LocalInv(c, pc["active"])
    BY DEF Inv, Locals, c
  <2>2. LocalInv(c, pc'["active"])
    BY <1>1, <1>6, <2>1, MoveLocal DEF Trying, Establishing, Calling, c
  <2> QED
    BY <1>1, <1>2, <1>3, <1>6, <2>2, NoteLocal
<1>9. ActiveTold' /\ AppConnects'
  BY <1>3, <1>5, <1>6 DEF Inv, ActiveTold, AppConnects, c
<1> QED
  BY <1>5, <1>6, <1>7, <1>8, <1>9, ActiveEndStep

(* ConnectionOnAckSessionData *)
LEMMA ReceiveAckInv == ASSUME Inv, NEW t \in Dispatchers, ReceiveAck(t) PROVE Inv'
<1> USE Names
<1>1. /\ pc["active"][t] = "idle" /\ "ack" \in udp
      /\ UNCHANGED <<connector, acceptor, created, offered, cached, confirmation, ackTimer,
                     synTimer, builder, waiting, refused, tcp, tcpPackages, crashed>>
  BY DEF ReceiveAck, At, passiveVars, activeVars
<1>2. conn["passive"].firstAnswer
  BY <1>1 DEF Inv, NoAnswerBefore
<1>3. CASE /\ conn["active"].state = "CONNECTING"
           /\ conn' = [conn EXCEPT !["active"].firstAnswer = TRUE]
           /\ Goto("active", t, "tryPackage")
           /\ UNCHANGED udp
  <2>1. conn' = [conn EXCEPT !["active"] = [conn["active"] EXCEPT !.firstAnswer = TRUE]]
    BY <1>3
  <2>2. "tryPackage" \in Trying /\ t \in Thread /\ t # "app" /\ TRUE \in BOOLEAN /\ crashed' \in BOOLEAN
    BY <1>1 DEF Inv, Types, Trying
  <2> QED
    BY <1>1, <1>2, <1>3, <2>1, <2>2, AnswerReceived
<1>4. CASE udp' = udp \cup {"ackack"} /\ UNCHANGED <<conn, pc>>
  <2>1. Types'
    BY <1>1, <1>4 DEF Inv, Types
  <2>2. LocalInv(conn["active"], pc["active"]) /\ ActiveTold' /\ AppConnects'
    BY <1>4 DEF Inv, Locals, ActiveTold, AppConnects
  <2> QED
    BY <1>1, <1>2, <1>4, <2>1, <2>2, ActiveEndStep
<1> QED
  BY <1>3, <1>4 DEF ReceiveAck

(* ConnectionOnTcpFirstAckResp and ConnectionOnTcpFirstAckPackage.         *)
LEMMA ReceiveTcpAckInv == ASSUME Inv, ReceiveTcpAck \/ ReceiveTcpFirstAck PROVE Inv'
<1> USE Names
<1>1. /\ pc["active"]["tcp"] = "idle" /\ "ack" \in tcpPackages
      /\ tcpPackages' = tcpPackages \ {"ack"}
      /\ UNCHANGED <<connector, acceptor, created, offered, cached, confirmation, ackTimer,
                     synTimer, builder, waiting, refused, udp, tcp>>
  BY DEF ReceiveTcpAck, ReceiveTcpFirstAck, TakeTcpAck, At, passiveVars, activeVars
<1>2. conn["passive"].firstAnswer /\ conn["active"] \in Conn /\ conn \in [End -> Conn]
  BY <1>1 DEF Inv, NoAnswerBefore, Types
<1>3. crashed' \in BOOLEAN
  BY <1>2 DEF Inv, Types, ReceiveTcpAck, ReceiveTcpFirstAck, Conn
<1>4. CASE /\ conn["active"].state = "CONNECTING"
           /\ \E l \in Trying : Goto("active", "tcp", l)
           /\ \E b \in BOOLEAN :
                conn' = [conn EXCEPT !["active"] = [conn["active"] EXCEPT !.firstAnswer = b]]
  BY <1>1, <1>2, <1>3, <1>4, AnswerReceived
<1>5. CASE UNCHANGED <<conn, pc>>
  <2>1. Types'
    BY <1>1, <1>3, <1>5 DEF Inv, Types
  <2>2. LocalInv(conn["active"], pc["active"]) /\ ActiveTold' /\ AppConnects'
    BY <1>5 DEF Inv, Locals, ActiveTold, AppConnects
  <2> QED
    BY <1>1, <1>2, <1>5, <2>1, <2>2, ActiveEndStep
<1>6. CASE ReceiveTcpAck
  <2> DEFINE b == conn["active"].firstAnswer \/ connector = "BUILDER"
  <2>1. b \in BOOLEAN
    OBVIOUS
  <2>2. CASE conn["active"].state = "CONNECTING"
    <3>1. /\ Goto("active", "tcp", "tryStream")
          /\ conn' = [conn EXCEPT !["active"] = [conn["active"] EXCEPT !.firstAnswer = b]]
      BY <1>2, <1>6, <2>2 DEF ReceiveTcpAck
    <3> HIDE DEF b
    <3> QED
      BY <1>4, <2>1, <2>2, <3>1 DEF Trying
  <2> QED
    BY <1>5, <1>6, <2>2 DEF ReceiveTcpAck
<1>7. CASE ReceiveTcpFirstAck
  <2>1. CASE conn["active"].state = "CONNECTING" /\ Goto("active", "tcp", "tryStreamAnyway")
    <3>1. conn' = [conn EXCEPT !["active"] = [conn["active"] EXCEPT !.firstAnswer = conn["active"].firstAnswer]]
      BY <1>2, <1>7 DEF ReceiveTcpFirstAck, Conn
    <3>2. conn["active"].firstAnswer \in BOOLEAN
      BY <1>2 DEF Conn
    <3> QED
      BY <1>4, <2>1, <3>1, <3>2 DEF Trying
  <2> QED
    BY <1>5, <1>7, <2>1 DEF ReceiveTcpFirstAck
<1> QED
  BY <1>6, <1>7

-----------------------------------------------------------------------------
(* A step of one end after which that end is past CONNECTING.              *)
LEMMA LateStep ==
  ASSUME Inv, Types', NoAnswerBefore', NEW e \in End, NEW t \in Thread,
         \A f \in End \ {e} : conn'[f] = conn[f] /\ pc'[f] = pc[f],
         \A u \in Thread \ {t} : pc'[e][u] = pc[e][u],
         e = "active" => t # "app" /\ acceptor' = acceptor,
         e = "passive" => created /\ (t = "app" => pc[e][t] \notin {"cache", "confirm"}),
         LocalInv(conn'[e], pc'[e]),
         conn'[e].state \notin {"NONE", "CONNECTING"},
         conn'[e].state = "ESTABLISH" =>
           \/ conn'[e].reported = <<"ok">>
           \/ conn'[e].callback /\ conn'[e].provider = "WAITING"
           \/ /\ e = "passive"
              /\ pc["passive"]["app"] \in {"cache", "confirm"} \/ confirmation = "refused",
         UNCHANGED <<created, offered, cached, confirmation, ackTimer>>
  PROVE  Inv'
<1> USE Names
<1>1. Locals'
  BY OtherEnd DEF Inv
<1>2. CASE e = "active"
  <2>1. ActiveTold' /\ AppConnects'
    BY <1>2 DEF Inv, ActiveTold, AppConnects
  <2>2. conn'["passive"] = conn["passive"] /\ pc'["passive"] = pc["passive"] /\ acceptor' = acceptor
    BY <1>2
  <2>3. PassiveTold' /\ PassiveBegins' /\ AnswerComes'
    BY <2>2 DEF Inv, PassiveTold, PassiveBegins, AnswerComes
  <2> QED
    BY <1>1, <2>1, <2>3 DEF Inv
<1>3. CASE e = "passive"
  <2>1. conn'["active"] = conn["active"] /\ pc'["active"] = pc["active"]
    BY <1>3
  <2>2. ActiveTold' /\ AppConnects'
    BY <2>1 DEF Inv, ActiveTold, AppConnects
  <2>3. pc["passive"]["app"] \in {"cache", "confirm"} => pc'["passive"]["app"] = pc["passive"]["app"]
    BY <1>3
  <2>4. PassiveTold'
    BY <1>3, <2>3 DEF PassiveTold
  <2>5. PassiveBegins' /\ AnswerComes'
    BY <1>3 DEF PassiveBegins, AnswerComes
  <2> QED
    BY <1>1, <2>2, <2>4, <2>5 DEF Inv
<1> QED
  BY <1>2, <1>3

(* Who tries, brings a provider or calls one has an answered connection.   *)
LEMMA LateThread ==
  ASSUME Inv, NEW e \in End, NEW t \in Thread, pc[e][t] \in Trying \cup Establishing \cup Calling
  PROVE  /\ e = "active" => t # "app"
         /\ e = "passive" => created /\ (t = "app" => pc[e][t] \notin {"cache", "confirm"})
         /\ pc[e][t] \in Trying \cup Establishing => conn["passive"].firstAnswer
         /\ pc[e][t] \in Trying => conn[e].state # "NONE"
         /\ pc[e][t] \in Establishing \cup Calling => conn[e].state \notin {"NONE", "CONNECTING"}
<1> USE Names
<1>1. pc[e][t] \notin Connecting \cup {"idle", "cache", "confirm"}
  BY DEF Connecting, Trying, Establishing, Calling
<1>2. /\ e = "active" => t # "app"
      /\ e = "passive" => created
  BY <1>1 DEF Inv, AppConnects, PassiveBegins
<1>3. pc[e][t] \in Trying \cup Establishing => conn["passive"].firstAnswer
  BY DEF Inv, NoAnswerBefore
<1>4. LocalInv(conn[e], pc[e])
  BY DEF Inv, Locals
<1> QED
  BY <1>1, <1>2, <1>3, <1>4 DEF LocalInv, NothingEarly

(* What an established connection told, or will tell, its application.     *)
LEMMA Told ==
  ASSUME Inv, NEW e \in End, conn["passive"].firstAnswer
  PROVE  /\ conn[e].state = "CONNECTING" =>
              conn[e].callback \/ (e = "passive" /\ pc["passive"]["app"] \in {"cache", "confirm"})
         /\ conn[e].state = "ESTABLISH" =>
              \/ conn[e].reported = <<"ok">>
              \/ conn[e].callback /\ conn[e].provider = "WAITING"
              \/ /\ e = "passive"
                 /\ pc["passive"]["app"] \in {"cache", "confirm"} \/ confirmation = "refused"
BY Names DEF Inv, ActiveTold, PassiveTold

(* Bdt_ConnectionTryEnterEstablish *)
LEMMA TryEnterInv ==
  ASSUME Inv, NEW e \in End, NEW t \in Thread, pc[e][t] \in Trying,
         NEW done \in Establishing, NEW sent \in SUBSET {"ack", "ackack"},
         NEW failed \in {"idle", "establishStream"},
         TryEnterEstablish(e, t, done, sent, failed),
         UNCHANGED <<created, offered, cached, confirmation, ackTimer, synTimer, builder, waiting, refused,
                     udp, tcp, crashed>>
  PROVE  Inv'
<1> USE Names
<1> DEFINE c == conn[e]
           d == [c EXCEPT !.state = "ESTABLISH", !.provider = "WAITING"]
<1>1. /\ Types /\ done \in Label /\ failed \in Label /\ c \in Conn
      /\ LocalInv(c, pc[e])
      /\ pc[e] \in [Thread -> Label]
  BY DEF Inv, Types, Locals, Label, Establishing
<1>2. /\ e = "active" => t # "app"
      /\ e = "passive" => created /\ (t = "app" => pc[e][t] \notin {"cache", "confirm"})
      /\ conn["passive"].firstAnswer
      /\ c.state # "NONE"
  BY LateThread
<1>3. CASE c.state = "CONNECTING"
  <2>1. /\ conn' = [conn EXCEPT ![e] = d]
        /\ Dropped(e)
        /\ tcpPackages' = tcpPackages \cup sent
        /\ Goto(e, t, done)
    BY <1>3 DEF TryEnterEstablish
  <2>2. d \in Conn
    BY <1>1 DEF Conn, State
  <2>3. /\ d.state = "ESTABLISH" /\ d.provider = "WAITING" /\ d.reported = c.reported
        /\ d.callback = c.callback /\ d.firstAnswer = c.firstAnswer
    BY <1>1 DEF Conn
  <2> HIDE DEF d
  <2>4. conn' \in [End -> Conn] /\ conn'[e] = d /\ \A f \in End \ {e} : conn'[f] = conn[f]
    BY <1>1, <2>1, <2>2, Becomes
  <2>5. /\ pc' \in [End -> [Thread -> Label]]
        /\ pc'[e] = Moved(pc[e], t, done)
        /\ \A u \in Thread \ {t} : pc'[e][u] = pc[e][u]
        /\ \A f \in End \ {e} : pc'[f] = pc[f]
    BY <1>1, <2>1, Goes
  <2>6. Types'
    <3>1. /\ connector' \in {connector, "NULL"}
          /\ acceptor' \in {acceptor, NoAcceptor}
      BY <2>1 DEF Dropped
    <3>2. acceptor' \in AcceptorRec
      BY <1>1, <3>1, AcceptorTypes DEF Types
    <3>3. tcpPackages' \subseteq {"syn", "ack", "ackack"}
      BY <1>1, <2>1 DEF Types
    <3> QED
      BY <1>1, <2>4, <2>5, <3>1, <3>2, <3>3 DEF Types
  <2>7. LocalInv(d, pc'[e])
    <3>1. LocalInv(d, Moved(pc[e], t, done))
      BY <1>1, <1>3, <2>2, <2>3, EnterLocal
    <3> QED
      BY <2>5, <3>1
  <2>8. conn'["passive"].firstAnswer /\ NoAnswerBefore'
    BY <1>2, <2>3, <2>4 DEF NoAnswerBefore
  <2>9. e = "active" => acceptor' = acceptor
    BY <2>1 DEF Dropped
  <2>10. d.callback \/ (e = "passive" /\ pc["passive"]["app"] \in {"cache", "confirm"})
    BY <1>2, <1>3, <2>3, Told
  <2> QED
    BY <1>2, <2>3, <2>4, <2>5, <2>6, <2>7, <2>8, <2>9, <2>10, LateStep
<1>4. CASE c.state # "CONNECTING"
  <2> DEFINE b == [c EXCEPT !.anyway = @ \/ failed # "idle"]
  <2>1. /\ conn' = [conn EXCEPT ![e] = b]
        /\ Goto(e, t, failed)
        /\ UNCHANGED <<connector, acceptor, tcpPackages>>
    BY <1>4 DEF TryEnterEstablish
  <2>2. b \in Conn
    BY <1>1 DEF Conn
  <2>3. /\ b.state = c.state /\ b.provider = c.provider /\ b.calls = c.calls
        /\ b.reported = c.reported /\ b.callback = c.callback /\ b.firstAnswer = c.firstAnswer
    BY <1>1 DEF Conn
  <2> HIDE DEF b
  <2>4. conn' \in [End -> Conn] /\ conn'[e] = b /\ \A f \in End \ {e} : conn'[f] = conn[f]
    BY <1>1, <2>1, <2>2, Becomes
  <2>5. /\ pc' \in [End -> [Thread -> Label]]
        /\ pc'[e] = Moved(pc[e], t, failed)
        /\ \A u \in Thread \ {t} : pc'[e][u] = pc[e][u]
        /\ \A f \in End \ {e} : pc'[f] = pc[f]
    BY <1>1, <2>1, Goes
  <2>6. Types'
    BY <1>1, <2>1, <2>4, <2>5 DEF Types
  <2>7. LocalInv(b, pc'[e])
    <3>1. LocalInv(b, pc[e])
      BY <1>1, <2>2, <2>3, NoteLocal
    <3>2. CASE failed = "idle"
      BY <1>1, <1>2, <2>2, <2>3, <2>5, <3>1, <3>2, MoveLocal DEF Trying, Establishing, Calling
    <3>3. CASE failed = "establishStream"
      BY <1>1, <1>4, <2>2, <2>3, <2>5, <3>1, <3>3, AnywayLocal DEF Establishing
    <3> QED
      BY <3>2, <3>3
  <2>8. conn'["passive"].firstAnswer /\ NoAnswerBefore'
    BY <1>2, <2>3, <2>4 DEF NoAnswerBefore
  <2> QED
    BY <1>2, <1>4, <2>1, <2>3, <2>4, <2>5, <2>6, <2>7, <2>8, LateStep, Told
<1> QED
  BY <1>3, <1>4

(* The three callers of Bdt_ConnectionTryEnterEstablish.                   *)
LEMMA TryEstablishInv ==
  ASSUME Inv, NEW e \in End, NEW t \in Thread, TryEstablish(e, t)
  PROVE  Inv'
<1>1. UNCHANGED <<created, offered, cached, confirmation, ackTimer, synTimer, builder, waiting, refused,
                  udp, tcp, crashed>>
  BY DEF TryEstablish, passiveVars, activeVars
<1>2. /\ {} \in SUBSET {"ack", "ackack"}
      /\ FirstTcp(e) \in SUBSET {"ack", "ackack"}
      /\ "establishPackage" \in Establishing /\ "establishStream" \in Establishing
  BY Names DEF FirstTcp, Establishing
<1>3. CASE At(e, t, "tryPackage") /\ TryEnterEstablish(e, t, "establishPackage", {}, "idle")
  BY <1>1, <1>2, <1>3, TryEnterInv DEF At, Trying
<1>4. CASE At(e, t, "tryStream") /\ TryEnterEstablish(e, t, "establishStream", FirstTcp(e), "idle")
  BY <1>1, <1>2, <1>4, TryEnterInv DEF At, Trying
<1>5. CASE /\ At(e, t, "tryStreamAnyway")
           /\ TryEnterEstablish(e, t, "establishStream", FirstTcp(e), "establishStream")
  BY <1>1, <1>2, <1>5, TryEnterInv DEF At, Trying
<1> QED
  BY <1>3, <1>4, <1>5 DEF TryEstablish

(* The section that brings the provider.                                   *)
LEMMA ProvideInv ==
  ASSUME Inv, NEW e \in End, NEW t \in Thread, NEW kind \in {"PACKAGE", "STREAM"},
         pc[e][t] \in Establishing,
         conn' = [conn EXCEPT ![e] = Provided(conn[e], kind)],
         Goto(e, t, Settle(conn[e].state, kind)),
         udp' \in {udp, udp \cup {"ackack"}},
         UNCHANGED <<connector, acceptor, created, offered, cached, confirmation, ackTimer,
                     synTimer, builder, waiting, refused, tcp, tcpPackages, crashed>>
  PROVE  Inv'
<1> USE Names
<1> DEFINE c == conn[e]
           d == Provided(c, kind)
           l == Settle(c.state, kind)
<1>1. /\ Types /\ c \in Conn /\ LocalInv(c, pc[e]) /\ pc[e] \in [Thread -> Label]
  BY DEF Inv, Types, Locals
<1>2. /\ e = "active" => t # "app"
      /\ e = "passive" => created /\ (t = "app" => pc[e][t] \notin {"cache", "confirm"})
      /\ conn["passive"].firstAnswer
      /\ c.state \notin {"NONE", "CONNECTING"}
  BY LateThread
<1>3. d \in Conn /\ l \in Label /\ LocalInv(d, Moved(pc[e], t, l))
  BY <1>1, ProvideLocal
<1>4. /\ d.state = c.state /\ d.provider = kind /\ d.firstAnswer = c.firstAnswer
      /\ d.reported = IF c.state = "ESTABLISH" THEN Report(c, "ok") ELSE c.reported
  BY <1>1 DEF Provided, Conn
<1>5. c.state = "ESTABLISH" => d.reported = IF c.callback THEN <<"ok">> ELSE c.reported
  BY <1>1, <1>4, ReportOnce DEF LocalInv
<1>6. conn' = [conn EXCEPT ![e] = d] /\ Goto(e, t, l)
  OBVIOUS
<1> HIDE DEF d, l
<1>7. conn' \in [End -> Conn] /\ conn'[e] = d /\ \A f \in End \ {e} : conn'[f] = conn[f]
  BY <1>1, <1>3, <1>6, Becomes
<1>8. /\ pc' \in [End -> [Thread -> Label]]
      /\ pc'[e] = Moved(pc[e], t, l)
      /\ \A u \in Thread \ {t} : pc'[e][u] = pc[e][u]
      /\ \A f \in End \ {e} : pc'[f] = pc[f]
  BY <1>1, <1>3, <1>6, Goes
<1>9. Types'
  <2>1. udp' \subseteq {"syn", "ack", "ackack", "reverseSyn"}
    BY <1>1 DEF Types
  <2> QED
    BY <1>1, <1>7, <1>8, <2>1 DEF Types
<1>10. conn'["passive"].firstAnswer /\ NoAnswerBefore'
  BY <1>2, <1>4, <1>7 DEF NoAnswerBefore
<1>11. c.state = "ESTABLISH" =>
         \/ d.reported = <<"ok">>
         \/ /\ e = "passive"
            /\ pc["passive"]["app"] \in {"cache", "confirm"} \/ confirmation = "refused"
  BY <1>1, <1>2, <1>5, Told DEF LocalInv, ReportFits
<1> QED
  BY <1>2, <1>3, <1>4, <1>7, <1>8, <1>9, <1>10, <1>11, LateStep

(* Bdt_ConnectionEstablishWithPackage and Bdt_ConnectionEstablishWithStream. *)
LEMMA EstablishInv ==
  ASSUME Inv, NEW e \in End, NEW t \in Thread, EstablishWithPackage(e, t) \/ EstablishWithStream(e, t)
  PROVE  Inv'
<1>1. CASE EstablishWithPackage(e, t)
  <2>1. /\ pc[e][t] \in Establishing
        /\ conn' = [conn EXCEPT ![e] = Provided(conn[e], "PACKAGE")]
        /\ Goto(e, t, Settle(conn[e].state, "PACKAGE"))
        /\ udp' \in {udp, udp \cup {"ackack"}}
        /\ UNCHANGED <<connector, acceptor, created, offered, cached, confirmation, ackTimer,
                       synTimer, builder, waiting, refused, tcp, tcpPackages, crashed>>
    BY <1>1 DEF EstablishWithPackage, At, Establishing, passiveVars, activeVars
  <2> QED
    BY <2>1, ProvideInv
<1>2. CASE EstablishWithStream(e, t)
  <2>1. /\ pc[e][t] \in Establishing
        /\ conn' = [conn EXCEPT ![e] = Provided(conn[e], "STREAM")]
        /\ Goto(e, t, Settle(conn[e].state, "STREAM"))
        /\ udp' \in {udp, udp \cup {"ackack"}}
        /\ UNCHANGED <<connector, acceptor, created, offered, cached, confirmation, ackTimer,
                       synTimer, builder, waiting, refused, tcp, tcpPackages, crashed>>
    BY <1>2 DEF EstablishWithStream, At, Establishing, passiveVars, activeVars, netVars
  <2> QED
    BY <2>1, ProvideInv
<1> QED
  BY <1>1, <1>2

(* The call of the provider after BdtConnectionClose or -Reset.            *)
LEMMA CallProviderInv ==
  ASSUME Inv, NEW e \in End, NEW t \in Thread, CallProvider(e, t)
  PROVE  Inv'
<1> USE Names
<1> DEFINE c == conn[e]
           called == IF pc[e][t] = CloseCall(c.provider) THEN {"close"}
                     ELSE IF pc[e][t] = ResetCall(c.provider) THEN {"reset"} ELSE {}
           d == [c EXCEPT !.calls = @ \cup called]
<1>1. /\ pc[e][t] \in Calling
      /\ Goto(e, t, "idle")
      /\ UNCHANGED <<connector, acceptor, created, offered, cached, confirmation, ackTimer,
                     synTimer, builder, waiting, refused, udp, tcp, tcpPackages>>
  BY DEF CallProvider, At, Calling, CloseCall, ResetCall, passiveVars, activeVars, netVars
<1>2. conn' = [conn EXCEPT ![e] = d] /\ crashed' \in BOOLEAN
  <2>1. c \in Conn /\ conn \in [End -> Conn] /\ crashed \in BOOLEAN
    BY DEF Inv, Types
  <2>2. c.provider \in {"PACKAGE", "STREAM"} /\ CloseCall(c.provider) # ResetCall(c.provider)
    BY <1>1, <2>1 DEF Inv, Locals, LocalInv, NothingEarly, Conn, CloseCall, ResetCall
  <2>3. CASE At(e, t, CloseCall(c.provider))
    <3>1. conn' = [conn EXCEPT ![e].calls = @ \cup {"close"}] /\ UNCHANGED crashed
      BY <2>2, <2>3 DEF CallProvider, At, CloseCall, ResetCall
    <3> QED
      BY <2>1, <2>3, <3>1 DEF At
  <2>4. CASE At(e, t, ResetCall(c.provider))
    <3>1. conn' = [conn EXCEPT ![e].calls = @ \cup {"reset"}] /\ UNCHANGED crashed
      BY <2>2, <2>4 DEF CallProvider, At, CloseCall, ResetCall
    <3> QED
      BY <2>1, <2>2, <2>4, <3>1 DEF At
  <2>5. CASE pc[e][t] \notin {CloseCall(c.provider), ResetCall(c.provider)}
    <3>1. crashed' \in BOOLEAN /\ UNCHANGED conn
      BY <2>5 DEF CallProvider, At
    <3>2. called = {} /\ c.calls \cup {} = c.calls
      BY <2>5
    <3>3. d = c
      BY <2>1, <3>2 DEF Conn
    <3> QED
      BY <2>1, <3>1, <3>3
  <2> QED
    BY <2>3, <2>4, <2>5 DEF At
<1>3. /\ Types /\ c \in Conn /\ LocalInv(c, pc[e]) /\ pc[e] \in [Thread -> Label] /\ "idle" \in Label
  BY DEF Inv, Types, Locals, Label
<1>4. /\ e = "active" => t # "app"
      /\ e = "passive" => created /\ (t = "app" => pc[e][t] \notin {"cache", "confirm"})
      /\ c.state \notin {"NONE", "CONNECTING"}
  BY <1>1, LateThread
<1>5. d \in Conn
  BY <1>3 DEF Conn
<1>6. /\ d.state = c.state /\ d.provider = c.provider /\ d.reported = c.reported
      /\ d.callback = c.callback /\ d.firstAnswer = c.firstAnswer /\ d.calls = c.calls \cup called
  BY <1>3 DEF Conn
<1>7. \/ pc[e][t] = CloseCall(c.provider) /\ d.calls = c.calls \cup {"close"}
      \/ pc[e][t] = ResetCall(c.provider) /\ d.calls = c.calls \cup {"reset"}
      \/ pc[e][t] \notin {CloseCall(c.provider), ResetCall(c.provider)} /\ d.calls = c.calls
  BY <1>6
<1> HIDE DEF d, called
<1>8. conn' \in [End -> Conn] /\ conn'[e] = d /\ \A f \in End \ {e} : conn'[f] = conn[f]
  BY <1>2, <1>3, <1>5, Becomes
<1>9. /\ pc' \in [End -> [Thread -> Label]]
      /\ pc'[e] = Moved(pc[e], t, "idle")
      /\ pc'[e][t] = "idle"
      /\ \A u \in Thread \ {t} : pc'[e][u] = pc[e][u]
      /\ \A f \in End \ {e} : pc'[f] = pc[f]
  BY <1>1, <1>3, Goes
<1>10. Types'
  BY <1>1, <1>2, <1>3, <1>8, <1>9 DEF Types
<1>11. LocalInv(d, pc'[e])
  <2>1. LocalInv(d, Moved(pc[e], t, "idle"))
    <3> HIDE DEF c
    <3> QED
      BY <1>1, <1>3, <1>5, <1>6, <1>7, CallLocal
  <2> QED
    BY <1>9, <2>1
<1>12. NoAnswerBefore'
  <2>1. \A f \in End : conn'[f].firstAnswer = conn[f].firstAnswer /\ conn'[f].reported = conn[f].reported
    BY <1>6, <1>8
  <2>2. \A f \in End : \A u \in Thread : pc'[f][u] \in {"idle", pc[f][u]}
    BY <1>9
  <2> QED
    BY <1>1, <2>1, <2>2 DEF Inv, NoAnswerBefore, Trying, Establishing
<1>13. c.state = "ESTABLISH" =>
         \/ c.reported = <<"ok">>
         \/ c.callback /\ c.provider = "WAITING"
         \/ /\ e = "passive"
            /\ pc["passive"]["app"] \in {"cache", "confirm"} \/ confirmation = "refused"
  BY DEF Inv, ActiveTold, PassiveTold
<1> QED
  BY <1>1, <1>4, <1>6, <1>8, <1>9, <1>10, <1>11, <1>12, <1>13, LateStep

(* A connection ends; the user's thread may go on to call the provider.    *)
LEMMA EndStep ==
  ASSUME Inv, NEW e \in End, e = "passive" => created, NEW d \in Conn,
         conn' = [conn EXCEPT ![e] = d], d.state \in {"CLOSING", "CLOSED"},
         d.firstAnswer = conn[e].firstAnswer, d.reported \in {conn[e].reported, <<"error">>},
         pc' \in [End -> [Thread -> Label]],
         \A f \in End \ {e} : pc'[f] = pc[f],
         \A u \in Thread : pc'[e][u] = pc[e][u] \/ (u = "user" /\ pc'[e][u] \in Calling),
         LocalInv(d, pc'[e]),
         connector' \in {connector, "NULL", "FREED"},
         acceptor' \in AcceptorRec, acceptor'.confirmed => acceptor.confirmed,
         e = "active" => acceptor' = acceptor,
         tcp' \in {tcp, "broken"},
         UNCHANGED <<created, offered, cached, confirmation, ackTimer,
                     synTimer, builder, waiting, refused, udp, tcpPackages, crashed>>
  PROVE  Inv'
<1> USE Names
<1>1. Types
  BY DEF Inv
<1>2. conn' \in [End -> Conn] /\ conn'[e] = d /\ \A f \in End \ {e} : conn'[f] = conn[f]
  BY <1>1, Becomes
<1>3. Types'
  BY <1>1, <1>2 DEF Types
<1>4. NoAnswerBefore'
  <2>1. <<"error">> # <<"ok">>
    OBVIOUS
  <2>2. \A f \in End : /\ conn'[f].firstAnswer = conn[f].firstAnswer
                       /\ conn'[f].reported \in {conn[f].reported, <<"error">>}
    BY <1>2
  <2>3. \A f \in End : \A u \in Thread : pc'[f][u] = pc[f][u] \/ (u = "user" /\ pc'[f][u] \in Calling)
    OBVIOUS
  <2>4. pc'["passive"]["app"] = pc["passive"]["app"] /\ pc'["passive"]["timer"] = pc["passive"]["timer"]
    BY <2>3
  <2>5. Calling \cap (Trying \cup Establishing) = {}
    BY DEF Calling, Trying, Establishing
  <2> SUFFICES ASSUME ~conn["passive"].firstAnswer, ~conn'["passive"].firstAnswer
               PROVE  NoAnswerBefore'
    BY <2>2 DEF NoAnswerBefore
  <2>6. \A f \in End : \A u \in Thread : pc'[f][u] \notin Trying \cup Establishing
    BY <2>3, <2>5 DEF Inv, NoAnswerBefore
  <2>7. \A f \in End : conn'[f].reported # <<"ok">>
    BY <2>1, <2>2 DEF Inv, NoAnswerBefore
  <2>8. ~acceptor'.confirmed /\ ~cached /\ ackTimer = "off" /\ confirmation = "none"
    BY DEF Inv, NoAnswerBefore
  <2> QED
    BY <2>4, <2>6, <2>7, <2>8 DEF Inv, NoAnswerBefore
<1> QED
  BY <1>2, <1>3, <1>4, LateStep

(* Staying where one is.                                                   *)
LEMMA MovedNowhere ==
  ASSUME NEW p \in [Thread -> Label], NEW t \in Thread
  PROVE  Moved(p, t, p[t]) = p
BY DEF Moved

(* BdtConnectionClose *)
LEMMA CloseInv == ASSUME Inv, NEW e \in End, Close(e) PROVE Inv'
<1> USE Names
<1> DEFINE c == conn[e]
<1>1. /\ Types /\ c \in Conn /\ LocalInv(c, pc[e]) /\ pc \in [End -> [Thread -> Label]]
      /\ pc[e] \in [Thread -> Label] /\ acceptor \in AcceptorRec
  BY DEF Inv, Types, Locals
<1>2. /\ pc[e]["user"] = "idle"
      /\ UNCHANGED <<connector, acceptor, created, offered, cached, confirmation, ackTimer,
                     synTimer, builder, waiting, refused, udp, tcp, tcpPackages, crashed>>
      /\ e = "passive" => created
  BY DEF Close, HasConnection, At, Inv, PassiveBegins, passiveVars, activeVars, netVars
<1>3. CASE /\ c.state \in {"NONE", "CONNECTING"}
           /\ conn' = [conn EXCEPT ![e].state = "CLOSED", ![e].callback = FALSE]
           /\ UNCHANGED pc
  <2> DEFINE d == [c EXCEPT !.state = "CLOSED", !.callback = FALSE]
  <2>1. conn' = [conn EXCEPT ![e] = d]
    BY <1>1, <1>3 DEF Types
  <2>2. d \in Conn
    BY <1>1 DEF Conn, State
  <2>3. /\ d.state = "CLOSED" /\ ~d.callback /\ d.provider = c.provider
        /\ d.reported = c.reported /\ d.firstAnswer = c.firstAnswer
    BY <1>1 DEF Conn
  <2> HIDE DEF d
  <2>4. c.reported = <<>>
    BY <1>1, <1>3 DEF LocalInv, NothingEarly
  <2>5. LocalInv(d, pc'[e])
    BY <1>1, <1>3, <2>2, <2>3, <2>4, EndLocal
  <2> QED
    BY <1>1, <1>2, <1>3, <2>1, <2>2, <2>3, <2>5, EndStep
<1>4. CASE /\ c.state = "ESTABLISH"
           /\ conn' = [conn EXCEPT ![e].state = "CLOSING"]
           /\ Goto(e, "user", IF c.provider = "WAITING" THEN "idle" ELSE CloseCall(c.provider))
  <2> DEFINE d == [c EXCEPT !.state = "CLOSING"]
             l == IF c.provider = "WAITING" THEN "idle" ELSE CloseCall(c.provider)
  <2>1. conn' = [conn EXCEPT ![e] = d] /\ Goto(e, "user", l)
    BY <1>1, <1>4 DEF Types
  <2>2. d \in Conn
    BY <1>1 DEF Conn, State
  <2>3. /\ d.state = "CLOSING" /\ d.callback = c.callback /\ d.provider = c.provider
        /\ d.reported = c.reported /\ d.firstAnswer = c.firstAnswer /\ d.calls = c.calls
    BY <1>1 DEF Conn
  <2> HIDE DEF d
  <2>4. l \in Label /\ l \in {"idle", CloseCall(c.provider)} /\ CloseCall(c.provider) \in Calling
    BY DEF Label, Calling, CloseCall
  <2>5. /\ pc' \in [End -> [Thread -> Label]]
        /\ pc'[e] = Moved(pc[e], "user", l)
        /\ pc'[e]["user"] = l
        /\ \A u \in Thread \ {"user"} : pc'[e][u] = pc[e][u]
        /\ \A f \in End \ {e} : pc'[f] = pc[f]
    BY <1>1, <2>1, <2>4, Goes
  <2>6. pc'[e] = IF c.provider = "WAITING" THEN pc[e] ELSE Moved(pc[e], "user", CloseCall(c.provider))
    BY <1>1, <1>2, <2>5, MovedNowhere
  <2>7. c.reported # <<"error">>
    BY <1>1, <1>4 DEF LocalInv, ReportFits
  <2>8. LocalInv(d, pc'[e])
    <3>1. pc'[e] \in [Thread -> Label] /\ (d.callback => c.callback)
      BY <2>3, <2>5
    <3> HIDE DEF l
    <3> QED
      BY <1>1, <1>2, <1>4, <2>2, <2>3, <2>4, <2>6, <2>7, <3>1, CloseLocal
  <2>9. \A u \in Thread : pc'[e][u] = pc[e][u] \/ (u = "user" /\ pc'[e][u] \in Calling)
    BY <1>2, <2>4, <2>5
  <2> QED
    BY <1>1, <1>2, <2>1, <2>2, <2>3, <2>5, <2>8, <2>9, EndStep
<1> QED
  BY <1>3, <1>4 DEF Close

(* BdtConnectionReset *)
LEMMA ResetInv == ASSUME Inv, NEW e \in End, Reset(e) PROVE Inv'
<1> USE Names
<1> DEFINE c == conn[e]
           connecting == c.state \in {"NONE", "CONNECTING"}
           d == [c EXCEPT !.state = "CLOSED", !.listed = FALSE, !.callback = @ /\ ~connecting]
           l == IF connecting \/ c.provider = "WAITING" THEN "idle" ELSE ResetCall(c.provider)
<1>1. /\ Types /\ c \in Conn /\ LocalInv(c, pc[e]) /\ pc \in [End -> [Thread -> Label]]
      /\ pc[e] \in [Thread -> Label] /\ acceptor \in AcceptorRec
  BY DEF Inv, Types, Locals
<1>2. /\ pc[e]["user"] = "idle"
      /\ UNCHANGED <<created, offered, cached, confirmation, ackTimer,
                     synTimer, builder, waiting, refused, udp, tcpPackages, crashed>>
      /\ e = "passive" => created
      /\ c.state # "CLOSED"
  BY DEF Reset, HasConnection, At, Inv, PassiveBegins, passiveVars, activeVars
<1>3. /\ connector' \in {connector, "NULL", "FREED"}
      /\ acceptor' \in {acceptor, Acceptor("FREED", FALSE)}
      /\ e = "active" => acceptor' = acceptor
      /\ tcp' \in {tcp, "broken"}
  BY DEF Reset
<1>4. acceptor' \in AcceptorRec /\ (acceptor'.confirmed => acceptor.confirmed)
  BY <1>1, <1>3, AcceptorTypes
<1>5. conn' = [conn EXCEPT ![e] = d] /\ Goto(e, "user", l)
  BY <1>1 DEF Reset, Types
<1>6. d \in Conn
  BY <1>1 DEF Conn, State
<1>7. /\ d.state = "CLOSED" /\ d.provider = c.provider /\ (d.callback => c.callback /\ ~connecting)
      /\ d.reported = c.reported /\ d.firstAnswer = c.firstAnswer /\ d.calls = c.calls
  BY <1>1 DEF Conn
<1> HIDE DEF d
<1>8. l \in Label /\ l \in {"idle", ResetCall(c.provider)} /\ ResetCall(c.provider) \in Calling
  BY DEF Label, Calling, ResetCall
<1>9. /\ pc' \in [End -> [Thread -> Label]]
      /\ pc'[e] = Moved(pc[e], "user", l)
      /\ pc'[e]["user"] = l
      /\ \A u \in Thread \ {"user"} : pc'[e][u] = pc[e][u]
      /\ \A f \in End \ {e} : pc'[f] = pc[f]
  BY <1>1, <1>5, <1>8, Goes
<1>10. pc'[e] = IF connecting \/ c.provider = "WAITING" THEN pc[e] ELSE Moved(pc[e], "user", ResetCall(c.provider))
  BY <1>1, <1>2, <1>9, MovedNowhere
<1>11. LocalInv(d, pc'[e])
  <2>1. CASE connecting
    <3>1. c.reported = <<>>
      BY <1>1, <2>1 DEF LocalInv, NothingEarly
    <3> QED
      BY <1>1, <1>6, <1>7, <1>10, <2>1, <3>1, EndLocal
  <2>2. CASE ~connecting
    <3>1. c.reported # <<"error">> /\ c.state \in {"ESTABLISH", "CLOSING"}
      BY <1>1, <1>2, <2>2 DEF LocalInv, ReportFits, Conn, State
    <3>2. pc'[e] = IF c.provider = "WAITING" THEN pc[e] ELSE Moved(pc[e], "user", ResetCall(c.provider))
      BY <1>10, <2>2
    <3>3. (d.callback => c.callback) /\ pc'[e] \in [Thread -> Label]
      BY <1>7, <1>9
    <3> HIDE DEF connecting, l
    <3> QED
      BY <1>1, <1>2, <1>6, <1>7, <1>8, <3>1, <3>2, <3>3, CloseLocal
  <2> QED
    BY <2>1, <2>2
<1>12. \A u \in Thread : pc'[e][u] = pc[e][u] \/ (u = "user" /\ pc'[e][u] \in Calling)
  BY <1>2, <1>8, <1>9
<1> QED
  BY <1>1, <1>2, <1>3, <1>4, <1>5, <1>6, <1>7, <1>9, <1>11, <1>12, EndStep

(* ConnectionTryFinishConnectingWithError *)
LEMMA FinishInv ==
  ASSUME Inv, NEW e \in End, FinishWithError(e), tcp' \in {tcp, "broken"},
         UNCHANGED <<pc, created, offered, cached, confirmation, ackTimer,
                     synTimer, builder, waiting, refused, udp, tcpPackages, crashed>>
  PROVE  Inv'
<1> USE Names
<1> DEFINE c == conn[e]
           r == Report(c, "error")
           d == [c EXCEPT !.state = "CLOSED", !.listed = FALSE, !.callback = FALSE, !.reported = r]
<1>1. /\ Types /\ c \in Conn /\ LocalInv(c, pc[e]) /\ pc \in [End -> [Thread -> Label]]
      /\ pc[e] \in [Thread -> Label] /\ acceptor \in AcceptorRec
  BY DEF Inv, Types, Locals
<1>2. c.state = "CONNECTING" /\ (e = "passive" => created)
  BY DEF FinishWithError, Inv, PassiveBegins
<1>3. c.reported = <<>>
  BY <1>1, <1>2 DEF LocalInv, NothingEarly
<1>4. r \in {<<>>, <<"error">>}
  BY <1>1, <1>3, ReportOnce DEF LocalInv
<1>5. conn' = [conn EXCEPT ![e] = d]
  BY <1>1 DEF FinishWithError, Types
<1>6. /\ connector' \in {connector, "NULL", "FREED"}
      /\ acceptor' \in {acceptor, NoAcceptor}
      /\ e = "active" => acceptor' = acceptor
  BY DEF FinishWithError, Dropped
<1>7. acceptor' \in AcceptorRec /\ (acceptor'.confirmed => acceptor.confirmed)
  <2>1. ~NoAcceptor.confirmed
    BY DEF NoAcceptor
  <2> QED
    BY <1>1, <1>6, <2>1, AcceptorTypes
<1> HIDE DEF r
<1>8. d \in Conn
  BY <1>1, <1>4 DEF Conn, State
<1>9. /\ d.state = "CLOSED" /\ ~d.callback /\ d.provider = c.provider
      /\ d.reported = r /\ d.firstAnswer = c.firstAnswer
  BY <1>1 DEF Conn
<1> HIDE DEF d
<1>10. LocalInv(d, pc'[e])
  BY <1>1, <1>2, <1>4, <1>8, <1>9, EndLocal
<1> QED
  BY <1>1, <1>2, <1>3, <1>4, <1>5, <1>6, <1>7, <1>8, <1>9, <1>10, EndStep

(* ConnectionOnConnectTimeout and ConnectionOnTcpError.                    *)
LEMMA FailInv ==
  ASSUME Inv, TcpError \/ \E e \in End : ConnectTimeout(e)
  PROVE  Inv'
<1>1. CASE \E e \in End : ConnectTimeout(e)
  <2>1. PICK e \in End : ConnectTimeout(e)
    BY <1>1
  <2>2. FinishWithError(e) /\ tcp' \in {tcp, "broken"}
    BY <2>1 DEF ConnectTimeout
  <2>3. UNCHANGED <<pc, created, offered, cached, confirmation, ackTimer,
                    synTimer, builder, waiting, refused, udp, tcpPackages, crashed>>
    BY <2>1 DEF ConnectTimeout, passiveVars, activeVars
  <2> QED
    BY <2>2, <2>3, FinishInv
<1>2. CASE TcpError
  <2>1. tcp' = "broken" /\ UNCHANGED <<pc, created, offered, cached, confirmation, ackTimer,
                                       synTimer, builder, waiting, refused, udp, tcpPackages, crashed>>
    BY <1>2 DEF TcpError, passiveVars, activeVars
  <2>2. CASE \E e \in End : OwnsTcp(e) /\ FinishWithError(e)
    BY <2>1, <2>2, FinishInv
  <2>3. CASE UNCHANGED <<conn, connector, acceptor>>
    <3>1. Types'
      BY <2>1, <2>3 DEF Inv, Types
    <3> QED
      BY <2>1, <2>3, <3>1, OnlyAround DEF Inv, NoAnswerBefore
  <2> QED
    BY <1>2, <2>2, <2>3 DEF TcpError
<1> QED
  BY <1>1, <1>2

-----------------------------------------------------------------------------
(* The passive end                                                         *)

Accepting == {"idle", "syn", "synNew", "tcpSyn", "tcpSynNew", "tcpBound", "tcpBoundNew"}

(* A thread of the passive end moves on, and its connection changes at     *)
(* most as a section that accepts or confirms changes it.                  *)
LEMMA PassiveMove ==
  ASSUME Inv, NEW t \in Thread, NEW l \in Label, NEW d \in Conn,
         Goto("passive", t, l), conn' = [conn EXCEPT !["passive"] = d],
         pc["passive"][t] \notin Establishing \cup Calling, l \notin Establishing \cup Calling,
         l \in Trying => conn["passive"].state # "NONE",
         d.provider = conn["passive"].provider, d.calls = conn["passive"].calls,
         d.reported = conn["passive"].reported,
         \/ /\ d.state = conn["passive"].state
            /\ d.callback => conn["passive"].callback \/ conn["passive"].reported = <<>>
         \/ conn["passive"].state \in {"NONE", "CONNECTING"} /\ d.state = "CONNECTING"
  PROVE  /\ conn' \in [End -> Conn]
         /\ conn'["active"] = conn["active"]
         /\ conn'["passive"] = d
         /\ pc' \in [End -> [Thread -> Label]]
         /\ pc'["active"] = pc["active"]
         /\ pc'["passive"][t] = l
         /\ \A u \in Thread \ {t} : pc'["passive"][u] = pc["passive"][u]
         /\ LocalInv(d, pc'["passive"])
<1> USE Names
<1> DEFINE c == conn["passive"]
<1>1. Types /\ c \in Conn /\ LocalInv(c, pc["passive"])
  BY DEF Inv, Types, Locals
<1>2. /\ conn' \in [End -> Conn]
      /\ conn'["active"] = conn["active"]
      /\ conn'["passive"] = d
  BY <1>1, Becomes
<1>3. /\ pc' \in [End -> [Thread -> Label]]
      /\ pc["passive"] \in [Thread -> Label]
      /\ pc'["passive"] = Moved(pc["passive"], t, l)
      /\ pc'["active"] = pc["active"]
      /\ pc'["passive"][t] = l
      /\ \A u \in Thread \ {t} : pc'["passive"][u] = pc["passive"][u]
  BY <1>1, Goes
<1>4. LocalInv(c, pc'["passive"]) /\ pc'["passive"] \in [Thread -> Label]
  BY <1>1, <1>3, MoveLocal
<1>5. LocalInv(d, pc'["passive"])
  <2>1. CASE d.state = c.state /\ (d.callback => c.callback \/ c.reported = <<>>)
    BY <1>1, <1>4, <2>1, NoteLocal
  <2>2. CASE c.state \in {"NONE", "CONNECTING"} /\ d.state = "CONNECTING"
    BY <1>1, <1>4, <2>2, BeginLocal
  <2> QED
    BY <2>1, <2>2
<1> QED
  BY <1>2, <1>3, <1>5

(* A step that sends no answer while there is none.                        *)
LEMMA StillNoAnswer ==
  ASSUME Inv, conn'["passive"].firstAnswer = conn["passive"].firstAnswer,
         \A e \in End : conn'[e].reported = conn[e].reported,
         udp' = udp, tcpPackages' \subseteq tcpPackages,
         acceptor'.confirmed => acceptor.confirmed,
         UNCHANGED <<cached, confirmation, ackTimer>>,
         pc'["active"] = pc["active"],
         \A u \in Thread : pc'["passive"][u] = pc["passive"][u] \/ pc'["passive"][u] \in Accepting
  PROVE  NoAnswerBefore'
<1> USE Names
<1> SUFFICES ASSUME ~conn["passive"].firstAnswer, ~conn'["passive"].firstAnswer
             PROVE  NoAnswerBefore'
  BY DEF NoAnswerBefore
<1>1. Accepting \cap (Trying \cup Establishing \cup {"cache", "confirm", "sendAck", "ackType", "resendAck"}) = {}
  BY DEF Accepting, Trying, Establishing
<1>2. \A e \in End : \A u \in Thread : pc'[e][u] \notin Trying \cup Establishing
  <2>1. \A u \in Thread : pc'["active"][u] \notin Trying \cup Establishing
    BY DEF Inv, NoAnswerBefore
  <2>2. \A u \in Thread : pc'["passive"][u] \notin Trying \cup Establishing
    BY <1>1 DEF Inv, NoAnswerBefore
  <2> QED
    BY <2>1, <2>2
<1>3. /\ pc'["passive"]["app"] \notin {"cache", "confirm", "sendAck"}
      /\ pc'["passive"]["timer"] \notin {"ackType", "resendAck"}
  BY <1>1 DEF Inv, NoAnswerBefore
<1>4. ~acceptor'.confirmed /\ ~cached /\ ackTimer = "off" /\ confirmation = "none"
  BY DEF Inv, NoAnswerBefore
<1>5. \A e \in End : conn'[e].reported # <<"ok">>
  BY DEF Inv, NoAnswerBefore
<1>6. udp' \cap {"ack", "ackack"} = {} /\ tcpPackages' \cap {"ack", "ackack"} = {}
  BY DEF Inv, NoAnswerBefore
<1> QED
  BY <1>2, <1>3, <1>4, <1>5, <1>6 DEF NoAnswerBefore

(* A thread of the passive end moves on and leaves the connection alone.   *)
LEMMA StayMove ==
  ASSUME Inv, NEW t \in Thread, NEW l \in Label, Goto("passive", t, l),
         pc["passive"][t] \notin Establishing \cup Calling, l \notin Establishing \cup Calling,
         l \in Trying => conn["passive"].state # "NONE",
         t = "app" /\ pc["passive"][t] \in {"cache", "confirm"} => l \in {"cache", "confirm"},
         created, UNCHANGED <<conn, connector, acceptor, created, confirmation, synTimer, builder, waiting, refused, tcp>>,
         offered' \in BOOLEAN, cached' \in BOOLEAN, crashed' \in BOOLEAN,
         ackTimer' \in {"off", "armed", "failed"}, udp' \subseteq udp \cup {"ack"},
         tcpPackages' \subseteq tcpPackages,
         NoAnswerBefore', AnswerComes'
  PROVE  Inv'
<1> USE Names
<1>1. Types /\ conn["passive"] \in Conn
  BY DEF Inv, Types
<1>2. conn' = [conn EXCEPT !["passive"] = conn["passive"]]
  BY <1>1 DEF Types
<1>3. /\ pc' \in [End -> [Thread -> Label]]
      /\ pc'["active"] = pc["active"]
      /\ pc'["passive"][t] = l
      /\ \A u \in Thread \ {t} : pc'["passive"][u] = pc["passive"][u]
      /\ LocalInv(conn["passive"], pc'["passive"])
  BY <1>1, <1>2, PassiveMove
<1>4. Types'
  BY <1>1, <1>3 DEF Types
<1>5. pc["passive"]["app"] \in {"cache", "confirm"} => pc'["passive"]["app"] \in {"cache", "confirm"}
  BY <1>3
<1>6. PassiveTold' /\ PassiveBegins'
  BY <1>5 DEF Inv, PassiveTold, PassiveBegins
<1> QED
  BY <1>3, <1>4, <1>6, PassiveEndStep

(* Bdt_AddPassiveConnection by a thread that goes on to accept.            *)
LEMMA AddInv ==
  ASSUME Inv, NEW t \in Thread, NEW l \in Label, l \in Accepting, Goto("passive", t, l),
         AddPassiveConnection, tcpPackages' \subseteq tcpPackages,
         UNCHANGED <<connector, acceptor, offered, cached, confirmation, ackTimer, synTimer, builder,
                     waiting, refused, udp, tcp, crashed>>
  PROVE  Inv'
<1> USE Names
<1> DEFINE c == conn["passive"]
           d == [c EXCEPT !.listed = TRUE]
<1>1. /\ ~created /\ created' = TRUE
      /\ conn' = [conn EXCEPT !["passive"] = d]
  BY DEF AddPassiveConnection
<1>2. Types /\ c \in Conn /\ c.state = "NONE" /\ pc["passive"][t] = "idle"
  BY <1>1 DEF Inv, Types, PassiveBegins
<1>3. d \in Conn
  BY <1>2 DEF Conn
<1>4. /\ d.state = c.state /\ d.provider = c.provider /\ d.calls = c.calls /\ d.reported = c.reported
      /\ d.callback = c.callback /\ d.firstAnswer = c.firstAnswer
  BY <1>2 DEF Conn
<1> HIDE DEF d
<1>5. Accepting \cap (Establishing \cup Calling \cup Trying \cup {"cache", "confirm"}) = {} /\ "idle" \in Accepting
  BY DEF Accepting, Establishing, Calling, Trying
<1>6. /\ conn' \in [End -> Conn]
      /\ conn'["active"] = conn["active"]
      /\ conn'["passive"] = d
      /\ pc' \in [End -> [Thread -> Label]]
      /\ pc'["active"] = pc["active"]
      /\ pc'["passive"][t] = l
      /\ \A u \in Thread \ {t} : pc'["passive"][u] = pc["passive"][u]
      /\ LocalInv(d, pc'["passive"])
  BY <1>1, <1>2, <1>3, <1>4, <1>5, PassiveMove
<1>7. Types'
  BY <1>1, <1>2, <1>6 DEF Types
<1>8. NoAnswerBefore'
  BY <1>4, <1>6, StillNoAnswer
<1>9. PassiveTold' /\ PassiveBegins' /\ AnswerComes'
  BY <1>1, <1>2, <1>4, <1>6 DEF Inv, PassiveTold, PassiveBegins, AnswerComes
<1> QED
  BY <1>6, <1>7, <1>8, <1>9, PassiveEndStep

(* A section that makes the connection CONNECTING with an acceptor for a   *)
(* builder, or gives that acceptor the TCP connection.                     *)
LEMMA EntersInv ==
  ASSUME Inv, created, NEW t \in Thread, NEW l \in Label, NEW s \in BOOLEAN, l \in Accepting,
         pc["passive"][t] \in Accepting, Goto("passive", t, l), Enters("MAYBE_BUILDER", s),
         \/ conn["passive"].state = "NONE"
         \/ /\ conn["passive"].state = "CONNECTING"
            /\ s /\ t = "tcp" /\ l \in {"tcpBound", "tcpBoundNew"},
         offered' \in BOOLEAN,
         UNCHANGED <<connector, created, cached, confirmation, ackTimer, synTimer, builder, waiting, refused,
                     udp, tcp, tcpPackages, crashed>>
  PROVE  Inv'
<1> USE Names
<1> DEFINE c == conn["passive"]
           d == [c EXCEPT !.state = "CONNECTING", !.timeout = TRUE]
<1>1. conn' = [conn EXCEPT !["passive"] = d] /\ acceptor' = Acceptor("MAYBE_BUILDER", s)
  BY DEF Enters
<1>2. Types /\ c \in Conn
  BY DEF Inv, Types
<1>3. d \in Conn
  BY <1>2 DEF Conn, State
<1>4. /\ d.state = "CONNECTING" /\ d.provider = c.provider /\ d.calls = c.calls /\ d.reported = c.reported
      /\ d.callback = c.callback /\ d.firstAnswer = c.firstAnswer
  BY <1>2 DEF Conn
<1> HIDE DEF d
<1>5. Accepting \cap (Establishing \cup Calling \cup Trying \cup {"cache", "confirm"}) = {}
  BY DEF Accepting, Establishing, Calling, Trying
<1>6. /\ conn' \in [End -> Conn]
      /\ conn'["active"] = conn["active"]
      /\ conn'["passive"] = d
      /\ pc' \in [End -> [Thread -> Label]]
      /\ pc'["active"] = pc["active"]
      /\ pc'["passive"][t] = l
      /\ \A u \in Thread \ {t} : pc'["passive"][u] = pc["passive"][u]
      /\ LocalInv(d, pc'["passive"])
  BY <1>1, <1>2, <1>3, <1>4, <1>5, PassiveMove
<1>7. /\ acceptor' \in AcceptorRec /\ acceptor'.type = "MAYBE_BUILDER" /\ acceptor'.tcp = s
      /\ ~acceptor'.confirmed
  BY <1>1, AcceptorTypes
<1>8. Types'
  BY <1>2, <1>6, <1>7 DEF Types
<1>9. NoAnswerBefore'
  BY <1>4, <1>6, <1>7, StillNoAnswer
<1>10. c.state = "NONE" => ~c.firstAnswer /\ confirmation = "none"
  BY DEF Inv, PassiveBegins, NoAnswerBefore
<1>11. pc["passive"]["app"] \in {"cache", "confirm"} => pc'["passive"]["app"] \in {"cache", "confirm"}
  BY <1>5, <1>6
<1>12. PassiveTold'
  BY <1>4, <1>6, <1>10, <1>11 DEF Inv, PassiveTold
<1>13. PassiveBegins'
  BY <1>4, <1>6, <1>7 DEF PassiveBegins
<1>14. AnswerComes'
  BY <1>6, <1>7, <1>10 DEF AnswerComes
<1> QED
  BY <1>6, <1>8, <1>9, <1>12, <1>13, <1>14, PassiveEndStep

(* Who is on the way to accept works for a connection that was created.    *)
LEMMA AtWork ==
  ASSUME Inv, NEW t \in Thread, pc["passive"][t] # "idle"
  PROVE  created
BY DEF Inv, PassiveBegins

(* A thread moves on, as one that accepts does, and changes nothing else   *)
(* than offered and the TCP packages to come.                              *)
LEMMA AcceptMove ==
  ASSUME Inv, created, NEW t \in Thread, NEW l \in Label, l \in Accepting,
         pc["passive"][t] \in Accepting, Goto("passive", t, l),
         pc["passive"][t] \in {"tcpBound", "tcpBoundNew"} => ~conn["passive"].firstAnswer,
         offered' \in BOOLEAN, tcpPackages' \subseteq tcpPackages,
         UNCHANGED <<conn, connector, acceptor, created, cached, confirmation, ackTimer, synTimer,
                     builder, waiting, refused, udp, tcp, crashed>>
  PROVE  Inv'
<1> USE Names
<1>1. Accepting \cap (Establishing \cup Calling \cup Trying \cup {"cache", "confirm", "sendAck"}) = {}
  BY DEF Accepting, Establishing, Calling, Trying
<1>2. Types
  BY DEF Inv
<1>3. /\ pc'["active"] = pc["active"]
      /\ pc'["passive"][t] = l
      /\ \A u \in Thread \ {t} : pc'["passive"][u] = pc["passive"][u]
  BY <1>2, Goes
<1>4. NoAnswerBefore'
  BY <1>3, StillNoAnswer
<1>5. AnswerComes'
  <2>1. ~conn["passive"].firstAnswer => confirmation = "none"
    BY DEF Inv, NoAnswerBefore
  <2>2. pc["passive"]["app"] \in {"tryStreamAnyway", "sendAck"} => pc'["passive"]["app"] = pc["passive"]["app"]
    BY <1>1, <1>3 DEF Trying
  <2>3. pc["passive"]["tcp"] \in {"tcpBound", "tcpBoundNew", "tryStream"} =>
          pc'["passive"]["tcp"] = pc["passive"]["tcp"] \/ ~conn["passive"].firstAnswer
    BY <1>1, <1>3 DEF Trying
  <2> QED
    BY <2>1, <2>2, <2>3 DEF Inv, AnswerComes
<1>6. cached \in BOOLEAN /\ crashed \in BOOLEAN /\ ackTimer \in {"off", "armed", "failed"}
  BY <1>2 DEF Types
<1> QED
  BY <1>1, <1>4, <1>5, <1>6, StayMove

(* A SYN: OnUdpPackage of the tunnel and Bdt_ConnectionManagerPushPackage. *)
LEMMA ReceiveSynInv == ASSUME Inv, NEW t \in Dispatchers, ReceiveSyn(t) PROVE Inv'
<1> USE Names
<1>1. /\ t \in Thread /\ pc["passive"][t] = "idle"
      /\ UNCHANGED <<connector, acceptor, offered, cached, confirmation, ackTimer, synTimer, builder,
                     waiting, refused, tcp, tcpPackages, crashed>>
  BY DEF ReceiveSyn, At, activeVars
<1>2. /\ {"idle", "syn", "synNew"} \subseteq Accepting /\ {"idle", "syn", "synNew"} \subseteq Label
      /\ {"tcpBound", "tcpBoundNew"} \cap {"idle"} = {}
  BY DEF Accepting, Label
<1>3. CASE cached /\ udp' = udp \cup {"ack"} /\ UNCHANGED <<conn, pc, created>>
  <2>1. conn["passive"].firstAnswer
    BY <1>3 DEF Inv, NoAnswerBefore
  <2>2. Types'
    BY <1>1, <1>3 DEF Inv, Types
  <2>3. LocalInv(conn["active"], pc["active"]) /\ ActiveTold' /\ AppConnects'
    BY <1>3 DEF Inv, Locals, ActiveTold, AppConnects
  <2> QED
    BY <1>1, <1>3, <2>1, <2>2, <2>3, ActiveEndStep
<1>4. CASE AddPassiveConnection /\ Goto("passive", t, "synNew") /\ UNCHANGED udp
  BY <1>1, <1>2, <1>4, AddInv
<1>5. CASE /\ conn["passive"].listed /\ Goto("passive", t, "syn")
           /\ UNCHANGED <<conn, created, udp>>
  <2>1. created /\ offered' \in BOOLEAN
    BY <1>1, <1>5 DEF Inv, PassiveBegins, Types
  <2> QED
    BY <1>1, <1>2, <1>5, <2>1, AcceptMove
<1> QED
  BY <1>3, <1>4, <1>5 DEF ReceiveSyn

(* ConnectionOnSynSessionData *)
LEMMA OnSynInv == ASSUME Inv, NEW t \in Dispatchers, OnSyn(t) PROVE Inv'
<1> USE Names
<1>1. /\ t \in Thread /\ pc["passive"][t] \in {"syn", "synNew"} /\ Goto("passive", t, "idle")
      /\ offered' = (offered \/ pc["passive"][t] = "synNew")
      /\ UNCHANGED <<connector, created, cached, confirmation, ackTimer, synTimer, builder, waiting, refused,
                     udp, tcp, tcpPackages, crashed>>
  BY DEF OnSyn, At, activeVars, netVars
<1>2. /\ "idle" \in Accepting /\ "idle" \in Label /\ pc["passive"][t] \in Accepting
      /\ pc["passive"][t] \notin {"tcpBound", "tcpBoundNew", "idle"}
  BY <1>1 DEF Accepting, Label
<1>3. created /\ offered' \in BOOLEAN
  BY <1>1, <1>2, AtWork DEF Inv, Types
<1>4. CASE conn["passive"].state = "NONE"
  BY <1>1, <1>2, <1>3, <1>4, EntersInv DEF OnSyn
<1>5. CASE conn["passive"].state # "NONE"
  <2>1. UNCHANGED <<conn, acceptor>>
    BY <1>5 DEF OnSyn
  <2> QED
    BY <1>1, <1>2, <1>3, <2>1, AcceptMove
<1> QED
  BY <1>4, <1>5

(* OnTcpFirstPackage of the tunnel container, for a SYN.                   *)
LEMMA ReceiveTcpSynInv == ASSUME Inv, ReceiveTcpSyn PROVE Inv'
<1> USE Names
<1>1. /\ pc["passive"]["tcp"] = "idle" /\ tcpPackages' \subseteq tcpPackages
      /\ UNCHANGED <<connector, acceptor, offered, cached, confirmation, ackTimer, synTimer, builder,
                     waiting, refused, udp, tcp, crashed>>
  BY DEF ReceiveTcpSyn, At, activeVars
<1>2. /\ {"idle", "tcpSyn", "tcpSynNew"} \subseteq Accepting /\ {"idle", "tcpSyn", "tcpSynNew"} \subseteq Label
  BY DEF Accepting, Label
<1>3. CASE AddPassiveConnection /\ Goto("passive", "tcp", "tcpSynNew")
  BY <1>1, <1>2, <1>3, AddInv
<1>4. CASE conn["passive"].listed /\ Goto("passive", "tcp", "tcpSyn") /\ UNCHANGED <<conn, created>>
  <2>1. created /\ offered' \in BOOLEAN
    BY <1>1, <1>4 DEF Inv, PassiveBegins, Types
  <2> QED
    BY <1>1, <1>2, <1>4, <2>1, AcceptMove
<1> QED
  BY <1>3, <1>4 DEF ReceiveTcpSyn

(* ConnectionOnTcpFirstSynPackage *)
LEMMA OnTcpFirstSynInv == ASSUME Inv, OnTcpFirstSyn PROVE Inv'
<1> USE Names
<1>1. /\ pc["passive"]["tcp"] \in {"tcpSyn", "tcpSynNew"}
      /\ UNCHANGED <<connector, created, cached, confirmation, ackTimer, synTimer, builder, waiting, refused,
                     udp, tcp, tcpPackages, crashed>>
  BY DEF OnTcpFirstSyn, activeVars, netVars
<1>2. /\ {"idle", "tcpBound", "tcpBoundNew"} \subseteq Accepting
      /\ {"idle", "tcpBound", "tcpBoundNew"} \subseteq Label
      /\ pc["passive"]["tcp"] \in Accepting
      /\ pc["passive"]["tcp"] \notin {"tcpBound", "tcpBoundNew", "idle"}
  BY <1>1 DEF Accepting, Label
<1>3. created /\ offered \in BOOLEAN
  BY <1>2, AtWork DEF Inv, Types
<1>4. CASE /\ conn["passive"].state \in {"NONE", "CONNECTING"}
           /\ Enters("MAYBE_BUILDER", TRUE)
           /\ \E l \in {"tcpBound", "tcpBoundNew"} : Goto("passive", "tcp", l)
           /\ UNCHANGED offered
  <2>1. PICK l \in {"tcpBound", "tcpBoundNew"} : Goto("passive", "tcp", l)
    BY <1>4
  <2>2. l \in Label /\ l \in Accepting /\ TRUE \in BOOLEAN
    BY <1>2
  <2> QED
    BY <1>1, <1>2, <1>3, <1>4, <2>1, <2>2, EntersInv
<1>5. CASE /\ Goto("passive", "tcp", "idle")
           /\ offered' = (offered \/ At("passive", "tcp", "tcpSynNew"))
           /\ UNCHANGED <<conn, acceptor>>
  <2>1. offered' \in BOOLEAN
    BY <1>3, <1>5 DEF At
  <2> QED
    BY <1>1, <1>2, <1>3, <1>5, <2>1, AcceptMove
<1> QED
  BY <1>4, <1>5 DEF OnTcpFirstSyn

(* Once the application gave its first answer, a thread that leaves the    *)
(* connection alone has only to keep the answer on its way.                *)
LEMMA AnsweredMove ==
  ASSUME Inv, conn["passive"].firstAnswer, NEW t \in Thread, NEW l \in Label, Goto("passive", t, l),
         pc["passive"][t] \notin Establishing \cup Calling, l \notin Establishing \cup Calling,
         t = "app" /\ pc["passive"][t] \in {"cache", "confirm"} => l \in {"cache", "confirm"},
         UNCHANGED <<conn, connector, acceptor, created, confirmation, synTimer, builder, waiting, refused, tcp>>,
         offered' \in BOOLEAN, cached' \in BOOLEAN, crashed' \in BOOLEAN,
         ackTimer' \in {"off", "armed", "failed"}, udp' \subseteq udp \cup {"ack"},
         tcpPackages' \subseteq tcpPackages,
         confirmation = "ok" /\ conn["passive"].state = "CONNECTING" /\ acceptor.type = "MAYBE_BUILDER" =>
           /\ ~(t = "app" /\ pc["passive"][t] = "tryStreamAnyway")
           /\ t = "app" /\ pc["passive"][t] = "sendAck" => ackTimer' # "off"
           /\ t = "tcp" /\ pc["passive"][t] \in {"tcpBound", "tcpBoundNew", "tryStream"} => l = "tryStream"
           /\ ackTimer # "off" => ackTimer' # "off"
  PROVE  Inv'
<1> USE Names
<1>1. Types
  BY DEF Inv
<1>2. created /\ conn["passive"].state # "NONE"
  BY DEF Inv, PassiveBegins
<1>3. pc'["passive"][t] = l /\ \A u \in Thread \ {t} : pc'["passive"][u] = pc["passive"][u]
  BY <1>1, Goes
<1>4. NoAnswerBefore'
  BY DEF NoAnswerBefore
<1>5. AnswerComes'
  BY <1>3 DEF Inv, AnswerComes
<1> QED
  BY <1>2, <1>4, <1>5, StayMove

(* The look of ConnectionOnTcpFirstSynPackage for the first answer.        *)
LEMMA TcpBoundInv == ASSUME Inv, TcpBound PROVE Inv'
<1> USE Names
<1>1. /\ pc["passive"]["tcp"] \in {"tcpBound", "tcpBoundNew"}
      /\ UNCHANGED <<conn, connector, acceptor, created, cached, confirmation, ackTimer, synTimer, builder,
                     waiting, refused, udp, tcp, tcpPackages, crashed>>
  BY DEF TcpBound, activeVars, netVars
<1>2. /\ {"idle", "tryStream"} \subseteq Label /\ "idle" \in Accepting
      /\ pc["passive"]["tcp"] \in Accepting
      /\ pc["passive"]["tcp"] \notin Establishing \cup Calling \cup {"idle"}
      /\ "tryStream" \notin Establishing \cup Calling
  BY <1>1 DEF Accepting, Label, Establishing, Calling
<1>3. /\ created /\ offered \in BOOLEAN /\ cached \in BOOLEAN /\ crashed \in BOOLEAN
      /\ ackTimer \in {"off", "armed", "failed"}
  BY <1>2, AtWork DEF Inv, Types
<1>4. CASE conn["passive"].firstAnswer
  <2>1. Goto("passive", "tcp", "tryStream") /\ UNCHANGED offered
    BY <1>4 DEF TcpBound
  <2> QED
    BY <1>1, <1>2, <1>3, <1>4, <2>1, AnsweredMove
<1>5. CASE ~conn["passive"].firstAnswer
  <2>1. /\ Goto("passive", "tcp", "idle")
        /\ offered' = (offered \/ pc["passive"]["tcp"] = "tcpBoundNew")
    BY <1>5 DEF TcpBound, At
  <2>2. offered' \in BOOLEAN
    BY <1>3, <2>1
  <2> QED
    BY <1>1, <1>2, <1>3, <1>5, <2>1, <2>2, AcceptMove
<1> QED
  BY <1>4, <1>5

(* ConnectionOnAckAckSessionData and ConnectionOnTcpFirstAckAckResp up to  *)
(* their call of Bdt_ConnectionTryEnterEstablish.                          *)
LEMMA ReceiveAckAckInv == ASSUME Inv, NEW t \in Dispatchers, ReceiveAckAck(t) PROVE Inv'
<1> USE Names
<1>1. /\ t \in Thread /\ pc["passive"][t] = "idle" /\ "ackack" \in udp
      /\ Goto("passive", t, "tryPackage")
      /\ UNCHANGED <<conn, connector, acceptor, created, offered, cached, confirmation, ackTimer, synTimer,
                     builder, waiting, refused, udp, tcp, tcpPackages, crashed>>
  BY DEF ReceiveAckAck, At, passiveVars, activeVars, netVars
<1>2. conn["passive"].firstAnswer
  BY <1>1 DEF Inv, NoAnswerBefore
<1>3. /\ "tryPackage" \in Label /\ "tryPackage" \notin Establishing \cup Calling
      /\ "idle" \notin Establishing \cup Calling
  BY DEF Label, Establishing, Calling
<1>4. /\ offered \in BOOLEAN /\ cached \in BOOLEAN /\ crashed \in BOOLEAN
      /\ ackTimer \in {"off", "armed", "failed"}
  BY DEF Inv, Types
<1> QED
  BY <1>1, <1>2, <1>3, <1>4, AnsweredMove

(* The same answer over the stream.                                        *)
LEMMA ReceiveTcpAckAckInv == ASSUME Inv, ReceiveTcpAckAck PROVE Inv'
<1> USE Names
<1>1. /\ pc["passive"]["tcp"] = "idle" /\ "ackack" \in tcpPackages
      /\ tcpPackages' \subseteq tcpPackages
      /\ UNCHANGED <<conn, connector, acceptor, created, offered, cached, confirmation, ackTimer, synTimer,
                     builder, waiting, refused, udp, tcp, crashed>>
  BY DEF ReceiveTcpAckAck, At, passiveVars, activeVars
<1>2. conn["passive"].firstAnswer
  BY <1>1 DEF Inv, NoAnswerBefore
<1>3. /\ "tryStream" \in Label /\ "tryStream" \notin Establishing \cup Calling
      /\ "idle" \notin Establishing \cup Calling
  BY DEF Label, Establishing, Calling
<1>4. /\ offered \in BOOLEAN /\ cached \in BOOLEAN /\ crashed \in BOOLEAN
      /\ ackTimer \in {"off", "armed", "failed"}
  BY DEF Inv, Types
<1>5. CASE Goto("passive", "tcp", "tryStream")
  BY <1>1, <1>2, <1>3, <1>4, <1>5, AnsweredMove
<1>6. CASE UNCHANGED pc
  <2>1. Types'
    BY <1>1, <1>6 DEF Inv, Types
  <2> QED
    BY <1>1, <1>2, <1>6, <2>1, OnlyAround
<1> QED
  BY <1>5, <1>6 DEF ReceiveTcpAckAck

(* Bdt_AddReverseConnectStreamConnection *)
LEMMA ReceiveReverseSynInv == ASSUME Inv, NEW t \in Dispatchers, ReceiveReverseSyn(t) PROVE Inv'
<1> USE Names
<1> DEFINE c == conn["passive"]
           d == [c EXCEPT !.state = "CONNECTING", !.timeout = TRUE, !.listed = TRUE]
<1>1. /\ ~created /\ created' = TRUE /\ offered' = TRUE /\ tcp' = "connecting"
      /\ conn' = [conn EXCEPT !["passive"] = d]
      /\ acceptor' = Acceptor("REVERSE_STREAM", TRUE)
      /\ UNCHANGED <<connector, pc, cached, confirmation, ackTimer, synTimer, builder, waiting, refused,
                     udp, tcpPackages, crashed>>
  BY DEF ReceiveReverseSyn, activeVars
<1>2. /\ Types /\ c \in Conn /\ c.state = "NONE" /\ ~c.firstAnswer /\ LocalInv(c, pc["passive"])
      /\ pc["passive"] \in [Thread -> Label]
  BY <1>1 DEF Inv, Types, Locals, PassiveBegins
<1>3. d \in Conn
  BY <1>2 DEF Conn, State
<1>4. /\ d.state = "CONNECTING" /\ d.provider = c.provider /\ d.calls = c.calls /\ d.reported = c.reported
      /\ d.callback = c.callback /\ d.firstAnswer = c.firstAnswer
  BY <1>2 DEF Conn
<1> HIDE DEF d
<1>5. /\ conn' \in [End -> Conn] /\ conn'["passive"] = d /\ conn'["active"] = conn["active"]
  BY <1>1, <1>2, <1>3, Becomes
<1>6. /\ acceptor' \in AcceptorRec /\ acceptor'.type = "REVERSE_STREAM" /\ ~acceptor'.confirmed
  BY <1>1, AcceptorTypes
<1>7. Types'
  BY <1>1, <1>2, <1>5, <1>6, ZenonT(40) DEF Types
<1>8. LocalInv(d, pc'["passive"])
  BY <1>1, <1>2, <1>3, <1>4, BeginLocal
<1>9. NoAnswerBefore'
  BY <1>1, <1>4, <1>5, <1>6, StillNoAnswer
<1>10. PassiveTold' /\ PassiveBegins' /\ AnswerComes'
  BY <1>1, <1>2, <1>4, <1>5, <1>6 DEF PassiveTold, PassiveBegins, AnswerComes
<1> QED
  BY <1>1, <1>5, <1>7, <1>8, <1>9, <1>10, PassiveEndStep

(* BdtConfirmConnection up to its compare and swap.                        *)
LEMMA ConfirmInv == ASSUME Inv, Confirm PROVE Inv'
<1> USE Names
<1> DEFINE c == conn["passive"]
           d == [c EXCEPT !.firstAnswer = TRUE]
<1>1. /\ offered /\ pc["passive"]["app"] = "idle" /\ c.state = "CONNECTING" /\ ~c.firstAnswer
      /\ conn' = [conn EXCEPT !["passive"] = d]
      /\ Goto("passive", "app", "cache")
      /\ UNCHANGED <<connector, acceptor, created, offered, cached, confirmation, ackTimer, synTimer,
                     builder, waiting, refused, udp, tcp, tcpPackages, crashed>>
  BY DEF Confirm, At, passiveVars, activeVars, netVars
<1>2. Types /\ c \in Conn /\ created /\ confirmation = "none"
  BY <1>1 DEF Inv, Types, PassiveBegins, NoAnswerBefore
<1>3. d \in Conn
  BY <1>2 DEF Conn
<1>4. /\ d.state = c.state /\ d.provider = c.provider /\ d.calls = c.calls /\ d.reported = c.reported
      /\ d.callback = c.callback /\ d.firstAnswer = TRUE
  BY <1>2 DEF Conn
<1> HIDE DEF d
<1>5. "cache" \in Label /\ {"idle", "cache"} \cap (Establishing \cup Calling \cup Trying) = {}
  BY DEF Label, Establishing, Calling, Trying
<1>6. /\ conn' \in [End -> Conn]
      /\ conn'["active"] = conn["active"]
      /\ conn'["passive"] = d
      /\ pc' \in [End -> [Thread -> Label]]
      /\ pc'["active"] = pc["active"]
      /\ pc'["passive"]["app"] = "cache"
      /\ LocalInv(d, pc'["passive"])
  BY <1>1, <1>2, <1>3, <1>4, <1>5, PassiveMove, ZenonT(60)
<1>7. Types'
  BY <1>1, <1>2, <1>6 DEF Types
<1>8. NoAnswerBefore' /\ PassiveTold' /\ PassiveBegins' /\ AnswerComes'
  BY <1>1, <1>2, <1>4, <1>6 DEF Inv, NoAnswerBefore, PassiveTold, PassiveBegins, AnswerComes
<1> QED
  BY <1>6, <1>7, <1>8, PassiveEndStep

(* BdtTunnel_SetCachedResponse *)
LEMMA SetCachedResponseInv == ASSUME Inv, SetCachedResponse PROVE Inv'
<1> USE Names
<1>1. /\ pc["passive"]["app"] = "cache" /\ Goto("passive", "app", "confirm") /\ cached' \in BOOLEAN
      /\ UNCHANGED <<conn, connector, acceptor, created, offered, confirmation, ackTimer, synTimer,
                     builder, waiting, refused, udp, tcp, tcpPackages, crashed>>
  BY DEF SetCachedResponse, At, activeVars, netVars
<1>2. conn["passive"].firstAnswer
  BY <1>1 DEF Inv, NoAnswerBefore
<1>3. "confirm" \in Label /\ {"cache", "confirm"} \cap (Establishing \cup Calling) = {}
  BY DEF Label, Establishing, Calling
<1>4. offered \in BOOLEAN /\ crashed \in BOOLEAN /\ ackTimer \in {"off", "armed", "failed"}
  BY DEF Inv, Types
<1> QED
  BY <1>1, <1>2, <1>3, <1>4, AnsweredMove

(* The section of BdtConfirmConnection.                                    *)
LEMMA ConfirmSectionInv == ASSUME Inv, ConfirmSection PROVE Inv'
<1> USE Names
<1> DEFINE c == conn["passive"]
<1>1. /\ pc["passive"]["app"] = "confirm"
      /\ UNCHANGED <<connector, created, offered, cached, ackTimer, synTimer,
                     builder, waiting, refused, udp, tcp, tcpPackages, crashed>>
  BY DEF ConfirmSection, At, activeVars, netVars
<1>2. Types /\ c \in Conn /\ c.firstAnswer /\ c.state # "NONE" /\ created /\ acceptor \in AcceptorRec
  BY <1>1 DEF Inv, Types, PassiveBegins, NoAnswerBefore
<1>3. /\ {"idle", "sendAck", "tryStreamAnyway"} \subseteq Label
      /\ {"confirm", "idle", "sendAck", "tryStreamAnyway"} \cap (Establishing \cup Calling) = {}
  BY DEF Label, Establishing, Calling
<1>4. CASE c.state = "CONNECTING"
  <2> DEFINE d == [c EXCEPT !.callback = TRUE]
             l == CASE acceptor.type = "REVERSE_STREAM" -> "idle"
                    [] acceptor.tcp -> "tryStreamAnyway"
                    [] OTHER -> "sendAck"
  <2>1. /\ confirmation' = "ok"
        /\ conn' = [conn EXCEPT !["passive"] = d]
        /\ acceptor' = [acceptor EXCEPT !.confirmed = TRUE]
        /\ Goto("passive", "app", l)
    BY <1>4 DEF ConfirmSection
  <2>2. d \in Conn
    BY <1>2 DEF Conn
  <2>3. /\ d.state = c.state /\ d.provider = c.provider /\ d.calls = c.calls /\ d.reported = c.reported
        /\ d.callback = TRUE /\ d.firstAnswer = c.firstAnswer
    BY <1>2 DEF Conn
  <2>4. /\ acceptor' \in AcceptorRec /\ acceptor'.type = acceptor.type /\ acceptor'.tcp = acceptor.tcp
    BY <1>2, <2>1 DEF AcceptorRec
  <2>5. /\ l \in {"idle", "sendAck", "tryStreamAnyway"}
        /\ acceptor.type = "MAYBE_BUILDER" => l = IF acceptor.tcp THEN "tryStreamAnyway" ELSE "sendAck"
    <3>1. CASE acceptor.type = "REVERSE_STREAM"
      BY <3>1
    <3>2. CASE acceptor.type # "REVERSE_STREAM" /\ acceptor.tcp
      BY <3>2
    <3>3. CASE acceptor.type # "REVERSE_STREAM" /\ ~acceptor.tcp
      BY <3>3
    <3> QED
      BY <3>1, <3>2, <3>3
  <2>6. c.reported = <<>>
    BY <1>4 DEF Inv, Locals, LocalInv, NothingEarly
  <2> HIDE DEF d, l
  <2>7. /\ conn' \in [End -> Conn]
        /\ conn'["active"] = conn["active"]
        /\ conn'["passive"] = d
        /\ pc' \in [End -> [Thread -> Label]]
        /\ pc'["active"] = pc["active"]
        /\ pc'["passive"]["app"] = l
        /\ LocalInv(d, pc'["passive"])
    BY <1>1, <1>2, <1>3, <2>1, <2>2, <2>3, <2>5, <2>6, PassiveMove, ZenonT(40)
  <2>8. Types'
    BY <1>1, <1>2, <2>1, <2>4, <2>7 DEF Types
  <2>9. NoAnswerBefore' /\ PassiveTold' /\ PassiveBegins'
    BY <1>1, <1>2, <1>4, <2>1, <2>3, <2>4, <2>7 DEF Inv, NoAnswerBefore, PassiveTold, PassiveBegins
  <2>10. AnswerComes'
    BY <2>4, <2>5, <2>7 DEF AnswerComes
  <2> QED
    BY <2>7, <2>8, <2>9, <2>10, PassiveEndStep
<1>5. CASE c.state # "CONNECTING"
  <2>1. confirmation' = "refused" /\ Goto("passive", "app", "idle") /\ UNCHANGED <<conn, acceptor>>
    BY <1>5 DEF ConfirmSection
  <2>2. conn' = [conn EXCEPT !["passive"] = c]
    BY <1>2, <2>1 DEF Types
  <2>3. /\ pc' \in [End -> [Thread -> Label]]
        /\ pc'["active"] = pc["active"]
        /\ pc'["passive"]["app"] = "idle"
        /\ LocalInv(c, pc'["passive"])
    BY <1>1, <1>2, <1>3, <2>1, <2>2, PassiveMove DEF Trying
  <2>4. Types'
    BY <1>1, <1>2, <2>1, <2>3 DEF Types
  <2>5. NoAnswerBefore' /\ PassiveTold' /\ PassiveBegins' /\ AnswerComes'
    BY <1>1, <1>2, <1>5, <2>1, <2>3 DEF Inv, NoAnswerBefore, PassiveTold, PassiveBegins, AnswerComes
  <2> QED
    BY <2>1, <2>3, <2>4, <2>5, PassiveEndStep
<1> QED
  BY <1>4, <1>5

(* ConnectionConfirmWithPackage *)
LEMMA ConfirmWithPackageInv == ASSUME Inv, ConfirmWithPackage PROVE Inv'
<1> USE Names
<1>1. /\ pc["passive"]["app"] = "sendAck" /\ Goto("passive", "app", "idle")
      /\ udp' \subseteq udp \cup {"ack"} /\ ackTimer' = "armed" /\ crashed' \in BOOLEAN
      /\ UNCHANGED <<conn, connector, acceptor, created, offered, cached, confirmation, synTimer,
                     builder, waiting, refused, tcp, tcpPackages>>
  BY DEF ConfirmWithPackage, At, activeVars
<1>2. conn["passive"].firstAnswer
  BY <1>1 DEF Inv, NoAnswerBefore
<1>3. "idle" \in Label /\ {"idle", "sendAck"} \cap (Establishing \cup Calling) = {}
  BY DEF Label, Establishing, Calling
<1>4. offered \in BOOLEAN /\ cached \in BOOLEAN
  BY DEF Inv, Types
<1> QED
  BY <1>1, <1>2, <1>3, <1>4, AnsweredMove

(* ConnectionOnSendAckTimer *)
LEMMA AckTimerInv == ASSUME Inv, AckTimer PROVE Inv'
<1> USE Names
<1>1. /\ ackTimer = "armed" /\ pc["passive"]["timer"] = "idle"
      /\ UNCHANGED <<conn, connector, acceptor, created, offered, cached, confirmation, synTimer,
                     builder, waiting, refused, udp, tcp, tcpPackages, crashed>>
  BY DEF AckTimer, At, activeVars, netVars
<1>2. conn["passive"].firstAnswer
  BY <1>1 DEF Inv, NoAnswerBefore
<1>3. /\ {"idle", "ackType"} \subseteq Label /\ {"idle", "ackType"} \cap (Establishing \cup Calling) = {}
  BY DEF Label, Establishing, Calling
<1>4. offered \in BOOLEAN /\ cached \in BOOLEAN /\ crashed \in BOOLEAN
  BY DEF Inv, Types
<1>5. CASE Goto("passive", "timer", "ackType") /\ UNCHANGED ackTimer
  BY <1>1, <1>2, <1>3, <1>4, <1>5, AnsweredMove
<1>6. CASE conn["passive"].state # "CONNECTING" /\ ackTimer' = "off" /\ UNCHANGED pc
  <2>1. Types'
    BY <1>1, <1>6 DEF Inv, Types
  <2>2. NoAnswerBefore' /\ PassiveTold' /\ PassiveBegins' /\ AnswerComes'
    BY <1>1, <1>2, <1>6 DEF Inv, NoAnswerBefore, PassiveTold, PassiveBegins, AnswerComes
  <2>3. LocalInv(conn["passive"], pc["passive"])
    BY DEF Inv, Locals
  <2> QED
    BY <1>1, <1>6, <2>1, <2>2, <2>3, PassiveEndStep
<1> QED
  BY <1>5, <1>6 DEF AckTimer

(* Its look at the acceptor ...                                            *)
LEMMA AckTypeInv == ASSUME Inv, AckType PROVE Inv'
<1> USE Names
<1>1. /\ pc["passive"]["timer"] = "ackType"
      /\ UNCHANGED <<conn, connector, acceptor, created, offered, cached, confirmation, synTimer,
                     builder, waiting, refused, udp, tcp, tcpPackages>>
  BY DEF AckType, At, activeVars, netVars
<1>2. conn["passive"].firstAnswer
  BY <1>1 DEF Inv, NoAnswerBefore
<1>3. /\ {"idle", "resendAck"} \subseteq Label
      /\ {"idle", "ackType", "resendAck"} \cap (Establishing \cup Calling) = {}
  BY DEF Label, Establishing, Calling
<1>4. /\ offered \in BOOLEAN /\ cached \in BOOLEAN /\ crashed \in BOOLEAN
      /\ ackTimer \in {"off", "armed", "failed"}
  BY DEF Inv, Types
<1>5. CASE crashed' = TRUE /\ UNCHANGED <<pc, ackTimer>>
  <2>1. Types'
    BY <1>1, <1>5 DEF Inv, Types
  <2> QED
    BY <1>1, <1>5, <2>1, OnlyAround DEF Inv, NoAnswerBefore
<1>6. CASE Goto("passive", "timer", "resendAck") /\ crashed' \in BOOLEAN /\ UNCHANGED ackTimer
  BY <1>1, <1>2, <1>3, <1>4, <1>6, AnsweredMove
<1>7. CASE /\ acceptor.type # "MAYBE_BUILDER" /\ ackTimer' = "off"
           /\ Goto("passive", "timer", "idle") /\ UNCHANGED crashed
  BY <1>1, <1>2, <1>3, <1>4, <1>7, AnsweredMove
<1> QED
  BY <1>5, <1>6, <1>7 DEF AckType

(* ... and its call of ConnectionSendAck.                                  *)
LEMMA ResendAckInv == ASSUME Inv, ResendAck PROVE Inv'
<1> USE Names
<1>1. /\ pc["passive"]["timer"] = "resendAck" /\ Goto("passive", "timer", "idle")
      /\ UNCHANGED <<conn, connector, acceptor, created, offered, cached, confirmation, synTimer,
                     builder, waiting, refused, tcp, tcpPackages>>
  BY DEF ResendAck, At, activeVars
<1>2. conn["passive"].firstAnswer
  BY <1>1 DEF Inv, NoAnswerBefore
<1>3. "idle" \in Label /\ {"idle", "resendAck"} \cap (Establishing \cup Calling) = {}
  BY DEF Label, Establishing, Calling
<1>4. /\ offered \in BOOLEAN /\ cached \in BOOLEAN /\ crashed \in BOOLEAN
      /\ ackTimer \in {"off", "armed", "failed"}
  BY DEF Inv, Types
<1>5. /\ udp' \subseteq udp \cup {"ack"}
      /\ ackTimer' \in {ackTimer, "failed"}
      /\ crashed' \in BOOLEAN
  BY <1>4 DEF ResendAck
<1> QED
  BY <1>1, <1>2, <1>3, <1>4, <1>5, AnsweredMove

-----------------------------------------------------------------------------
(* The invariant holds when both connections are created.                  *)
LEMMA InvInit == Init => Inv
<1> SUFFICES ASSUME Init PROVE Inv
  OBVIOUS
<1> USE Names
<1> USE DEF Init
<1>1. /\ conn \in [End -> Conn]
      /\ \A e \in End : /\ conn[e].state = "NONE" /\ conn[e].provider = "WAITING"
                        /\ conn[e].callback = FALSE /\ conn[e].reported = <<>>
                        /\ conn[e].firstAnswer = FALSE
      /\ conn["passive"].listed = FALSE
  BY DEF Conn, State
<1>2. pc \in [End -> [Thread -> Label]] /\ \A e \in End : \A t \in Thread : pc[e][t] = "idle"
  BY DEF Label
<1>3. acceptor \in AcceptorRec /\ ~acceptor.confirmed
  BY AcceptorTypes DEF NoAcceptor
<1>4. Types
  BY <1>1, <1>2, <1>3 DEF Types
<1>5. <<>> # <<"ok">> /\ <<>> # <<"error">>
  OBVIOUS
<1>6. "idle" \notin Trying \cup Establishing \cup Calling
  BY DEF Trying, Establishing, Calling
<1>11. /\ udp = {} /\ tcpPackages = {}
       /\ ~cached /\ ackTimer = "off" /\ confirmation = "none"
  OBVIOUS
<1> HIDE DEF Init
<1>7. Locals
  BY <1>1, <1>2, <1>5, <1>6 DEF Locals, LocalInv, NothingEarly, ProviderComes, CloseComes, ResetComes, ReportFits
<1>8. NoAnswerBefore
  BY <1>1, <1>2, <1>3, <1>5, <1>6, <1>11 DEF NoAnswerBefore
<1>9. ActiveTold /\ AppConnects /\ PassiveTold
  BY <1>1, <1>2 DEF ActiveTold, AppConnects, Connecting, PassiveTold
<1>10. PassiveBegins /\ AnswerComes
  BY <1>1, <1>2 DEF Init, PassiveBegins, AnswerComes
<1> QED
  BY <1>4, <1>7, <1>8, <1>9, <1>10 DEF Inv

(* Every section, call and package keeps it.                               *)
LEMMA InvNext == Inv /\ [Next]_vars => Inv'
<1> SUFFICES ASSUME Inv, [Next]_vars PROVE Inv'
  OBVIOUS
<1>1. CASE UNCHANGED vars
  <2>1. UNCHANGED <<conn, connector, acceptor, pc, created, offered, cached, confirmation, ackTimer,
                    synTimer, builder, waiting, refused, udp, tcp, tcpPackages, crashed>>
    BY <1>1 DEF vars, passiveVars, activeVars, netVars
  <2>2. Types'
    BY <2>1 DEF Inv, Types
  <2> QED
    BY <2>1, <2>2, OnlyAround DEF Inv, NoAnswerBefore
<1>2. CASE Calls
  BY <1>2, ConnectInv, ConfirmInv, CloseInv, ResetInv DEF Calls
<1>3. CASE Receives
  BY <1>3, ReceiveAckInv, ReceiveSynInv, ReceiveReverseSynInv, ReceiveAckAckInv, AroundInv,
     ReceiveTcpAckInv, ReceiveTcpSynInv, ReceiveTcpAckAckInv DEF Receives
<1>4. CASE \E t \in Thread : PassiveStep(t)
  BY <1>4, OnSynInv, OnTcpFirstSynInv, TcpBoundInv, SetCachedResponseInv, ConfirmSectionInv,
     ConfirmWithPackageInv, AckTypeInv, ResendAckInv DEF PassiveStep
<1>5. CASE \E t \in Thread : ActiveStep(t)
  BY <1>5, ConnectConnectionInv, ConnectWithInv, BeginsInv, ReverseSynInv DEF ActiveStep
<1>6. CASE ResetBuilder \/ \E answer \in SnCalled : BuildTunnelForAcceptConnection(answer)
  BY <1>6, ResetBuilderInv, AroundInv
<1>7. CASE \E e \in End, t \in Thread : Step(e, t)
  BY <1>7, TryEstablishInv, EstablishInv, CallProviderInv DEF Step
<1>8. CASE \/ \E e \in End : ConnectTimeout(e)
           \/ TcpError
           \/ SynTimer
           \/ ReverseSynTimer
           \/ AckTimer
  BY <1>8, FailInv, AroundInv, ReverseSynInv, AckTimerInv
<1> QED
  BY <1>1, <1>2, <1>3, <1>4, <1>5, <1>6, <1>7, <1>8 DEF Next

(* The inductive invariant of the handshake holds in every reachable state *)
(* of both BdtConnections.                                                 *)
THEOREM ConnectionInvariance == Spec => []Inv
<1>1. Init => Inv
  BY InvInit
<1>2. Inv /\ [Next]_vars => Inv'
  BY InvNext
<1> QED
  BY <1>1, <1>2, PTL DEF Spec

(* The variables of both ends and of the network between them keep their   *)
(* types; in particular a result is reported at most once.                 *)
THEOREM ConnectionTypeCorrect == Spec => []TypeOK
<1>1. Inv => TypeOK
  BY TypesSame DEF Inv
<1> QED
  BY <1>1, ConnectionInvariance, PTL

(* Whatever way Close, Reset and the threads that establish interleave, a  *)
(* connection whose calls have returned has no open provider when it is    *)
(* closed and is not without one when it is established.                   *)
THEOREM CloseReachesProvider == Spec => []ClosedIsSettled
<1>1. Inv => ClosedIsSettled
  <2> SUFFICES ASSUME Inv, NEW e \in End, Quiet(e)
               PROVE  /\ conn[e].state \in {"ESTABLISH", "CLOSING"} => conn[e].provider # "WAITING"
                      /\ conn[e].state = "CLOSING" => "close" \in conn[e].calls
                      /\ conn[e].state = "CLOSED" /\ conn[e].provider # "WAITING" =>
                           "reset" \in conn[e].calls
    BY DEF ClosedIsSettled
  <2>1. \A t \in Thread : pc[e][t] = "idle"
    BY DEF Quiet, At
  <2>2. "idle" \notin Establishing \cup Calling
    BY DEF Establishing, Calling
  <2>3. LocalInv(conn[e], pc[e])
    BY DEF Inv, Locals
  <2> QED
    BY <2>1, <2>2, <2>3 DEF LocalInv, ProviderComes, CloseComes, ResetComes, Calling, CloseCall, ResetCall
<1> QED
  BY <1>1, ConnectionInvariance, PTL

(* The callback of BdtConnectionConnect and BdtConfirmConnection runs at   *)
(* most once, with the result the connection has, and an established       *)
(* connection has told its application.                                    *)
THEOREM ResultIsReported == Spec => []ResultReported
<1>1. Inv => ResultReported
  <2> SUFFICES ASSUME Inv PROVE ResultReported
    OBVIOUS
  <2> USE Names
  <2>1. ASSUME NEW e \in End
        PROVE  /\ Len(conn[e].reported) <= 1
               /\ conn[e].reported = <<"ok">> => conn[e].provider # "WAITING" /\ conn["passive"].firstAnswer
               /\ conn[e].reported = <<"error">> => conn[e].state = "CLOSED"
    <3>1. conn[e].reported \in {<<>>, <<"ok">>, <<"error">>}
      BY DEF Inv, Types, Conn
    <3>2. Len(<<>>) = 0 /\ Len(<<"ok">>) = 1 /\ Len(<<"error">>) = 1
      OBVIOUS
    <3>3. Len(conn[e].reported) \in {0, 1}
      BY <3>1, <3>2, Zenon
    <3>4. Len(conn[e].reported) <= 1
      <4>1. \A n \in {0, 1} : n <= 1
        OBVIOUS
      <4> QED
        BY <3>3, <4>1, Zenon
    <3> QED
      BY <3>4 DEF Inv, Locals, LocalInv, ReportFits, NoAnswerBefore
  <2>2. ASSUME NEW e \in End, Quiet(e), conn[e].state = "ESTABLISH"
        PROVE  conn[e].reported = <<"ok">> \/ (e = "passive" /\ confirmation = "refused")
    <3>1. \A t \in Thread : pc[e][t] = "idle"
      BY <2>2 DEF Quiet, At
    <3>2. conn[e].provider # "WAITING"
      BY <2>2, <3>1 DEF Inv, Locals, LocalInv, ProviderComes, Establishing
    <3> QED
      BY <2>2, <3>1, <3>2 DEF Inv, ActiveTold, PassiveTold
  <2> QED
    BY <2>1, <2>2 DEF ResultReported
<1> QED
  BY <1>1, ConnectionInvariance, PTL

(* BdtConfirmConnection and ConnectionOnTcpFirstSynPackage do not both     *)
(* leave the answer to the other.                                          *)
THEOREM AnswerOnItsWay == Spec => []AnswerNotStranded
<1>1. Inv => AnswerNotStranded
  BY DEF Inv, AnswerComes, AnswerNotStranded, At
<1> QED
  BY <1>1, ConnectionInvariance, PTL

-----------------------------------------------------------------------------
(* One thread brings the provider                                          *)

(* The thread that TryEnterEstablish let through is the only one that is   *)
(* about to bring a provider, and there is none before.                    *)
BringsAlone(c, p) ==
    ~c.anyway => \A t \in Thread : p[t] \in Establishing =>
        c.provider = "WAITING" /\ \A u \in Thread \ {t} : p[u] \notin Establishing

Alone == \A e \in End : BringsAlone(conn[e], pc[e])

(* A step that brings no provider and lets no thread bring one.            *)
SameProviders == \A e \in End : conn'[e].provider = conn[e].provider /\ conn'[e].anyway = conn[e].anyway
NobodyBrings == \A e \in End : \A t \in Thread : pc'[e][t] \in Establishing => pc[e][t] \in Establishing

LEMMA StaysAlone ==
  ASSUME Alone, SameProviders, NobodyBrings
  PROVE  Alone' /\ \A e \in End : conn[e].provider # "WAITING" /\ ~conn[e].anyway =>
             conn'[e].provider = conn[e].provider
BY DEF Alone, BringsAlone, SameProviders, NobodyBrings

(* One thread goes on to another label; one connection changes.            *)
LEMMA GoesStays ==
  ASSUME Types, NEW e \in End, NEW t \in Thread, NEW l, Goto(e, t, l), l \notin Establishing
  PROVE  NobodyBrings
BY DEF Types, Goto, NobodyBrings

LEMMA OneChanges ==
  ASSUME Types, NEW e \in End, NEW d, conn' = [conn EXCEPT ![e] = d],
         d.provider = conn[e].provider, d.anyway = conn[e].anyway
  PROVE  SameProviders
BY DEF Types, SameProviders

LEMMA FinishStays == ASSUME Types, NEW e \in End, FinishWithError(e) PROVE SameProviders
<1> DEFINE d == [conn[e] EXCEPT !.state = "CLOSED", !.listed = FALSE, !.callback = FALSE,
                                !.reported = Report(conn[e], "error")]
<1>1. conn' = [conn EXCEPT ![e] = d]
  BY DEF FinishWithError, Types
<1>2. d.provider = conn[e].provider /\ d.anyway = conn[e].anyway
  BY DEF Types, Conn
<1> QED
  BY <1>1, <1>2, OneChanges

(* What the active end does besides.                                      *)
LEMMA ActiveStays ==
  ASSUME Types,
         \/ Connect
         \/ ConnectConnection
         \/ ResetBuilder
         \/ SendSyn
         \/ ConnectTcp
         \/ StartBuilder
         \/ CancelBuild
         \/ ResendReverseSyn
         \/ SynTimer
         \/ ReverseSynTimer
         \/ \E type \in Connectors : ConnectWith(type)
         \/ \E answer \in SnCalled : BuildTunnelForAcceptConnection(answer)
         \/ \E t \in Dispatchers : ReceiveAck(t)
         \/ ReceiveTcpAck
         \/ ReceiveTcpFirstAck
  PROVE  SameProviders /\ NobodyBrings
<1> USE Names DEF Establishing
<1>1. CASE Connect
  <2>1. SameProviders
    BY <1>1 DEF Connect, SameProviders, Types, Conn
  <2>2. NobodyBrings
    BY <1>1, GoesStays DEF Connect, NobodyBrings
  <2> QED
    BY <2>1, <2>2
<1>2. CASE ConnectConnection
  <2>1. SameProviders
    BY <1>2 DEF ConnectConnection, Chosen, SameProviders, Types, Conn
  <2>2. NobodyBrings
    BY <1>2, GoesStays DEF ConnectConnection, Chosen, NobodyBrings
  <2> QED
    BY <2>1, <2>2
<1>3. CASE ResetBuilder
  <2>1. SameProviders
    BY <1>3 DEF ResetBuilder, Chosen, SameProviders, Types, Conn
  <2>2. NobodyBrings
    BY <1>3, GoesStays DEF ResetBuilder, Chosen, NobodyBrings
  <2> QED
    BY <2>1, <2>2
<1>4. CASE SendSyn
  <2>1. SameProviders
    BY <1>4 DEF SendSyn, SameProviders, Types, Conn
  <2>2. NobodyBrings
    BY <1>4, GoesStays DEF SendSyn, NobodyBrings
  <2> QED
    BY <2>1, <2>2
<1>5. CASE ConnectTcp
  <2>1. SameProviders
    BY <1>5 DEF ConnectTcp, SameProviders, Types, Conn
  <2>2. NobodyBrings
    BY <1>5, GoesStays DEF ConnectTcp, NobodyBrings
  <2> QED
    BY <2>1, <2>2
<1>6. CASE StartBuilder
  <2>1. SameProviders
    BY <1>6 DEF StartBuilder, SameProviders, Types, Conn
  <2>2. NobodyBrings
    BY <1>6, GoesStays DEF StartBuilder, NobodyBrings
  <2> QED
    BY <2>1, <2>2
<1>7. CASE CancelBuild
  <2>1. SameProviders
    BY <1>7 DEF CancelBuild, SameProviders, Types, Conn
  <2>2. NobodyBrings
    BY <1>7, GoesStays DEF CancelBuild, NobodyBrings
  <2> QED
    BY <2>1, <2>2
<1>8. CASE ResendReverseSyn
  <2>1. SameProviders
    BY <1>8 DEF ResendReverseSyn, SameProviders, Types, Conn
  <2>2. NobodyBrings
    BY <1>8, GoesStays DEF ResendReverseSyn, NobodyBrings
  <2> QED
    BY <2>1, <2>2
<1>9. CASE SynTimer
  <2>1. SameProviders
    BY <1>9 DEF SynTimer, SameProviders, Types, Conn
  <2>2. NobodyBrings
    BY <1>9, GoesStays DEF SynTimer, NobodyBrings
  <2> QED
    BY <2>1, <2>2
<1>10. CASE ReverseSynTimer
  <2>1. SameProviders
    BY <1>10 DEF ReverseSynTimer, SameProviders, Types, Conn
  <2>2. NobodyBrings
    BY <1>10, GoesStays DEF ReverseSynTimer, NobodyBrings
  <2> QED
    BY <2>1, <2>2
<1>11. CASE \E type \in Connectors : ConnectWith(type)
  <2>1. SameProviders
    BY <1>11 DEF ConnectWith, Begins, SameProviders, Types, Conn
  <2>2. NobodyBrings
    <3>1. PICK type \in Connectors : ConnectWith(type)
      BY <1>11
    <3>2. Begins(type) \notin Establishing
      BY ConnectionAssumption DEF ConnectionAssumption, ConnectorType, Begins
    <3>3. \E l : Goto("active", "app", l) /\ l \notin Establishing
      BY <3>1, <3>2 DEF ConnectWith
    <3> QED
      BY <3>3, GoesStays
  <2> QED
    BY <2>1, <2>2
<1>12. CASE \E answer \in SnCalled : BuildTunnelForAcceptConnection(answer)
  <2>1. SameProviders
    BY <1>12 DEF BuildTunnelForAcceptConnection, SameProviders, Types, Conn
  <2>2. NobodyBrings
    BY <1>12, GoesStays DEF BuildTunnelForAcceptConnection, NobodyBrings
  <2> QED
    BY <2>1, <2>2
<1>13. CASE \E t \in Dispatchers : ReceiveAck(t)
  <2>1. SameProviders
    BY <1>13 DEF ReceiveAck, SameProviders, Types, Conn
  <2>2. NobodyBrings
    BY <1>13, GoesStays DEF ReceiveAck, NobodyBrings
  <2> QED
    BY <2>1, <2>2
<1>14. CASE ReceiveTcpAck
  <2>1. SameProviders
    BY <1>14 DEF ReceiveTcpAck, SameProviders, Types, Conn
  <2>2. NobodyBrings
    BY <1>14, GoesStays DEF ReceiveTcpAck, NobodyBrings
  <2> QED
    BY <2>1, <2>2
<1>15. CASE ReceiveTcpFirstAck
  <2>1. SameProviders
    BY <1>15 DEF ReceiveTcpFirstAck, SameProviders, Types, Conn
  <2>2. NobodyBrings
    BY <1>15, GoesStays DEF ReceiveTcpFirstAck, NobodyBrings
  <2> QED
    BY <2>1, <2>2
<1> QED
  BY <1>1, <1>2, <1>3, <1>4, <1>5, <1>6, <1>7, <1>8, <1>9, <1>10, <1>11, <1>12, <1>13, <1>14, <1>15

LEMMA PassiveEnters ==
  ASSUME Types, NEW type, NEW stream, Enters(type, stream)
  PROVE  SameProviders
BY Names DEF Enters, SameProviders, Types, Conn

(* What the passive end does besides.                                     *)
LEMMA PassiveStays ==
  ASSUME Types,
         \/ \E t \in Dispatchers : ReceiveSyn(t)
         \/ \E t \in Dispatchers : ReceiveReverseSyn(t)
         \/ \E t \in Dispatchers : ReceiveAckAck(t)
         \/ \E t \in Dispatchers : OnSyn(t)
         \/ TcpEstablish
         \/ ReceiveTcpSyn
         \/ ReceiveTcpAckAck
         \/ OnTcpFirstSyn
         \/ TcpBound
         \/ Confirm
         \/ SetCachedResponse
         \/ ConfirmSection
         \/ ConfirmWithPackage
         \/ AckTimer
         \/ AckType
         \/ ResendAck
  PROVE  SameProviders /\ NobodyBrings
<1> USE Names DEF Establishing
<1>1. CASE \E t \in Dispatchers : ReceiveSyn(t)
  <2>1. SameProviders
    BY <1>1 DEF ReceiveSyn, AddPassiveConnection, SameProviders, Types, Conn
  <2>2. NobodyBrings
    BY <1>1, GoesStays DEF ReceiveSyn, AddPassiveConnection, NobodyBrings
  <2> QED
    BY <2>1, <2>2
<1>2. CASE \E t \in Dispatchers : ReceiveReverseSyn(t)
  <2>1. SameProviders
    BY <1>2 DEF ReceiveReverseSyn, SameProviders, Types, Conn
  <2>2. NobodyBrings
    BY <1>2, GoesStays DEF ReceiveReverseSyn, NobodyBrings
  <2> QED
    BY <2>1, <2>2
<1>3. CASE \E t \in Dispatchers : ReceiveAckAck(t)
  <2>1. SameProviders
    BY <1>3 DEF ReceiveAckAck, SameProviders, Types, Conn
  <2>2. NobodyBrings
    BY <1>3, GoesStays DEF ReceiveAckAck, NobodyBrings
  <2> QED
    BY <2>1, <2>2
<1>4. CASE \E t \in Dispatchers : OnSyn(t)
  <2>1. SameProviders
    <3>1. CASE conn["passive"].state = "NONE"
      BY <1>4, <3>1, Zenon, PassiveEnters DEF OnSyn
    <3>2. CASE conn["passive"].state # "NONE"
      BY <1>4, <3>2 DEF OnSyn, SameProviders
    <3> QED
      BY <3>1, <3>2
  <2>2. NobodyBrings
    BY <1>4, GoesStays DEF OnSyn, Enters, NobodyBrings
  <2> QED
    BY <2>1, <2>2
<1>5. CASE TcpEstablish
  <2>1. SameProviders
    BY <1>5 DEF TcpEstablish, SameProviders, Types, Conn
  <2>2. NobodyBrings
    BY <1>5, GoesStays DEF TcpEstablish, NobodyBrings
  <2> QED
    BY <2>1, <2>2
<1>6. CASE ReceiveTcpSyn
  <2>1. SameProviders
    BY <1>6 DEF ReceiveTcpSyn, AddPassiveConnection, SameProviders, Types, Conn
  <2>2. NobodyBrings
    BY <1>6, GoesStays DEF ReceiveTcpSyn, AddPassiveConnection, NobodyBrings
  <2> QED
    BY <2>1, <2>2
<1>7. CASE ReceiveTcpAckAck
  <2>1. SameProviders
    BY <1>7 DEF ReceiveTcpAckAck, SameProviders, Types, Conn
  <2>2. NobodyBrings
    BY <1>7, GoesStays DEF ReceiveTcpAckAck, NobodyBrings
  <2> QED
    BY <2>1, <2>2
<1>8. CASE OnTcpFirstSyn
  <2>1. SameProviders
    <3>1. Enters("MAYBE_BUILDER", TRUE) \/ conn' = conn
      BY <1>8 DEF OnTcpFirstSyn
    <3> QED
      BY <3>1, PassiveEnters DEF SameProviders
  <2>2. NobodyBrings
    <3>1. \E l \in {"tcpBound", "tcpBoundNew", "idle"} : Goto("passive", "tcp", l)
      BY <1>8 DEF OnTcpFirstSyn
    <3> QED
      BY <3>1, GoesStays
  <2> QED
    BY <2>1, <2>2
<1>9. CASE TcpBound
  <2>1. SameProviders
    BY <1>9 DEF TcpBound, SameProviders, Types, Conn
  <2>2. NobodyBrings
    BY <1>9, GoesStays DEF TcpBound, NobodyBrings
  <2> QED
    BY <2>1, <2>2
<1>10. CASE Confirm
  <2>1. SameProviders
    BY <1>10 DEF Confirm, SameProviders, Types, Conn
  <2>2. NobodyBrings
    BY <1>10, GoesStays DEF Confirm, NobodyBrings
  <2> QED
    BY <2>1, <2>2
<1>11. CASE SetCachedResponse
  <2>1. SameProviders
    BY <1>11 DEF SetCachedResponse, SameProviders, Types, Conn
  <2>2. NobodyBrings
    BY <1>11, GoesStays DEF SetCachedResponse, NobodyBrings
  <2> QED
    BY <2>1, <2>2
<1>12. CASE ConfirmSection
  <2>1. SameProviders
    BY <1>12 DEF ConfirmSection, SameProviders, Types, Conn
  <2>2. NobodyBrings
    BY <1>12, GoesStays DEF ConfirmSection, NobodyBrings
  <2> QED
    BY <2>1, <2>2
<1>13. CASE ConfirmWithPackage
  <2>1. SameProviders
    BY <1>13 DEF ConfirmWithPackage, SameProviders, Types, Conn
  <2>2. NobodyBrings
    BY <1>13, GoesStays DEF ConfirmWithPackage, NobodyBrings
  <2> QED
    BY <2>1, <2>2
<1>14. CASE AckTimer
  <2>1. SameProviders
    BY <1>14 DEF AckTimer, SameProviders, Types, Conn
  <2>2. NobodyBrings
    BY <1>14, GoesStays DEF AckTimer, NobodyBrings
  <2> QED
    BY <2>1, <2>2
<1>15. CASE AckType
  <2>1. SameProviders
    BY <1>15 DEF AckType, SameProviders, Types, Conn
  <2>2. NobodyBrings
    <3>1. pc' = pc \/ \E l \in {"resendAck", "idle"} : Goto("passive", "timer", l)
      BY <1>15 DEF AckType
    <3> QED
      BY <3>1, GoesStays DEF NobodyBrings
  <2> QED
    BY <2>1, <2>2
<1>16. CASE ResendAck
  <2>1. SameProviders
    BY <1>16 DEF ResendAck, SameProviders, Types, Conn
  <2>2. NobodyBrings
    BY <1>16, GoesStays DEF ResendAck, NobodyBrings
  <2> QED
    BY <2>1, <2>2
<1> QED
  BY <1>1, <1>2, <1>3, <1>4, <1>5, <1>6, <1>7, <1>8, <1>9, <1>10, <1>11, <1>12, <1>13, <1>14, <1>15, <1>16

(* What either end does besides.                                          *)
LEMMA EitherStays ==
  ASSUME Types,
         \/ TcpError
         \/ \E e \in End : Close(e)
         \/ \E e \in End : Reset(e)
         \/ \E e \in End : ConnectTimeout(e)
         \/ \E e \in End, t \in Thread : CallProvider(e, t)
         \/ UNCHANGED vars
  PROVE  SameProviders /\ NobodyBrings
<1> USE Names DEF Establishing
<1>1. CASE TcpError
  <2>1. SameProviders
    BY <1>1, FinishStays DEF TcpError, SameProviders
  <2>2. NobodyBrings
    BY <1>1, GoesStays DEF TcpError, FinishWithError, NobodyBrings
  <2> QED
    BY <2>1, <2>2
<1>2. CASE \E e \in End : Close(e)
  <2>1. SameProviders
    BY <1>2 DEF Close, CloseCall, SameProviders, Types, Conn
  <2>2. NobodyBrings
    BY <1>2, GoesStays DEF Close, CloseCall, NobodyBrings
  <2> QED
    BY <2>1, <2>2
<1>3. CASE \E e \in End : Reset(e)
  <2>1. SameProviders
    <3>1. PICK e \in End : Reset(e)
      BY <1>3
    <3> DEFINE d == [conn[e] EXCEPT !.state = "CLOSED", !.listed = FALSE,
                                    !.callback = @ /\ ~(conn[e].state \in {"NONE", "CONNECTING"})]
    <3>2. conn' = [conn EXCEPT ![e] = d]
      BY <3>1 DEF Reset, Types
    <3>3. d.provider = conn[e].provider /\ d.anyway = conn[e].anyway
      BY DEF Types, Conn
    <3> QED
      BY <3>2, <3>3, OneChanges
  <2>2. NobodyBrings
    BY <1>3, GoesStays DEF Reset, ResetCall, NobodyBrings
  <2> QED
    BY <2>1, <2>2
<1>4. CASE \E e \in End : ConnectTimeout(e)
  <2>1. SameProviders
    BY <1>4, FinishStays DEF ConnectTimeout
  <2>2. NobodyBrings
    BY <1>4, GoesStays DEF ConnectTimeout, FinishWithError, NobodyBrings
  <2> QED
    BY <2>1, <2>2
<1>5. CASE \E e \in End, t \in Thread : CallProvider(e, t)
  <2>1. SameProviders
    BY <1>5 DEF CallProvider, SameProviders, Types, Conn
  <2>2. NobodyBrings
    BY <1>5, GoesStays DEF CallProvider, NobodyBrings
  <2> QED
    BY <2>1, <2>2
<1>6. CASE UNCHANGED vars
  <2>1. SameProviders
    BY <1>6 DEF vars, SameProviders, Types, Conn
  <2>2. NobodyBrings
    BY <1>6, GoesStays DEF vars, NobodyBrings
  <2> QED
    BY <2>1, <2>2
<1> QED
  BY <1>1, <1>2, <1>3, <1>4, <1>5, <1>6

(* TryEnterEstablish lets a thread through when nobody brings a provider.  *)
LEMMA TryAlone ==
  ASSUME Inv, Alone, NEW e \in End, NEW t \in Thread, TryEstablish(e, t)
  PROVE  Alone' /\ \A f \in End : conn[f].provider # "WAITING" => conn'[f].provider = conn[f].provider
<1> DEFINE c == conn[e]
<1>1. Types /\ c \in Conn /\ NothingEarly(c, pc[e])
  BY DEF Inv, Types, Locals, LocalInv
<1>2. CASE c.state = "CONNECTING"
  <2>1. PICK l : Goto(e, t, l) /\ conn' = [conn EXCEPT ![e].state = "ESTABLISH", ![e].provider = "WAITING"]
    BY <1>2 DEF TryEstablish, TryEnterEstablish
  <2>2. c.provider = "WAITING" /\ \A u \in Thread : pc[e][u] \notin Establishing
    BY <1>1, <1>2 DEF NothingEarly
  <2>3. conn'[e].provider = "WAITING" /\ \A f \in End \ {e} : conn'[f] = conn[f]
    BY <1>1, <2>1 DEF Types, Conn
  <2>4. /\ \A u \in Thread \ {t} : pc'[e][u] = pc[e][u]
        /\ \A f \in End \ {e} : pc'[f] = pc[f]
    BY <1>1, <2>1 DEF Types, Goto
  <2>5. BringsAlone(conn'[e], pc'[e])
    BY <2>2, <2>3, <2>4 DEF BringsAlone
  <2>6. \A f \in End \ {e} : BringsAlone(conn'[f], pc'[f])
    BY <2>3, <2>4 DEF Alone
  <2> QED
    BY <2>2, <2>3, <2>5, <2>6 DEF Alone
<1>3. CASE c.state # "CONNECTING"
  <2>1. PICK failed \in {"idle", "establishStream"} :
             Goto(e, t, failed) /\ conn' = [conn EXCEPT ![e].anyway = @ \/ failed # "idle"]
    BY <1>3 DEF TryEstablish, TryEnterEstablish
  <2>2. /\ conn'[e].provider = c.provider
        /\ conn'[e].anyway = (c.anyway \/ failed # "idle")
        /\ \A f \in End \ {e} : conn'[f] = conn[f]
    BY <1>1, <2>1 DEF Types, Conn
  <2>3. /\ pc'[e][t] = failed
        /\ \A u \in Thread \ {t} : pc'[e][u] = pc[e][u]
        /\ \A f \in End \ {e} : pc'[f] = pc[f]
    BY <1>1, <2>1 DEF Types, Goto
  <2>4. BringsAlone(conn'[e], pc'[e])
    BY <2>2, <2>3 DEF Alone, BringsAlone, Establishing
  <2>5. \A f \in End \ {e} : BringsAlone(conn'[f], pc'[f])
    BY <2>2, <2>3 DEF Alone
  <2> QED
    BY <2>2, <2>4, <2>5 DEF Alone
<1> QED
  BY <1>2, <1>3

(* Who brings the provider is the only one, and finds none.                *)
LEMMA ProvideAlone ==
  ASSUME Inv, Alone, NEW e \in End, NEW t \in Thread, EstablishWithPackage(e, t) \/ EstablishWithStream(e, t)
  PROVE  Alone' /\ \A f \in End : conn[f].provider # "WAITING" /\ ~conn[f].anyway =>
             conn'[f].provider = conn[f].provider
<1> DEFINE c == conn[e]
<1>1. Types /\ c \in Conn
  BY DEF Inv, Types
<1>2. PICK kind \in {"PACKAGE", "STREAM"} :
           /\ conn' = [conn EXCEPT ![e] = Provided(c, kind)]
           /\ Goto(e, t, Settle(c.state, kind))
           /\ pc[e][t] \in Establishing
  BY <1>1 DEF EstablishWithPackage, EstablishWithStream, At, Establishing, Types
<1>3. Settle(c.state, kind) \notin Establishing
  BY DEF Settle, CloseCall, ResetCall, Establishing
<1>4. /\ conn'[e].anyway = c.anyway
      /\ \A f \in End \ {e} : conn'[f] = conn[f]
  BY <1>1, <1>2 DEF Types, Conn, Provided
<1>5. /\ pc'[e][t] \notin Establishing
      /\ \A u \in Thread \ {t} : pc'[e][u] = pc[e][u]
      /\ \A f \in End \ {e} : pc'[f] = pc[f]
  BY <1>1, <1>2, <1>3 DEF Types, Goto
<1>6. ~c.anyway => c.provider = "WAITING" /\ \A u \in Thread \ {t} : pc[e][u] \notin Establishing
  BY <1>2 DEF Alone, BringsAlone
<1>7. BringsAlone(conn'[e], pc'[e])
  BY <1>4, <1>5, <1>6 DEF BringsAlone
<1>8. \A f \in End \ {e} : BringsAlone(conn'[f], pc'[f])
  BY <1>4, <1>5 DEF Alone
<1> QED
  BY <1>4, <1>6, <1>7, <1>8 DEF Alone

(* The provider of a connection is not replaced, whoever answers over UDP  *)
(* and over TCP, unless a thread that Bdt_ConnectionTryEnterEstablish      *)
(* refused calls Bdt_ConnectionEstablishWithStream all the same.           *)
THEOREM ProviderIsKept == Spec => ProviderKept
<1> DEFINE Kept == \A e \in End : conn[e].provider # "WAITING" /\ ~conn[e].anyway =>
                      conn'[e].provider = conn[e].provider
<1>1. Init => Alone
  BY DEF Init, Alone, BringsAlone, Establishing
<1>2. ASSUME Inv, Alone, [Next]_vars PROVE Alone' /\ Kept
  <2>1. Types
    BY <1>2 DEF Inv
  <2>2. CASE UNCHANGED vars
    BY <1>2, <2>1, <2>2, EitherStays, StaysAlone
  <2>3. CASE Calls
    BY <1>2, <2>1, <2>3, ActiveStays, PassiveStays, EitherStays, StaysAlone DEF Calls
  <2>4. CASE Receives
    BY <1>2, <2>1, <2>4, ActiveStays, PassiveStays, StaysAlone DEF Receives
  <2>5. CASE \E t \in Thread : PassiveStep(t) \/ ActiveStep(t)
    BY <1>2, <2>1, <2>5, ActiveStays, PassiveStays, StaysAlone DEF PassiveStep, ActiveStep
  <2>6. CASE ResetBuilder \/ \E answer \in SnCalled : BuildTunnelForAcceptConnection(answer)
    BY <1>2, <2>1, <2>6, ActiveStays, StaysAlone
  <2>7. CASE \E e \in End, t \in Thread : Step(e, t)
    BY <1>2, <2>1, <2>7, TryAlone, ProvideAlone, EitherStays, StaysAlone DEF Step
  <2>8. CASE \/ \E e \in End : ConnectTimeout(e)
             \/ TcpError
             \/ SynTimer
             \/ ReverseSynTimer
             \/ AckTimer
    BY <1>2, <2>1, <2>8, ActiveStays, PassiveStays, EitherStays, StaysAlone
  <2> QED
    BY <1>2, <2>2, <2>3, <2>4, <2>5, <2>6, <2>7, <2>8 DEF Next
<1>3. Inv /\ Alone /\ [Next]_vars => Alone' /\ [Kept]_vars
  BY <1>2
<1> QED
  BY <1>1, <1>3, ConnectionInvariance, PTL DEF Spec, ProviderKept
=============================================================================
