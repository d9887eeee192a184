----------------------------- MODULE Connection -----------------------------
(****************************************************************************)
(* Both ends of a BdtConnection (Connection.imp.inl), from the first SYN to *)
(* the provider that carries the bytes: the connectors of the active end,   *)
(* the acceptors of the passive one, the confirmation by its application,   *)
(* the connect timeout, and BdtConnectionClose and BdtConnectionReset at    *)
(* any moment.                                                              *)
(*                                                                          *)
(* One step is one section under stateLock, or one unlocked read or call    *)
(* between two sections, so calls of several threads interleave as in the   *)
(* program.  The UDP network is the set of packages ever sent: a package    *)
(* may arrive late, often, in any order or never, which also covers that    *)
(* SYN and ACK are resent.  The single TCP connection loses nothing until   *)
(* it breaks.  Passive connections that a late SYN creates after the first  *)
(* one was removed, a listener that refuses a SYN, the accept queue and the *)
(* builder acceptor are left out.  Of the tunnel container the slot of the  *)
(* builder and the list of the connections waiting for it are modelled.     *)
(****************************************************************************)
EXTENDS Naturals, Sequences

CONSTANTS
    Connectors,    \* the connectors BdtTunnel_ConnectConnection may choose
    SnCalled,      \* how Bdt_AddPassiveConnection may answer an SN called package
    Closers,       \* the ends whose application may call BdtConnectionClose
    Resetters,     \* the ends whose application may call BdtConnectionReset
    Dispatchers    \* the threads that deal UDP packages at each end

End == {"active", "passive"}
ConnectorType == {"PACKAGE", "STREAM", "REVERSE_STREAM", "BUILDER"}

ASSUME ConnectionAssumption ==
    /\ Connectors \subseteq ConnectorType
    /\ SnCalled \subseteq {"added", "refused"}
    /\ Closers \subseteq End
    /\ Resetters \subseteq End
    /\ Dispatchers \cap {"app", "user", "tcp", "timer"} = {}

Thread == {"app", "user", "tcp", "timer"} \cup Dispatchers

VARIABLES
    conn,          \* the BdtConnection of each end; anyway is history: a thread
                   \* goes on to bring a provider that TryEnterEstablish refused
    connector,     \* of the active end: its type, NULL, or FREED (dangling)
    acceptor,      \* of the passive end, the same
    pc,            \* where each thread of each end is in its call
    created, offered, cached,
    confirmation,  \* what BdtConfirmConnection returned, if it was called
    ackTimer, synTimer,
    builder,       \* the builder of the active end's tunnel container, if any
    waiting,       \* the connection is in its waitingConnections
    refused,       \* history: BdtConnectionConnect returned INVALID_PARAM
    udp, tcp, tcpPackages,
    crashed        \* a thread followed a pointer that was NULL or freed

passiveVars == <<created, offered, cached, confirmation, ackTimer>>
activeVars == <<synTimer, builder, waiting, refused>>
netVars == <<udp, tcp, tcpPackages>>
vars == <<conn, connector, acceptor, pc, passiveVars, activeVars, netVars, crashed>>

State == {"NONE", "CONNECTING", "ESTABLISH", "CLOSING", "CLOSED"}
Label == {"idle", "connect", "byTunnel", "byBuilder", "sendSyn", "sendReverseSyn", "connectTcp",
          "build", "cancelBuild", "resendSyn", "cache", "confirm", "sendAck", "ackType", "resendAck",
          "syn", "synNew", "tcpSyn", "tcpSynNew", "tcpBound", "tcpBoundNew",
          "tryPackage", "tryStream", "tryStreamAnyway",
          "establishPackage", "establishStream",
          "closePackage", "closeStream", "resetPackage", "resetStream"}

NoAcceptor == [type |-> "NULL", tcp |-> FALSE, confirmed |-> FALSE]
Acceptor(t, s) == [type |-> t, tcp |-> s, confirmed |-> FALSE]

(* ConnectionCreate: memset, state NONE, and the manager's entry for it.   *)
Init ==
    /\ conn = [e \in End |->
           [state |-> "NONE", provider |-> "WAITING", calls |-> {},
            callback |-> FALSE, reported |-> <<>>, timeout |-> FALSE,
            firstAnswer |-> FALSE, listed |-> e = "active", anyway |-> FALSE]]
    /\ connector = "NULL"
    /\ acceptor = NoAcceptor
    /\ pc = [e \in End |-> [t \in Thread |-> "idle"]]
    /\ created = FALSE
    /\ offered = FALSE
    /\ cached = FALSE
    /\ confirmation = "none"
    /\ ackTimer = "off"
    /\ synTimer = "off"
    /\ builder = "none"
    /\ waiting = FALSE
    /\ refused = FALSE
    /\ udp = {}
    /\ tcp = "none"
    /\ tcpPackages = {}
    /\ crashed = FALSE

At(e, t, l) == pc[e][t] = l
Goto(e, t, l) == pc' = [pc EXCEPT ![e][t] = l]

\* The connector or acceptor of e has a TCP interface, which is reset with it;
\* that of a BUILDER connector is its builder's, which is cancelled.
HoldsTcp(e) == IF e = "active" THEN connector \in {"STREAM", "BUILDER"} ELSE acceptor.tcp

-----------------------------------------------------------------------------
(* What both ends share.                                                   *)

\* The connector or acceptor is taken out of the connection.
Dropped(e) ==
    /\ connector' = IF e = "active" THEN "NULL" ELSE connector
    /\ acceptor' = IF e = "passive" THEN NoAcceptor ELSE acceptor

\* The first TCP package an end sends when it enters ESTABLISH.
FirstTcp(e) ==
    CASE e = "active" -> IF connector = "REVERSE_STREAM" THEN {"ackack"} ELSE {}
      [] e = "passive" -> IF acceptor.type = "MAYBE_BUILDER" THEN {"ack"} ELSE {}

\* Mutant of TryEnterEstablish: a connection closed meanwhile is revived.
TryEnterEstablishRevives(e, t, done, sent, failed) ==
    IF conn[e].state # "ESTABLISH"
    THEN /\ conn' = [conn EXCEPT ![e].state = "ESTABLISH", ![e].provider = "WAITING"]
         /\ Dropped(e)
         /\ tcpPackages' = tcpPackages \cup sent
         /\ Goto(e, t, done)
    ELSE /\ conn' = [conn EXCEPT ![e].anyway = @ \/ failed # "idle"]
         /\ Goto(e, t, failed)
         /\ UNCHANGED <<connector, acceptor, tcpPackages>>

\* Mutant of TryEnterEstablish: a connection established meanwhile will do.
TryEnterEstablishTwice(e, t, done, sent, failed) ==
    IF conn[e].state \in {"CONNECTING", "ESTABLISH"}
    THEN /\ conn' = [conn EXCEPT ![e].state = "ESTABLISH"]
         /\ Dropped(e)
         /\ tcpPackages' = tcpPackages \cup sent
         /\ Goto(e, t, done)
    ELSE /\ conn' = [conn EXCEPT ![e].anyway = @ \/ failed # "idle"]
         /\ Goto(e, t, failed)
         /\ UNCHANGED <<connector, acceptor, tcpPackages>>

(* Bdt_ConnectionTryEnterEstablish, and what the caller sends over TCP     *)
(* before it goes on (ConnectionConfirmWithStream, the ackack).            *)
TryEnterEstablish(e, t, done, sent, failed) ==
    IF conn[e].state = "CONNECTING"
    THEN /\ conn' = [conn EXCEPT ![e].state = "ESTABLISH", ![e].provider = "WAITING"]
         /\ Dropped(e)
         /\ tcpPackages' = tcpPackages \cup sent
         /\ Goto(e, t, done)
    ELSE /\ conn' = [conn EXCEPT ![e].anyway = @ \/ failed # "idle"]
         /\ Goto(e, t, failed)
         /\ UNCHANGED <<connector, acceptor, tcpPackages>>

(* The threads call it in three ways: for a package provider, for a stream *)
(* provider, and for a stream whatever it returns (OnTcpFirstAckPackage    *)
(* and BdtConfirmConnection).                                              *)
TryEstablish(e, t) ==
    /\ \/ At(e, t, "tryPackage") /\ TryEnterEstablish(e, t, "establishPackage", {}, "idle")
       \/ At(e, t, "tryStream") /\ TryEnterEstablish(e, t, "establishStream", FirstTcp(e), "idle")
       \/ /\ At(e, t, "tryStreamAnyway")
          /\ TryEnterEstablish(e, t, "establishStream", FirstTcp(e), "establishStream")
    /\ UNCHANGED <<passiveVars, activeVars, udp, tcp, crashed>>

\* A call of the provider, by the type the caller took it to have under the
\* lock.
CloseCall(kind) == IF kind = "PACKAGE" THEN "closePackage" ELSE "closeStream"
ResetCall(kind) == IF kind = "PACKAGE" THEN "resetPackage" ELSE "resetStream"

\* Mutant of Settle: Establish returns without a look at the state.
SettleNever(s, kind) == "idle"

\* What is left to do for a connection that was closed before its provider
\* was there.
Settle(s, kind) ==
    CASE s = "CLOSING" -> CloseCall(kind) [] s = "CLOSED" -> ResetCall(kind) [] OTHER -> "idle"

\* Reporting a result takes the callback, which may be unset.
Report(c, result) == IF c.callback THEN Append(c.reported, result) ELSE c.reported

\* Mutant of Provided: the callback stays set.
ProvidedKeepsCallback(c, kind) ==
    [c EXCEPT !.provider = kind, !.calls = {},
              !.reported = IF c.state = "ESTABLISH" THEN Report(c, "ok") ELSE @]

(* The section of Bdt_ConnectionEstablishWithPackage and ...WithStream.    *)
Provided(c, kind) ==
    [c EXCEPT !.provider = kind, !.calls = {}, !.callback = FALSE,
              !.reported = IF c.state = "ESTABLISH" THEN Report(c, "ok") ELSE @]

EstablishWithPackage(e, t) ==
    /\ At(e, t, "establishPackage")
    /\ conn' = [conn EXCEPT ![e] = Provided(@, "PACKAGE")]
    /\ udp' = udp \cup (IF e = "active" /\ conn[e].state = "ESTABLISH" THEN {"ackack"} ELSE {})
    /\ Goto(e, t, Settle(conn[e].state, "PACKAGE"))
    /\ UNCHANGED <<connector, acceptor, passiveVars, activeVars, tcp, tcpPackages, crashed>>

EstablishWithStream(e, t) ==
    /\ At(e, t, "establishStream")
    /\ conn' = [conn EXCEPT ![e] = Provided(@, "STREAM")]
    /\ Goto(e, t, Settle(conn[e].state, "STREAM"))
    /\ UNCHANGED <<connector, acceptor, passiveVars, activeVars, netVars, crashed>>

(* The call of the provider: its pointer is read after the section that    *)
(* told its type, so the provider may have been replaced since.  Another   *)
(* one of the same type takes the call; one of the other type is taken for *)
(* what it is not.                                                         *)
CallProvider(e, t) ==
    LET kind == conn[e].provider IN
    /\ \/ /\ At(e, t, CloseCall(kind))
          /\ conn' = [conn EXCEPT ![e].calls = @ \cup {"close"}]
          /\ UNCHANGED crashed
       \/ /\ At(e, t, ResetCall(kind))
          /\ conn' = [conn EXCEPT ![e].calls = @ \cup {"reset"}]
          /\ UNCHANGED crashed
       \/ /\ \E other \in {"PACKAGE", "STREAM"} \ {kind} : pc[e][t] \in {CloseCall(other), ResetCall(other)}
          /\ crashed' \in BOOLEAN
          /\ UNCHANGED conn
    /\ Goto(e, t, "idle")
    /\ UNCHANGED <<connector, acceptor, passiveVars, activeVars, netVars>>

(* The application has the connection once it asked for it or was offered. *)
HasConnection(e) == e = "active" \/ offered

(* BdtConnectionClose.  Below ESTABLISH it closes, but the result is       *)
(* INVALID_STATE and it returns: connector, acceptor and the manager's     *)
(* entry stay.                                                             *)
Close(e) ==
    /\ e \in Closers
    /\ HasConnection(e)
    /\ At(e, "user", "idle")
    /\ \/ /\ conn[e].state \in {"NONE", "CONNECTING"}
          /\ conn' = [conn EXCEPT ![e].state = "CLOSED", ![e].callback = FALSE]
          /\ UNCHANGED pc
       \/ /\ conn[e].state = "ESTABLISH"
          /\ conn' = [conn EXCEPT ![e].state = "CLOSING"]
          /\ Goto(e, "user", IF conn[e].provider = "WAITING" THEN "idle" ELSE CloseCall(conn[e].provider))
    /\ UNCHANGED <<connector, acceptor, passiveVars, activeVars, netVars, crashed>>

(* BdtConnectionReset.  What connects is reset and freed, but the pointer  *)
(* to it stays.                                                            *)
Reset(e) ==
    /\ e \in Resetters
    /\ HasConnection(e)
    /\ At(e, "user", "idle")
    /\ conn[e].state # "CLOSED"
    /\ LET connecting == conn[e].state \in {"NONE", "CONNECTING"} IN
       /\ conn' = [conn EXCEPT ![e].state = "CLOSED", ![e].listed = FALSE,
                               ![e].callback = @ /\ ~connecting]
       /\ connector' = IF connecting /\ e = "active" /\ connector # "NULL" THEN "FREED" ELSE connector
       /\ acceptor' = IF connecting /\ e = "passive" /\ acceptor.type # "NULL"
                      THEN Acceptor("FREED", FALSE) ELSE acceptor
       /\ tcp' = IF connecting /\ HoldsTcp(e) THEN "broken" ELSE tcp
       /\ Goto(e, "user", IF connecting \/ conn[e].provider = "WAITING" THEN "idle"
                          ELSE ResetCall(conn[e].provider))
    /\ UNCHANGED <<passiveVars, activeVars, udp, tcpPackages, crashed>>

(* ConnectionTryFinishConnectingWithError.                                 *)
FinishWithError(e) ==
    /\ conn[e].state = "CONNECTING"
    /\ conn' = [conn EXCEPT ![e].state = "CLOSED", ![e].listed = FALSE, ![e].callback = FALSE,
                            ![e].reported = Report(conn[e], "error")]
    /\ Dropped(e)

(* ConnectionOnConnectTimeout.                                             *)
ConnectTimeout(e) ==
    /\ conn[e].timeout
    /\ FinishWithError(e)
    /\ tcp' = IF HoldsTcp(e) THEN "broken" ELSE tcp
    /\ UNCHANGED <<pc, passiveVars, activeVars, udp, tcpPackages, crashed>>

\* The end whose connection owns the TCP interface and hears its errors.
OwnsTcp(e) == IF e = "active" THEN connector = "STREAM" ELSE acceptor.type = "REVERSE_STREAM"

(* The TCP connection fails; ConnectionOnTcpError at its owner.            *)
TcpError ==
    /\ tcp \in {"connecting", "building", "up"}
    /\ tcp' = "broken"
    /\ \/ \E e \in End : OwnsTcp(e) /\ FinishWithError(e)
       \/ /\ \A e \in End : ~(OwnsTcp(e) /\ conn[e].state = "CONNECTING")
          /\ UNCHANGED <<conn, connector, acceptor>>
    /\ UNCHANGED <<pc, passiveVars, activeVars, udp, tcpPackages, crashed>>

-----------------------------------------------------------------------------
(* The active end.                                                         *)

(* BdtConnectionConnect, ConnectionTryEnterConnectWaiting.                 *)
Connect ==
    /\ conn["active"].state = "NONE"
    /\ conn' = [conn EXCEPT !["active"].state = "CONNECTING", !["active"].callback = TRUE]
    /\ Goto("active", "app", "connect")
    /\ UNCHANGED <<connector, acceptor, passiveVars, activeVars, netVars, crashed>>

\* The connection goes on through a tunnel there is, or with a new builder.
Chosen(by) == Goto("active", "app", by) /\ builder' = (IF by = "byBuilder" THEN "building" ELSE "none")

(* BdtTunnel_ConnectConnection: it waits for the builder that has the slot *)
(* of the container, or goes on; without the remote's constant information *)
(* in the build parameters it returns, and the connection is left as it is.*)
ConnectConnection ==
    /\ At("active", "app", "connect")
    /\ \/ /\ builder # "none"
          /\ waiting' = TRUE
          /\ Goto("active", "app", "idle")
          /\ UNCHANGED <<builder, refused>>
       \/ /\ builder = "none"
          /\ refused' = TRUE
          /\ Goto("active", "app", "idle")
          /\ UNCHANGED <<builder, waiting>>
       \/ /\ builder = "none"
          /\ \E by \in {"byTunnel", "byBuilder"} : Chosen(by)
          /\ UNCHANGED <<waiting, refused>>
    /\ UNCHANGED <<conn, connector, acceptor, passiveVars, synTimer, netVars, crashed>>

\* The connection has yet to look at the slot, or waits for it; what becomes
\* of the slot later is not followed, for nothing here reads it.
SlotMatters == conn["active"].state = "NONE" \/ At("active", "app", "connect") \/ waiting

\* Mutant of ResetBuilder: the waiting connections stay where they are.
ResetBuilderForgets ==
    /\ SlotMatters
    /\ builder = "building"
    /\ builder' = "none"
    /\ UNCHANGED <<conn, connector, acceptor, pc, passiveVars, synTimer, waiting, refused, netVars, crashed>>

(* TunnelContainerResetBuilder, when a builder that was started finishes   *)
(* or is cancelled: the connection that waited goes on.                    *)
ResetBuilder ==
    /\ SlotMatters
    /\ builder = "building"
    /\ waiting' = FALSE
    /\ IF waiting
       THEN \E by \in {"byTunnel", "byBuilder"} : Chosen(by)
       ELSE builder' = "none" /\ UNCHANGED pc
    /\ UNCHANGED <<conn, connector, acceptor, passiveVars, synTimer, refused, netVars, crashed>>

(* TunnelContainerBuildTunnelForAcceptConnection: the peer calls for a     *)
(* connection of its own.  The new builder takes the slot of the container *)
(* if that is free, but is started only if the passive connection was      *)
(* added.                                                                  *)
BuildTunnelForAcceptConnection(answer) ==
    /\ SlotMatters
    /\ builder = "none"
    /\ builder' = (IF answer = "added" THEN "building" ELSE "idle")
    /\ UNCHANGED <<conn, connector, acceptor, pc, passiveVars, synTimer, waiting, refused, netVars, crashed>>

\* What Bdt_ConnectionConnectWithPackage, -Stream and -Builder do once they
\* have entered CONNECTING with their connector.
Begins(type) ==
    CASE type = "PACKAGE" -> "sendSyn" [] type = "REVERSE_STREAM" -> "sendReverseSyn"
      [] type = "STREAM" -> "connectTcp" [] type = "BUILDER" -> "build"

(* ConnectionTryEnterConnecting; the connect timeout starts in any case,   *)
(* and so does a builder.                                                  *)
ConnectWith(type) ==
    /\ At("active", "app", IF type = "BUILDER" THEN "byBuilder" ELSE "byTunnel")
    /\ conn' = [conn EXCEPT !["active"].timeout = TRUE]
    /\ IF conn["active"].state = "CONNECTING"
       THEN /\ connector' = type
            /\ Goto("active", "app", Begins(type))
       ELSE /\ Goto("active", "app", IF type = "BUILDER" THEN "build" ELSE "idle")
            /\ UNCHANGED connector
    /\ UNCHANGED <<acceptor, passiveVars, activeVars, netVars, crashed>>

(* ConnectionSendSyn and ConnectionSendTcpReverseSyn: they look for the    *)
(* connector, which may be gone, and their timer starts in any case.       *)
SendSyn ==
    /\ pc["active"]["app"] \in {"sendSyn", "sendReverseSyn"}
    /\ LET reverse == At("active", "app", "sendReverseSyn") IN
       /\ udp' = udp \cup (IF connector = "NULL" THEN {} ELSE IF reverse THEN {"reverseSyn"} ELSE {"syn"})
       /\ synTimer' = IF reverse THEN "reverse" ELSE "package"
    /\ crashed' \in {FALSE, connector = "FREED"}
    /\ Goto("active", "app", "idle")
    /\ UNCHANGED <<conn, connector, acceptor, passiveVars, builder, waiting, refused, tcp, tcpPackages>>

(* Bdt_TcpInterfaceConnect, which an interface reset before refuses; it may *)
(* have been released with the connector.                                   *)
ConnectTcp ==
    /\ At("active", "app", "connectTcp")
    /\ tcp' = IF tcp = "none" THEN "connecting" ELSE tcp
    /\ crashed' \in {FALSE, connector # "STREAM"}
    /\ Goto("active", "app", "idle")
    /\ UNCHANGED <<conn, connector, acceptor, passiveVars, activeVars, udp, tcpPackages>>

(* Bdt_TunnelBuilderBuildForConnectConnection: unless it was cancelled the *)
(* builder tries SYN packages and TCP at the same time, whatever became of *)
(* the connection ...                                                      *)
StartBuilder ==
    /\ At("active", "app", "build")
    /\ IF tcp = "none"
       THEN /\ udp' = udp \cup {"syn"}
            /\ tcp' = "building"
            /\ Goto("active", "app", IF connector = "BUILDER" THEN "idle" ELSE "cancelBuild")
       ELSE Goto("active", "app", "idle") /\ UNCHANGED <<udp, tcp>>
    /\ UNCHANGED <<conn, connector, acceptor, passiveVars, activeVars, tcpPackages, crashed>>

(* ... and if that refused the connector, it is cancelled now.             *)
CancelBuild ==
    /\ At("active", "app", "cancelBuild")
    /\ tcp' = "broken"
    /\ Goto("active", "app", "idle")
    /\ UNCHANGED <<conn, connector, acceptor, passiveVars, activeVars, udp, tcpPackages, crashed>>

(* ConnectionOnSendSynTimer.  The SYN it resends is in the network; it     *)
(* ends when the connector is gone, and looks at nothing else.             *)
SynTimer ==
    /\ synTimer = "package"
    /\ connector \in {"NULL", "FREED"}
    /\ synTimer' = "off"
    /\ crashed' \in {FALSE, connector = "FREED"}
    /\ UNCHANGED <<conn, connector, acceptor, pc, passiveVars, builder, waiting, refused, netVars>>

(* ConnectionOnSendTcpReverseSynTimer: an unlocked look at the state, ...  *)
ReverseSynTimer ==
    /\ synTimer = "reverse"
    /\ At("active", "timer", "idle")
    /\ IF conn["active"].state = "CONNECTING"
       THEN Goto("active", "timer", "resendSyn") /\ UNCHANGED synTimer
       ELSE synTimer' = "off" /\ UNCHANGED pc
    /\ UNCHANGED <<conn, connector, acceptor, passiveVars, builder, waiting, refused, netVars, crashed>>

(* ... and then ConnectionSendTcpReverseSyn, whose SYN is in the network.  *)
ResendReverseSyn ==
    /\ At("active", "timer", "resendSyn")
    /\ crashed' \in {FALSE, connector = "FREED"}
    /\ Goto("active", "timer", "idle")
    /\ UNCHANGED <<conn, connector, acceptor, passiveVars, activeVars, netVars>>

(* An ACK of the passive end: ConnectionOnAckSessionData, the builder's    *)
(* ConnectPackageConnectionAction with it; a package provider answers it   *)
(* with one more ackack.                                                   *)
ReceiveAck(t) ==
    /\ At("active", t, "idle")
    /\ "ack" \in udp
    /\ conn["active"].listed
    /\ \/ /\ conn["active"].state = "CONNECTING"
          /\ connector \in {"PACKAGE", "BUILDER"}
          /\ conn' = [conn EXCEPT !["active"].firstAnswer = TRUE]
          /\ Goto("active", t, "tryPackage")
          /\ UNCHANGED udp
       \/ /\ conn["active"].state = "ESTABLISH"
          /\ conn["active"].provider = "PACKAGE"
          /\ udp' = udp \cup {"ackack"}
          /\ UNCHANGED <<conn, pc>>
    /\ UNCHANGED <<connector, acceptor, passiveVars, activeVars, tcp, tcpPackages, crashed>>

(* ConnectionOnTcpEstablish at either end: the active end sends its SYN,   *)
(* the passive end of a reverse stream its ACK if it is confirmed.  The    *)
(* stream action of a builder sends the SYN whatever became of the         *)
(* connection.                                                             *)
TcpEstablish ==
    /\ tcp \in {"connecting", "building"}
    /\ tcp' = "up"
    /\ tcpPackages' =
           IF \/ tcp = "building"
              \/ conn["active"].state = "CONNECTING" /\ connector = "STREAM" THEN {"syn"}
           ELSE IF /\ conn["passive"].state = "CONNECTING"
                   /\ acceptor.type = "REVERSE_STREAM" /\ acceptor.confirmed THEN {"ack"}
           ELSE {}
    /\ UNCHANGED <<conn, connector, acceptor, pc, passiveVars, activeVars, udp, crashed>>

\* The TCP connection was made by the passive end.
Reverse == "reverseSyn" \in udp

TakeTcpAck ==
    /\ At("active", "tcp", "idle")
    /\ tcp = "up"
    /\ "ack" \in tcpPackages
    /\ tcpPackages' = tcpPackages \ {"ack"}
    /\ UNCHANGED <<connector, acceptor, passiveVars, activeVars, udp, tcp>>

(* The passive end's answer as the first response over TCP:                *)
(* ConnectionOnTcpFirstAckResp, or the builder's stream action.            *)
ReceiveTcpAck ==
    /\ ~Reverse
    /\ TakeTcpAck
    /\ IF conn["active"].state = "CONNECTING"
       THEN /\ Goto("active", "tcp", "tryStream")
            /\ conn' = [conn EXCEPT !["active"].firstAnswer = @ \/ connector = "BUILDER"]
       ELSE UNCHANGED <<conn, pc>>
    /\ UNCHANGED crashed

(* The same as the first package of a TCP connection the passive end made: *)
(* the tunnel container looks the connection up and hands over what it     *)
(* finds, NULL too, to ConnectionOnTcpFirstAckPackage.                     *)
ReceiveTcpFirstAck ==
    /\ Reverse
    /\ TakeTcpAck
    /\ crashed' = ~conn["active"].listed
    /\ IF conn["active"].listed /\ conn["active"].state = "CONNECTING" /\ connector = "REVERSE_STREAM"
       THEN Goto("active", "tcp", "tryStreamAnyway")
       ELSE UNCHANGED pc
    /\ UNCHANGED conn

-----------------------------------------------------------------------------
(* The passive end.                                                        *)

Enters(type, stream) ==
    /\ conn' = [conn EXCEPT !["passive"].state = "CONNECTING", !["passive"].timeout = TRUE]
    /\ acceptor' = Acceptor(type, stream)

\* Bdt_AddPassiveConnection, for a sequence the manager does not know.
AddPassiveConnection ==
    /\ ~created
    /\ created' = TRUE
    /\ conn' = [conn EXCEPT !["passive"].listed = TRUE]

(* A SYN: the tunnel answers it from its response cache (OnUdpPackage),    *)
(* else Bdt_ConnectionManagerPushPackage finds or adds the connection, and *)
(* ConnectionOnSynSessionData has its first, unlocked look at the state.   *)
ReceiveSyn(t) ==
    /\ At("passive", t, "idle")
    /\ "syn" \in udp
    /\ \/ /\ cached
          /\ udp' = udp \cup {"ack"}
          /\ UNCHANGED <<conn, pc, created>>
       \/ /\ ~cached
          /\ \/ AddPassiveConnection /\ Goto("passive", t, "synNew")
             \/ /\ conn["passive"].listed
                /\ conn["passive"].state = "NONE"
                /\ Goto("passive", t, "syn")
                /\ UNCHANGED <<conn, created>>
          /\ UNCHANGED udp
    /\ UNCHANGED <<connector, acceptor, offered, cached, confirmation, ackTimer, activeVars, tcp, tcpPackages, crashed>>

(* The section of ConnectionOnSynSessionData; the thread that added the    *)
(* connection then offers it (Bdt_FirePreAcceptConnection).                *)
OnSyn(t) ==
    /\ pc["passive"][t] \in {"syn", "synNew"}
    /\ IF conn["passive"].state = "NONE"
       THEN Enters("MAYBE_BUILDER", FALSE)
       ELSE UNCHANGED <<conn, acceptor>>
    /\ offered' = (offered \/ At("passive", t, "synNew"))
    /\ Goto("passive", t, "idle")
    /\ UNCHANGED <<connector, created, cached, confirmation, ackTimer, activeVars, netVars, crashed>>

(* Bdt_AddReverseConnectStreamConnection and AcceptWithReverseStream.      *)
ReceiveReverseSyn(t) ==
    /\ At("passive", t, "idle")
    /\ "reverseSyn" \in udp
    /\ ~created
    /\ created' = TRUE
    /\ conn' = [conn EXCEPT !["passive"].state = "CONNECTING", !["passive"].timeout = TRUE,
                            !["passive"].listed = TRUE]
    /\ acceptor' = Acceptor("REVERSE_STREAM", TRUE)
    /\ tcp' = "connecting"
    /\ offered' = TRUE
    /\ UNCHANGED <<connector, pc, cached, confirmation, ackTimer, activeVars, udp, tcpPackages, crashed>>

(* A package without SYN while there is no package provider:               *)
(* ConnectionOnAckAckSessionData up to its call of TryEnterEstablish.      *)
ReceiveAckAck(t) ==
    /\ At("passive", t, "idle")
    /\ "ackack" \in udp
    /\ conn["passive"].listed
    /\ conn["passive"].provider # "PACKAGE"
    /\ conn["passive"].state = "CONNECTING"
    /\ acceptor.type = "MAYBE_BUILDER"
    /\ ~acceptor.tcp
    /\ Goto("passive", t, "tryPackage")
    /\ UNCHANGED <<conn, connector, acceptor, passiveVars, activeVars, netVars, crashed>>

(* TCP_SYN_CONNECTION as first package: the connection is found or added   *)
(* (OnTcpFirstPackage of the tunnel container).                            *)
ReceiveTcpSyn ==
    /\ At("passive", "tcp", "idle")
    /\ tcp = "up"
    /\ "syn" \in tcpPackages
    /\ tcpPackages' = tcpPackages \ {"syn"}
    /\ \/ AddPassiveConnection /\ Goto("passive", "tcp", "tcpSynNew")
       \/ /\ conn["passive"].listed
          /\ Goto("passive", "tcp", "tcpSyn")
          /\ UNCHANGED <<conn, created>>
    /\ UNCHANGED <<connector, acceptor, offered, cached, confirmation, ackTimer, activeVars, udp, tcp, crashed>>

(* The section of ConnectionOnTcpFirstSynPackage ...                       *)
OnTcpFirstSyn ==
    /\ pc["passive"]["tcp"] \in {"tcpSyn", "tcpSynNew"}
    /\ LET new == At("passive", "tcp", "tcpSynNew")
           binds == \/ conn["passive"].state = "NONE"
                    \/ /\ conn["passive"].state = "CONNECTING"
                       /\ acceptor.type = "MAYBE_BUILDER" /\ ~acceptor.tcp
       IN /\ IF binds
             THEN /\ Enters("MAYBE_BUILDER", TRUE)
                  /\ Goto("passive", "tcp", IF new THEN "tcpBoundNew" ELSE "tcpBound")
                  /\ UNCHANGED offered
             ELSE /\ Goto("passive", "tcp", "idle")
                  /\ offered' = (offered \/ new)
                  /\ UNCHANGED <<conn, acceptor>>
    /\ UNCHANGED <<connector, created, cached, confirmation, ackTimer, activeVars, netVars, crashed>>

\* Mutant of TcpBound: always waits for the confirmation.
TcpBoundWaits ==
    /\ pc["passive"]["tcp"] \in {"tcpBound", "tcpBoundNew"}
    /\ Goto("passive", "tcp", "idle")
    /\ offered' = (offered \/ At("passive", "tcp", "tcpBoundNew"))
    /\ UNCHANGED <<conn, connector, acceptor, created, cached, confirmation, ackTimer, activeVars, netVars, crashed>>

(* ... and then its unlocked look for the first answer.                    *)
TcpBound ==
    /\ pc["passive"]["tcp"] \in {"tcpBound", "tcpBoundNew"}
    /\ IF conn["passive"].firstAnswer
       THEN Goto("passive", "tcp", "tryStream") /\ UNCHANGED offered
       ELSE /\ Goto("passive", "tcp", "idle")
            /\ offered' = (offered \/ At("passive", "tcp", "tcpBoundNew"))
    /\ UNCHANGED <<conn, connector, acceptor, created, cached, confirmation, ackTimer, activeVars, netVars, crashed>>

(* ConnectionOnTcpFirstAckAckResp up to its call of TryEnterEstablish.     *)
ReceiveTcpAckAck ==
    /\ At("passive", "tcp", "idle")
    /\ tcp = "up"
    /\ "ackack" \in tcpPackages
    /\ tcpPackages' = tcpPackages \ {"ackack"}
    /\ IF conn["passive"].state = "CONNECTING"
       THEN Goto("passive", "tcp", "tryStream")
       ELSE UNCHANGED pc
    /\ UNCHANGED <<conn, connector, acceptor, passiveVars, activeVars, udp, tcp, crashed>>

(* BdtConfirmConnection: the unlocked look at the state and the compare    *)
(* and swap of the first answer, ...                                       *)
Confirm ==
    /\ offered
    /\ At("passive", "app", "idle")
    /\ conn["passive"].state = "CONNECTING"
    /\ ~conn["passive"].firstAnswer
    /\ conn' = [conn EXCEPT !["passive"].firstAnswer = TRUE]
    /\ Goto("passive", "app", "cache")
    /\ UNCHANGED <<connector, acceptor, passiveVars, activeVars, netVars, crashed>>

(* ... BdtTunnel_SetCachedResponse, ...                                    *)
SetCachedResponse ==
    /\ At("passive", "app", "cache")
    /\ cached' = TRUE
    /\ Goto("passive", "app", "confirm")
    /\ UNCHANGED <<conn, connector, acceptor, created, offered, confirmation, ackTimer, activeVars, netVars, crashed>>

(* ... its section: the callback is set and the way to answer chosen; the  *)
(* stream of a REVERSE_STREAM acceptor is never marked as established.     *)
ConfirmSection ==
    /\ At("passive", "app", "confirm")
    /\ IF conn["passive"].state = "CONNECTING"
       THEN /\ confirmation' = "ok"
            /\ conn' = [conn EXCEPT !["passive"].callback = TRUE]
            /\ acceptor' = [acceptor EXCEPT !.confirmed = TRUE]
            /\ Goto("passive", "app", CASE acceptor.type = "REVERSE_STREAM" -> "idle"
                                        [] acceptor.tcp -> "tryStreamAnyway"
                                        [] OTHER -> "sendAck")
       ELSE /\ confirmation' = "refused"
            /\ Goto("passive", "app", "idle")
            /\ UNCHANGED <<conn, acceptor>>
    /\ UNCHANGED <<connector, created, offered, cached, ackTimer, activeVars, netVars, crashed>>

(* ... and ConnectionConfirmWithPackage: ConnectionSendAck, and its timer  *)
(* whatever that returned.                                                 *)
ConfirmWithPackage ==
    /\ At("passive", "app", "sendAck")
    /\ Goto("passive", "app", "idle")
    /\ udp' \in {udp, udp \cup (IF acceptor.type = "MAYBE_BUILDER" THEN {"ack"} ELSE {})}
    /\ ackTimer' = "armed"
    /\ crashed' \in {FALSE, acceptor.type = "FREED"}
    /\ UNCHANGED <<conn, connector, acceptor, created, offered, cached, confirmation, activeVars, tcp, tcpPackages>>

(* ConnectionOnSendAckTimer: an unlocked look at the state, ...            *)
AckTimer ==
    /\ ackTimer = "armed"
    /\ At("passive", "timer", "idle")
    /\ IF conn["passive"].state = "CONNECTING"
       THEN Goto("passive", "timer", "ackType") /\ UNCHANGED ackTimer
       ELSE ackTimer' = "off" /\ UNCHANGED pc
    /\ UNCHANGED <<conn, connector, acceptor, created, offered, cached, confirmation, activeVars, netVars, crashed>>

(* ... then one at the acceptor's type, with the acceptor gone perhaps ... *)
AckType ==
    /\ At("passive", "timer", "ackType")
    /\ \/ /\ acceptor.type = "NULL"
          /\ crashed' = TRUE
          /\ UNCHANGED <<pc, ackTimer>>
       \/ /\ acceptor.type \in {"MAYBE_BUILDER", "FREED"}
          /\ crashed' \in {FALSE, acceptor.type = "FREED"}
          /\ Goto("passive", "timer", "resendAck")
          /\ UNCHANGED ackTimer
       \/ /\ acceptor.type # "MAYBE_BUILDER" /\ acceptor.type # "NULL"
          /\ ackTimer' = "off"
          /\ Goto("passive", "timer", "idle")
          /\ UNCHANGED crashed
    /\ UNCHANGED <<conn, connector, acceptor, created, offered, cached, confirmation, activeVars, netVars>>

(* ... and ConnectionSendAck; the timer goes on only if that succeeded.    *)
ResendAck ==
    /\ At("passive", "timer", "resendAck")
    /\ Goto("passive", "timer", "idle")
    /\ \/ acceptor.type # "NULL" /\ udp' = udp \cup {"ack"} /\ UNCHANGED ackTimer
       \/ ackTimer' = "failed" /\ UNCHANGED udp
    /\ crashed' \in {FALSE, acceptor.type = "FREED"}
    /\ UNCHANGED <<conn, connector, acceptor, created, offered, cached, confirmation, activeVars, tcp, tcpPackages>>

-----------------------------------------------------------------------------
\* What a thread does next in the call it is in.
Step(e, t) ==
    \/ TryEstablish(e, t)
    \/ EstablishWithPackage(e, t)
    \/ EstablishWithStream(e, t)
    \/ CallProvider(e, t)

PassiveStep(t) ==
    \/ t \in Dispatchers /\ OnSyn(t)
    \/ t = "tcp" /\ (OnTcpFirstSyn \/ TcpBound)
    \/ t = "app" /\ (SetCachedResponse \/ ConfirmSection \/ ConfirmWithPackage)
    \/ t = "timer" /\ (AckType \/ ResendAck)

ActiveStep(t) ==
    \/ t = "app" /\ (ConnectConnection \/ SendSyn \/ ConnectTcp \/ StartBuilder \/ CancelBuild)
    \/ t = "app" /\ \E type \in Connectors : ConnectWith(type)
    \/ t = "timer" /\ ResendReverseSyn

Receives ==
    \/ \E t \in Dispatchers : ReceiveAck(t) \/ ReceiveSyn(t) \/ ReceiveReverseSyn(t) \/ ReceiveAckAck(t)
    \/ TcpEstablish
    \/ ReceiveTcpAck
    \/ ReceiveTcpFirstAck
    \/ ReceiveTcpSyn
    \/ ReceiveTcpAckAck

Calls ==
    \/ Connect
    \/ Confirm
    \/ \E e \in End : Close(e) \/ Reset(e)

Next ==
    /\ ~crashed
    /\ \/ Calls
       \/ Receives
       \/ \E t \in Thread : PassiveStep(t) \/ ActiveStep(t)
       \/ ResetBuilder
       \/ \E answer \in SnCalled : BuildTunnelForAcceptConnection(answer)
       \/ \E e \in End, t \in Thread : Step(e, t)
       \/ \E e \in End : ConnectTimeout(e)
       \/ TcpError
       \/ SynTimer
       \/ ReverseSynTimer
       \/ AckTimer

Spec == Init /\ [][Next]_vars

(* A thread inside a call goes on, a timer that was started fires, and a   *)
(* builder that was started finishes, for it has a timeout of its own; no  *)
(* package has to arrive and no application has to call anything.          *)
Fairness ==
    /\ \A t \in Thread : WF_vars(~crashed /\ PassiveStep(t)) /\ WF_vars(~crashed /\ ActiveStep(t))
    /\ WF_vars(~crashed /\ ResetBuilder)
    /\ \A e \in End : WF_vars(~crashed /\ ConnectTimeout(e))
    /\ \A e \in End, t \in Thread : WF_vars(~crashed /\ Step(e, t))

FairSpec == Spec /\ Fairness

-----------------------------------------------------------------------------
TypeOK ==
    /\ conn \in [End -> [state : State, provider : {"WAITING", "PACKAGE", "STREAM"},
                         calls : SUBSET {"close", "reset"}, callback : BOOLEAN,
                         reported : {<<>>, <<"ok">>, <<"error">>}, timeout : BOOLEAN,
                         firstAnswer : BOOLEAN, listed : BOOLEAN, anyway : BOOLEAN]]
    /\ connector \in ConnectorType \cup {"NULL", "FREED"}
    /\ acceptor \in [type : {"NULL", "FREED", "MAYBE_BUILDER", "REVERSE_STREAM"},
                     tcp : BOOLEAN, confirmed : BOOLEAN]
    /\ pc \in [End -> [Thread -> Label]]
    /\ builder \in {"none", "building", "idle"}
    /\ {created, offered, cached, waiting, refused, crashed} \subseteq BOOLEAN
    /\ synTimer \in {"off", "package", "reverse"}
    /\ confirmation \in {"none", "ok", "refused"}
    /\ ackTimer \in {"off", "armed", "failed"}
    /\ udp \subseteq {"syn", "ack", "ackack", "reverseSyn"}
    /\ tcp \in {"none", "connecting", "building", "up", "broken"}
    /\ tcpPackages \subseteq {"syn", "ack", "ackack"}

Quiet(e) == \A t \in Thread : At(e, t, "idle")

(* A Close or a Reset that comes while the connection has no provider yet  *)
(* is carried out by the thread that brings the provider (Bdt_Connection   *)
(* EstablishWithPackage, -WithStream), and one that comes later reaches    *)
(* the provider itself: when the calls have returned, no closed connection *)
(* has an open provider and no established one is without.                 *)
ClosedIsSettled ==
    \A e \in End : Quiet(e) =>
        /\ conn[e].state \in {"ESTABLISH", "CLOSING"} => conn[e].provider # "WAITING"
        /\ conn[e].state = "CLOSING" => "close" \in conn[e].calls
        /\ conn[e].state = "CLOSED" /\ conn[e].provider # "WAITING" => "reset" \in conn[e].calls

(* The connect callback runs at most once, with the result that the        *)
(* connection has: a success only with a provider and, at the active end,  *)
(* an answer of the passive application; an error only for a closed        *)
(* connection; and an established connection has told its application,     *)
(* unless BdtConfirmConnection itself was refused.                         *)
ResultReported ==
    /\ \A e \in End :
        /\ Len(conn[e].reported) <= 1
        /\ conn[e].reported = <<"ok">> => conn[e].provider # "WAITING" /\ conn["passive"].firstAnswer
        /\ conn[e].reported = <<"error">> => conn[e].state = "CLOSED"
    /\ \A e \in End : Quiet(e) /\ conn[e].state = "ESTABLISH" =>
        \/ conn[e].reported = <<"ok">>
        \/ e = "passive" /\ confirmation = "refused"

(* The confirmation and the TCP connection of a builder cross without both *)
(* waiting for each other: whoever comes second (BdtConfirmConnection's    *)
(* section or ConnectionOnTcpFirstSynPackage's look at firstAnswer) answers*)
(* over TCP, and as long as none came the ACK is resent, unless a send     *)
(* failed.                                                                 *)
AnswerNotStranded ==
    /\ confirmation = "ok"
    /\ conn["passive"].state = "CONNECTING"
    /\ acceptor.type = "MAYBE_BUILDER"
    /\ At("passive", "app", "idle")
    /\ At("passive", "tcp", "idle")
    => ~acceptor.tcp /\ ackTimer # "off"

(* No connection stays in CONNECTING: a SYN, a reverse SYN, a TCP SYN and  *)
(* each connector start the connect timeout (ConnectionStartConnectTimeout)*)
(* with it, and a connection that waits for the tunnel builder is started  *)
(* when that finishes.  The exception is BdtTunnel_ConnectConnection       *)
(* returning INVALID_PARAM: the state was CONNECTING before, and nothing   *)
(* takes it back or starts a timeout.                                      *)
ConnectingEnds ==
    \A e \in End :
        conn[e].state = "CONNECTING" ~>
            conn[e].state # "CONNECTING" \/ (e = "active" /\ refused) \/ crashed

(* A provider is not replaced, as its comment demands ("must not change     *)
(* after assigned"): of the threads that answer over UDP and over TCP at    *)
(* the same time, TryEnterEstablish lets one bring its provider.  The       *)
(* exception is a thread that TryEnterEstablish refused and that calls      *)
(* Bdt_ConnectionEstablishWithStream all the same (BdtConfirmConnection).   *)
ProviderKept ==
    [][\A e \in End : conn[e].provider # "WAITING" /\ ~conn[e].anyway =>
          conn'[e].provider = conn[e].provider]_vars

(* The comments of BdtTunnel_ConnectConnection, "wait for current builder  *)
(* finish", and of TunnelContainerBuildTunnelForAcceptConnection, "if add  *)
(* connection failed [...] builder should build without connection": who   *)
(* waits, waits for a builder that is at work.                             *)
WaitsForBuilding == waiting => builder = "building"
=============================================================================
