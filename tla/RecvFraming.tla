---------------------------- MODULE RecvFraming ----------------------------
(***************************************************************************)
(* How the bytes of one connection become messages: the state machine of   *)
(* qc_read_request_handler, which asks recv for the bytes it still misses  *)
(* of a header or a body and may get fewer, and TestFlood, which counts    *)
(* packets that follow each other closely.                                 *)
(*                                                                         *)
(* A byte of the stream is its position.  A client sends a header for      *)
(* every packet and the body it announces; it may leave the body out if    *)
(* the length is unacceptable.  What the bytes of a body are does not      *)
(* matter here, and they may be anything when the server, which does not   *)
(* skip the body of an unacceptable packet, reads them as a header.        *)
(***************************************************************************)
EXTENDS Integers, Sequences

CONSTANTS
    HeaderLen,          \* m_iLenPkgHeader
    MaxLen,             \* _PKG_MAX_LENGTH - 1000
    Lengths,            \* values of pkgLen that clients send
    FloodAkEnable,      \* m_floodAkEnable == 1
    FloodKickCount,     \* m_floodKickCount
    MaxPackets          \* bound: packets sent in one behaviour

ASSUME FramingAssumption ==
    /\ HeaderLen \in Nat \ {0} /\ MaxLen \in Nat /\ HeaderLen <= MaxLen
    /\ Lengths \subseteq Nat
    /\ FloodAkEnable \in BOOLEAN /\ FloodKickCount \in Nat
    /\ MaxPackets \in Nat

VARIABLES
    sent, starts, total,    \* client: lengths sent, their positions, all bytes
    read,                   \* bytes received
    curStat,                \* curStat
    precvbuf,               \* offset in dataHeadInfo or in the message
    irecvlen,               \* irecvlen
    precvMemPointer,        \* size of the packet allocated, 0: NULL
    delivered,              \* messages given to the thread pool
    recent,                 \* FloodkickLastTime is within m_floodTimeInterval
    FloodAttackCount,
    connected,              \* fd # -1
    burst, flooded          \* packets since the last pause; closed by TestFlood

clientVars == <<sent, starts, total>>
recvVars   == <<curStat, precvbuf, irecvlen, precvMemPointer>>
floodVars  == <<recent, FloodAttackCount, burst, flooded>>
vars == <<clientVars, read, recvVars, delivered, floodVars, connected>>

(* Mutant: packets shorter than a header pass.                             *)
AcceptsShort(len) == len <= MaxLen

Acceptable(len) == HeaderLen <= len /\ len <= MaxLen

Init ==
    /\ sent = <<>> /\ starts = <<>> /\ total = 0 /\ read = 0
    /\ curStat = "HD_INIT" /\ precvbuf = 0 /\ irecvlen = HeaderLen /\ precvMemPointer = 0
    /\ delivered = <<>>
    /\ recent = FALSE /\ FloodAttackCount = 0 /\ burst = 0 /\ flooded = FALSE
    /\ connected = TRUE

-----------------------------------------------------------------------------
(* The client.                                                             *)

ClientSends(len) ==
    /\ Len(sent) < MaxPackets
    /\ \E size \in {HeaderLen, len} :
          /\ size >= HeaderLen /\ (Acceptable(len) => size = len)
          /\ total' = total + size
    /\ sent' = Append(sent, len)
    /\ starts' = Append(starts, total)
    /\ UNCHANGED <<read, recvVars, delivered, floodVars, connected>>

(* More than m_floodTimeInterval milliseconds pass without a packet.       *)
Pause ==
    /\ connected /\ recent
    /\ recent' = FALSE /\ burst' = 0
    /\ UNCHANGED <<clientVars, read, recvVars, delivered, FloodAttackCount, flooded, connected>>

-----------------------------------------------------------------------------
(* The read handler.  got is what recv returns, at most what it was asked. *)

Arrived(got) == got \in 1 .. irecvlen /\ read + got <= total

(* Mutant: irecvlen keeps its value.                                       *)
AwaitSameLength ==
    /\ curStat' = "HD_INIT" /\ precvbuf' = 0 /\ precvMemPointer' = 0
    /\ UNCHANGED irecvlen

(* The state machine waits for a header again.                             *)
AwaitHeader ==
    /\ curStat' = "HD_INIT" /\ precvbuf' = 0 /\ irecvlen' = HeaderLen /\ precvMemPointer' = 0

(* TestFlood: count of packets less than m_floodTimeInterval apart.        *)
FloodCount == IF recent THEN FloodAttackCount + 1 ELSE 0
(* Mutant: one packet too many.                                            *)
IsLateFlood == FloodAkEnable /\ FloodCount > FloodKickCount

IsFlood == FloodAkEnable /\ FloodCount >= FloodKickCount

(* A packet of size bytes is complete and ends at byte end: TestFlood,     *)
(* proc_plast, and zdClosesocketProc if it is one packet too many.         *)
Complete(size, end) ==
    /\ AwaitHeader
    /\ IF FloodAkEnable
       THEN FloodAttackCount' = FloodCount /\ recent' = TRUE /\ burst' = burst + 1
       ELSE UNCHANGED <<FloodAttackCount, recent, burst>>
    /\ IF IsFlood
       THEN connected' = FALSE /\ flooded' = TRUE /\ UNCHANGED delivered
       ELSE /\ delivered' = Append(delivered, [from |-> end - size, size |-> size])
            /\ UNCHANGED <<connected, flooded>>

(* Mutant: irecvlen does not go down.                                      *)
RecvPartAgain ==
    /\ connected
    /\ \E got \in 1 .. irecvlen :
          /\ Arrived(got) /\ got < irecvlen
          /\ read' = read + got
          /\ precvbuf' = precvbuf + got
    /\ curStat' = CASE curStat = "HD_INIT" -> "HD_RECVING"
                    [] curStat = "BD_INIT" -> "BD_RECVING"
                    [] OTHER -> curStat
    /\ UNCHANGED <<clientVars, irecvlen, precvMemPointer, delivered, floodVars, connected>>

(* recv gives only a part of the header or of the body.                    *)
RecvPart ==
    /\ connected
    /\ \E got \in 1 .. irecvlen :
          /\ Arrived(got) /\ got < irecvlen
          /\ read' = read + got
          /\ precvbuf' = precvbuf + got
          /\ irecvlen' = irecvlen - got
    /\ curStat' = CASE curStat = "HD_INIT" -> "HD_RECVING"
                    [] curStat = "BD_INIT" -> "BD_RECVING"
                    [] OTHER -> curStat
    /\ UNCHANGED <<clientVars, precvMemPointer, delivered, floodVars, connected>>

(* Mutant: a packet without a body waits for one.                          *)
AlwaysBody(len) == FALSE

HeaderOnly(len) == len = HeaderLen

(* recv completes a header, and proc_p1 reads pkgLen from dataHeadInfo: it *)
(* is the length the client announced if a packet starts here.             *)
RecvHeader ==
    /\ connected /\ curStat \in {"HD_INIT", "HD_RECVING"}
    /\ Arrived(irecvlen)
    /\ read' = read + irecvlen
    /\ \E pkgLen \in Lengths :
          /\ \A i \in DOMAIN sent : starts[i] = read' - HeaderLen => pkgLen = sent[i]
          /\ \/ /\ ~Acceptable(pkgLen)
                /\ AwaitHeader
                /\ UNCHANGED <<delivered, floodVars, connected>>
             \/ /\ Acceptable(pkgLen) /\ HeaderOnly(pkgLen)
                /\ Complete(pkgLen, read')
             \/ /\ Acceptable(pkgLen) /\ ~HeaderOnly(pkgLen)
                /\ curStat' = "BD_INIT"
                /\ precvMemPointer' = pkgLen
                /\ precvbuf' = HeaderLen
                /\ irecvlen' = pkgLen - HeaderLen
                /\ UNCHANGED <<delivered, floodVars, connected>>
    /\ UNCHANGED clientVars

RecvBody ==
    /\ connected /\ curStat \in {"BD_INIT", "BD_RECVING"}
    /\ Arrived(irecvlen)
    /\ read' = read + irecvlen
    /\ Complete(precvMemPointer, read')
    /\ UNCHANGED clientVars

(* recv returns 0 or an error: zdClosesocketProc; the message begun is     *)
(* freed when the object is recycled.                                      *)
RecvCloses ==
    /\ connected
    /\ connected' = FALSE
    /\ UNCHANGED <<clientVars, read, recvVars, delivered, floodVars>>

(* Nothing more arrives.                                                   *)
Quiet == (~connected \/ read = total) /\ UNCHANGED vars

Next == (\E len \in Lengths : ClientSends(len)) \/ Pause \/ RecvPart \/ RecvHeader \/ RecvBody
        \/ RecvCloses \/ Quiet

Spec == Init /\ [][Next]_vars

-----------------------------------------------------------------------------
(* Properties.                                                             *)

TypeOK ==
    /\ sent \in Seq(Lengths) /\ starts \in Seq(Nat) /\ total \in Nat /\ read \in Nat
    /\ curStat \in {"HD_INIT", "HD_RECVING", "BD_INIT", "BD_RECVING"}
    /\ precvbuf \in Nat /\ irecvlen \in Nat /\ precvMemPointer \in Nat
    /\ delivered \in Seq([from : Nat, size : Nat])
    /\ recent \in BOOLEAN /\ FloodAttackCount \in Nat /\ burst \in Nat
    /\ flooded \in BOOLEAN /\ connected \in BOOLEAN

(* recv is never asked for 0 bytes, which it would answer with 0 and the   *)
(* server would take for the end of the connection, and never writes past  *)
(* the end of dataHeadInfo or of the message, whose memory exists exactly  *)
(* while a body is being received.                                         *)
BufferExact ==
    /\ irecvlen >= 1
    /\ IF curStat \in {"HD_INIT", "HD_RECVING"}
       THEN precvMemPointer = 0 /\ precvbuf + irecvlen = HeaderLen
       ELSE precvbuf >= HeaderLen /\ precvbuf + irecvlen = precvMemPointer

(* TestFlood closes a connection for the packet that makes FloodKickCount  *)
(* follow a first one without a pause, and for no other.                   *)
FloodExact ==
    FloodAkEnable =>
        IF flooded THEN burst = FloodKickCount + 1 ELSE burst <= FloodKickCount

(* Where the server gets out of step with the client: after an             *)
(* unacceptable header that has a body all the same.                       *)
Size(i) == (IF i = Len(sent) THEN total ELSE starts[i + 1]) - starts[i]
Breaks == {starts[i] + HeaderLen :
              i \in {k \in DOMAIN sent : ~Acceptable(sent[k]) /\ Size(k) > HeaderLen}}
BeforeBreaks(byte) == \A b \in Breaks : byte < b

(* Where the packet being received, or the next header, begins.            *)
HeaderAt == read - precvbuf

(* The packet of a header at byte at: the first that does not begin before *)
(* it, or not before a break.                                              *)
Passed(i, at) == starts[i] < at /\ BeforeBreaks(starts[i])
IsNext(n, at) == (\A i \in 1 .. n - 1 : Passed(i, at)) /\ (n <= Len(sent) => ~Passed(n, at))
NextPacket == CHOOSE n \in 1 .. Len(sent) + 1 : IsNext(n, HeaderAt)

(* The packet that message m is: the one it is the whole of, from its      *)
(* header on, and nothing more.                                            *)
IsPacket(m, p) == m.from = starts[p] /\ m.size = sent[p]
PacketOf(m) ==
    IF \E p \in DOMAIN sent : IsPacket(m, p)
    THEN CHOOSE p \in DOMAIN sent : IsPacket(m, p)
    ELSE 0

(* The messages handed to the pool while the server was in step.           *)
InStep == {k \in DOMAIN delivered : BeforeBreaks(delivered[k].from)}
Packets == [k \in InStep |-> PacketOf(delivered[k])]

Open == connected /\ BeforeBreaks(HeaderAt)

(* However recv cuts the bytes up, the messages handed to the pool are the *)
(* packets of the client, each whole, once, and in the order sent, up to   *)
(* the first unacceptable header with a body; what comes after it takes    *)
(* nothing back.                                                           *)
Abstract == INSTANCE PacketStream WITH next <- NextPacket, delivered <- Packets, open <- Open

ImplementsPacketStream == Abstract!Spec

=============================================================================
