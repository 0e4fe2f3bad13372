------------------------- MODULE RecvFramingProofs --------------------------
(***************************************************************************)
(* Proofs about RecvFraming, for any lengths of headers and packets and    *)
(* any limits: types, that recv writes exactly into its buffer, that       *)
(* TestFlood closes a connection at the packet it should, and that the     *)
(* state machine implements PacketStream.                                  *)
(***************************************************************************)
EXTENDS RecvFraming, TLAPS

(* What is in the buffer has been read from the stream.                    *)
ReadInv == precvbuf <= read

(* FloodAttackCount, which a pause leaves alone, counts the packets that   *)
(* followed the first of a burst, which ends with a pause.                 *)
FloodInv ==
    /\ recent => burst >= 1 /\ FloodAttackCount = burst - 1
    /\ ~recent => burst = 0
    /\ flooded => FloodAkEnable /\ ~connected

IInv == TypeOK /\ BufferExact /\ ReadInv /\ FloodInv /\ FloodExact

LEMMA InitEstablishes == ASSUME Init PROVE IInv
  <1>1. sent \in Seq(Lengths) /\ starts \in Seq(Nat) /\ delivered \in Seq([from : Nat, size : Nat])
    BY DEF Init
  <1>2. TypeOK
    BY <1>1, FramingAssumption DEF Init, TypeOK
  <1>3. BufferExact /\ ReadInv
    BY FramingAssumption DEF Init, BufferExact, ReadInv
  <1>4. FloodInv /\ FloodExact
    BY FramingAssumption DEF Init, FloodInv, FloodExact
  <1> QED BY <1>2, <1>3, <1>4 DEF IInv

-----------------------------------------------------------------------------
(* Steps that complete no packet.                                          *)

LEMMA ClientPreserves == ASSUME IInv, NEW len \in Lengths, ClientSends(len) PROVE IInv'
  <1>1. len \in Nat /\ HeaderLen \in Nat
    BY FramingAssumption
  <1>2. TypeOK'
    <2>1. sent' \in Seq(Lengths) /\ starts' \in Seq(Nat) /\ total' \in Nat
      BY <1>1 DEF IInv, TypeOK, ClientSends
    <2> QED BY <2>1 DEF IInv, TypeOK, ClientSends, recvVars, floodVars
  <1>3. BufferExact' /\ ReadInv' /\ FloodInv' /\ FloodExact'
    BY DEF IInv, ClientSends, recvVars, floodVars, BufferExact, ReadInv, FloodInv, FloodExact
  <1> QED BY <1>2, <1>3 DEF IInv

LEMMA PausePreserves == ASSUME IInv, Pause PROVE IInv'
  <1>1. TypeOK' /\ BufferExact' /\ ReadInv' /\ FloodInv'
    BY DEF IInv, Pause, clientVars, recvVars, TypeOK, BufferExact, ReadInv, FloodInv
  <1>2. FloodExact'
    BY FramingAssumption DEF IInv, Pause, FloodInv, FloodExact
  <1> QED BY <1>1, <1>2 DEF IInv

LEMMA PartPreserves == ASSUME IInv, RecvPart PROVE IInv'
  <1>1. PICK got \in 1 .. irecvlen :
          /\ got < irecvlen /\ read' = read + got
          /\ precvbuf' = precvbuf + got /\ irecvlen' = irecvlen - got
    BY DEF RecvPart
  <1>2. /\ curStat' \in {"HD_INIT", "HD_RECVING", "BD_INIT", "BD_RECVING"}
        /\ curStat' \in {"HD_INIT", "HD_RECVING"} <=> curStat \in {"HD_INIT", "HD_RECVING"}
    BY DEF IInv, TypeOK, RecvPart
  <1>3. UNCHANGED <<clientVars, precvMemPointer, delivered, floodVars, connected>>
    BY DEF RecvPart
  <1>4. precvbuf \in Nat /\ irecvlen \in Nat /\ read \in Nat /\ precvMemPointer \in Nat
        /\ HeaderLen \in Nat
    BY FramingAssumption DEF IInv, TypeOK
  <1>5. TypeOK'
    BY <1>1, <1>2, <1>3, <1>4 DEF IInv, TypeOK, clientVars, floodVars
  <1>6. BufferExact' /\ ReadInv'
    BY <1>1, <1>2, <1>3, <1>4 DEF IInv, BufferExact, ReadInv
  <1>7. FloodInv' /\ FloodExact'
    BY <1>3 DEF IInv, FloodInv, FloodExact, floodVars
  <1> QED BY <1>5, <1>6, <1>7 DEF IInv

LEMMA ClosePreserves == ASSUME IInv, RecvCloses PROVE IInv'
  BY DEF IInv, RecvCloses, clientVars, recvVars, floodVars, TypeOK, BufferExact, ReadInv,
         FloodInv, FloodExact

-----------------------------------------------------------------------------
(* Steps that may complete a packet.                                       *)

LEMMA CompletePreserves ==
  ASSUME IInv, connected, NEW size \in Nat, NEW end \in Nat, size <= end,
         Complete(size, end), read' = end, UNCHANGED clientVars
  PROVE  IInv'
  <1>1. curStat' = "HD_INIT" /\ precvbuf' = 0 /\ irecvlen' = HeaderLen /\ precvMemPointer' = 0
    BY DEF Complete, AwaitHeader
  <1>2. FloodCount = burst /\ ~flooded /\ burst \in Nat /\ FloodKickCount \in Nat
    BY FramingAssumption DEF IInv, TypeOK, FloodInv, FloodCount
  <1>3. /\ delivered' \in Seq([from : Nat, size : Nat])
        /\ connected' \in BOOLEAN /\ flooded' \in BOOLEAN
    <2>1. end - size \in Nat
      OBVIOUS
    <2>2. [from |-> end - size, size |-> size] \in [from : Nat, size : Nat]
      BY <2>1
    <2>3. delivered \in Seq([from : Nat, size : Nat])
      BY DEF IInv, TypeOK
    <2>4. Append(delivered, [from |-> end - size, size |-> size]) \in Seq([from : Nat, size : Nat])
      BY <2>2, <2>3
    <2> QED BY <2>3, <2>4 DEF IInv, TypeOK, Complete
  <1>4. FloodInv' /\ FloodExact' /\ recent' \in BOOLEAN /\ burst' \in Nat /\ FloodAttackCount' \in Nat
    <2>1. CASE ~FloodAkEnable
      <3>1. ~IsFlood
        BY <2>1 DEF IsFlood
      <3>2. UNCHANGED <<FloodAttackCount, recent, burst, connected, flooded>>
        BY <2>1, <3>1 DEF Complete
      <3> QED BY <2>1, <3>2 DEF IInv, TypeOK, FloodInv, FloodExact
    <2>2. CASE FloodAkEnable
      <3>1. FloodAttackCount' = burst /\ burst' = burst + 1 /\ recent' = TRUE
        BY <1>2, <2>2 DEF Complete
      <3>2. CASE burst >= FloodKickCount
        <4>1. IsFlood
          BY <1>2, <2>2, <3>2, Zenon DEF IsFlood
        <4>2. connected' = FALSE /\ flooded' = TRUE
          BY <4>1 DEF Complete
        <4>3. burst = FloodKickCount
          BY <1>2, <2>2, <3>2 DEF IInv, FloodExact
        <4> QED BY <1>2, <2>2, <3>1, <4>2, <4>3 DEF FloodInv, FloodExact
      <3>3. CASE ~(burst >= FloodKickCount)
        <4>1. ~IsFlood
          BY <1>2, <3>3, Zenon DEF IsFlood
        <4>2. connected' = connected /\ flooded' = flooded
          BY <4>1 DEF Complete
        <4> QED BY <1>2, <2>2, <3>1, <3>3, <4>2 DEF FloodInv, FloodExact
      <3> QED BY <3>2, <3>3
    <2> QED BY <2>1, <2>2
  <1>5. TypeOK'
    BY <1>1, <1>3, <1>4, FramingAssumption DEF IInv, TypeOK, clientVars
  <1>6. BufferExact' /\ ReadInv'
    BY <1>1, FramingAssumption DEF BufferExact, ReadInv
  <1> QED BY <1>4, <1>5, <1>6 DEF IInv

LEMMA HeaderPreserves == ASSUME IInv, RecvHeader PROVE IInv'
  <1>1. /\ connected /\ curStat \in {"HD_INIT", "HD_RECVING"} /\ read' = read + irecvlen
        /\ UNCHANGED clientVars
    BY DEF RecvHeader
  <1>2. /\ HeaderLen \in Nat /\ HeaderLen >= 1 /\ MaxLen \in Nat
        /\ read \in Nat /\ precvbuf \in Nat /\ irecvlen \in Nat
    BY FramingAssumption DEF IInv, TypeOK
  <1>3. read' \in Nat /\ HeaderLen <= read'
    BY <1>1, <1>2 DEF IInv, BufferExact, ReadInv
  <1>4. ASSUME NEW pkgLen \in Lengths, AwaitHeader, UNCHANGED <<delivered, floodVars, connected>>
        PROVE  IInv'
    <2>1. TypeOK'
      BY <1>1, <1>2, <1>3, <1>4 DEF IInv, TypeOK, AwaitHeader, clientVars, floodVars
    <2>2. BufferExact' /\ ReadInv'
      BY <1>2, <1>3, <1>4 DEF AwaitHeader, BufferExact, ReadInv
    <2>3. FloodInv' /\ FloodExact'
      BY <1>4 DEF IInv, FloodInv, FloodExact, floodVars
    <2> QED BY <2>1, <2>2, <2>3 DEF IInv
  <1>5. ASSUME NEW pkgLen \in Lengths, HeaderOnly(pkgLen), Complete(pkgLen, read') PROVE IInv'
    BY <1>1, <1>2, <1>3, <1>5, CompletePreserves DEF HeaderOnly
  <1>6. ASSUME NEW pkgLen \in Lengths, Acceptable(pkgLen), ~HeaderOnly(pkgLen),
               curStat' = "BD_INIT", precvMemPointer' = pkgLen, precvbuf' = HeaderLen,
               irecvlen' = pkgLen - HeaderLen, UNCHANGED <<delivered, floodVars, connected>>
        PROVE  IInv'
    <2>1. pkgLen \in Nat /\ irecvlen' \in Nat /\ irecvlen' >= 1
      BY <1>2, <1>6, FramingAssumption DEF Acceptable, HeaderOnly
    <2>2. TypeOK'
      BY <1>1, <1>2, <1>3, <1>6, <2>1 DEF IInv, TypeOK, clientVars, floodVars
    <2>3. BufferExact' /\ ReadInv'
      BY <1>2, <1>3, <1>6, <2>1 DEF BufferExact, ReadInv
    <2>4. FloodInv' /\ FloodExact'
      BY <1>6 DEF IInv, FloodInv, FloodExact, floodVars
    <2> QED BY <2>2, <2>3, <2>4 DEF IInv
  <1> QED BY <1>4, <1>5, <1>6 DEF RecvHeader

LEMMA BodyPreserves == ASSUME IInv, RecvBody PROVE IInv'
  <1>1. /\ connected /\ curStat \in {"BD_INIT", "BD_RECVING"} /\ read' = read + irecvlen
        /\ Complete(precvMemPointer, read') /\ UNCHANGED clientVars
    BY DEF RecvBody
  <1>2. read \in Nat /\ precvbuf \in Nat /\ irecvlen \in Nat /\ precvMemPointer \in Nat
    BY DEF IInv, TypeOK
  <1>3. read' \in Nat /\ precvMemPointer <= read'
    BY <1>1, <1>2 DEF IInv, BufferExact, ReadInv
  <1> QED BY <1>1, <1>2, <1>3, CompletePreserves

-----------------------------------------------------------------------------

LEMMA NextPreserves == ASSUME IInv, [Next]_vars PROVE IInv'
  <1>1. CASE UNCHANGED vars
    BY <1>1 DEF vars, IInv, clientVars, recvVars, floodVars, TypeOK, BufferExact, ReadInv,
                FloodInv, FloodExact
  <1> QED BY <1>1, ClientPreserves, PausePreserves, PartPreserves, HeaderPreserves,
             BodyPreserves, ClosePreserves DEF Next, Quiet

(* The invariant of the read state machine and of TestFlood.               *)
THEOREM FramingInvariance == Spec => []IInv
  <1>1. Init => IInv
    BY InitEstablishes
  <1>2. IInv /\ [Next]_vars => IInv'
    BY NextPreserves
  <1> QED BY <1>1, <1>2, PTL DEF Spec

(* Types: no count of bytes is negative, no message begins before the      *)
(* stream does.                                                            *)
THEOREM FramingTypeCorrect == Spec => []TypeOK
  <1>1. IInv => TypeOK
    BY DEF IInv
  <1> QED BY <1>1, FramingInvariance, PTL

(* recv is never asked for 0 bytes and never writes past its buffer,       *)
(* whatever lengths clients announce and however recv cuts them.           *)
THEOREM BufferExactHolds == Spec => []BufferExact
  <1>1. IInv => BufferExact
    BY DEF IInv
  <1> QED BY <1>1, FramingInvariance, PTL

(* TestFlood closes a connection at the packet that makes FloodKickCount   *)
(* follow a first one without a pause, and at no other.                    *)
THEOREM FloodExactHolds == Spec => []FloodExact
  <1>1. IInv => FloodExact
    BY DEF IInv
  <1> QED BY <1>1, FramingInvariance, PTL

-----------------------------------------------------------------------------
(* RecvFraming implements PacketStream: however recv cuts the bytes of a   *)
(* connection up, the messages handed to the thread pool are the packets   *)
(* of the client, each whole, once and in the order sent, until the server *)
(* gets out of step.  Every step of the read state machine is a step of    *)
(* PacketStream, or none.                                                  *)

(* Where packet n begins, or, after the last, where the next would.        *)
Begin(n) == IF n = Len(sent) + 1 THEN total ELSE starts[n]

(* The bytes of the client: packets of at least a header, one behind the   *)
(* other, and acceptable ones of the length they announce.                 *)
StreamInv ==
    /\ Len(starts) = Len(sent) /\ read <= total
    /\ \A i \in 1 .. Len(sent), j \in 1 .. Len(sent) + 1 :
          i < j => Begin(i) + HeaderLen <= Begin(j)
    /\ \A i \in 1 .. Len(sent) : Acceptable(sent[i]) => Begin(i + 1) = Begin(i) + sent[i]

(* The server is in step with the client at packet n: it waits for its     *)
(* header, or has read the header and waits for the body it announces.     *)
At(n) ==
    /\ HeaderAt = Begin(n)
    /\ curStat \in {"BD_INIT", "BD_RECVING"} =>
          n <= Len(sent) /\ Acceptable(sent[n]) /\ precvMemPointer = sent[n]

StepInv ==
    /\ \E n \in 1 .. Len(sent) + 1 : IsNext(n, HeaderAt)
    /\ BeforeBreaks(HeaderAt) => \E n \in 1 .. Len(sent) + 1 : At(n)

(* What has been handed to the pool came before what is being received.    *)
OrderInv == \A k \in DOMAIN delivered : delivered[k].from < HeaderAt

RInv == IInv /\ StreamInv /\ StepInv /\ OrderInv

-----------------------------------------------------------------------------
(* Positions in the stream.                                                *)

LEMMA HeaderIsInt == ASSUME TypeOK, TypeOK' PROVE HeaderAt \in Int /\ HeaderAt' \in Int
  <1>1. read \in Int /\ precvbuf \in Int
    BY DEF TypeOK
  <1>2. read' \in Int /\ precvbuf' \in Int
    BY DEF TypeOK
  <1> QED BY <1>1, <1>2 DEF HeaderAt

LEMMA StreamTypes == ASSUME TypeOK, StreamInv
                     PROVE  /\ Len(sent) \in Nat /\ DOMAIN sent = 1 .. Len(sent)
                            /\ HeaderLen \in Nat /\ HeaderLen >= 1
                            /\ total \in Nat /\ read \in Nat /\ precvbuf \in Nat /\ HeaderAt \in Int
                            /\ \A i \in 1 .. Len(sent) :
                                  /\ starts[i] \in Nat /\ sent[i] \in Nat
                                  /\ Begin(i) = starts[i]
                            /\ \A n \in 1 .. Len(sent) + 1 : Begin(n) \in Nat
  <1>1. HeaderLen \in Nat /\ HeaderLen >= 1 /\ Lengths \subseteq Nat
    BY FramingAssumption
  <1>2. /\ sent \in Seq(Lengths) /\ starts \in Seq(Nat)
        /\ total \in Nat /\ read \in Nat /\ precvbuf \in Nat
    BY DEF TypeOK
  <1>3. Len(starts) = Len(sent)
    BY DEF StreamInv
  <1>4. /\ Len(sent) \in Nat /\ DOMAIN sent = 1 .. Len(sent)
        /\ \A i \in 1 .. Len(sent) : starts[i] \in Nat /\ sent[i] \in Nat
    <2>1. Len(sent) \in Nat /\ DOMAIN sent = 1 .. Len(sent)
      BY <1>2
    <2>2. \A i \in 1 .. Len(sent) : sent[i] \in Lengths
      BY <1>2
    <2>3. \A i \in 1 .. Len(sent) : starts[i] \in Nat
      BY <1>2, <1>3
    <2> QED BY <1>1, <2>1, <2>2, <2>3
  <1>5. \A i \in 1 .. Len(sent) : Begin(i) = starts[i]
    BY <1>4 DEF Begin
  <1>6. \A n \in 1 .. Len(sent) + 1 : Begin(n) \in Nat
    BY <1>2, <1>4 DEF Begin
  <1> QED BY <1>1, <1>2, <1>4, <1>5, <1>6 DEF HeaderAt

LEMMA BreakFacts ==
  ASSUME TypeOK, StreamInv, NEW x \in Int
  PROVE  BeforeBreaks(x) <=>
            \A i \in 1 .. Len(sent) :
               ~Acceptable(sent[i]) /\ Begin(i) + HeaderLen < Begin(i + 1)
                  => x < Begin(i) + HeaderLen
  <1>1. \A i \in 1 .. Len(sent) : Size(i) = Begin(i + 1) - Begin(i)
    <2> TAKE i \in 1 .. Len(sent)
    <2>1. i \in Nat /\ Begin(i) = starts[i]
      BY StreamTypes
    <2>2. CASE i = Len(sent)
      BY <2>1, <2>2 DEF Size, Begin
    <2>3. CASE i # Len(sent)
      <3>1. i + 1 \in 1 .. Len(sent)
        <4>1. Len(sent) \in Nat
          BY StreamTypes
        <4> QED BY <4>1, <2>3
      <3>2. Begin(i + 1) = starts[i + 1]
        BY <3>1, StreamTypes
      <3> QED BY <2>1, <2>3, <3>2 DEF Size
    <2> QED BY <2>2, <2>3
  <1>2. \A i \in 1 .. Len(sent) : Begin(i) \in Nat /\ Begin(i + 1) \in Nat /\ starts[i] = Begin(i)
    BY StreamTypes
  <1>3. \A i \in 1 .. Len(sent) : Size(i) > HeaderLen <=> Begin(i) + HeaderLen < Begin(i + 1)
    BY <1>1, <1>2, StreamTypes
  <1>4. DOMAIN sent = 1 .. Len(sent)
    BY StreamTypes
  <1> HIDE DEF Begin, Size
  <1> QED BY <1>2, <1>3, <1>4 DEF BeforeBreaks, Breaks

(* There is one next packet.                                               *)
LEMMA OneNext ==
  ASSUME Len(sent) \in Nat, NEW at, NEW n \in 1 .. Len(sent) + 1, IsNext(n, at),
         NEW m \in 1 .. Len(sent) + 1, IsNext(m, at)
  PROVE  m = n
  <1>1. CASE m < n
    <2>1. m \in 1 .. n - 1 /\ m <= Len(sent)
      BY <1>1
    <2> QED BY <2>1 DEF IsNext
  <1>2. CASE n < m
    <2>1. n \in 1 .. m - 1 /\ n <= Len(sent)
      BY <1>2
    <2> QED BY <2>1 DEF IsNext
  <1> QED BY <1>1, <1>2

LEMMA NextIs ==
  ASSUME Len(sent) \in Nat, NEW n \in 1 .. Len(sent) + 1, IsNext(n, HeaderAt)
  PROVE  NextPacket = n
  BY OneNext DEF NextPacket

LEMMA NextWillBe ==
  ASSUME Len(sent') \in Nat, NEW n \in 1 .. Len(sent') + 1, IsNext(n, HeaderAt)'
  PROVE  NextPacket' = n
  <1>1. ASSUME NEW m \in 1 .. Len(sent') + 1, IsNext(m, HeaderAt)'
        PROVE  m = n
    <2>1. CASE m < n
      <3>1. m \in 1 .. n - 1 /\ m <= Len(sent')
        BY <2>1
      <3> QED BY <3>1, <1>1 DEF IsNext
    <2>2. CASE n < m
      <3>1. n \in 1 .. m - 1 /\ n <= Len(sent')
        BY <2>2
      <3> QED BY <3>1, <1>1 DEF IsNext
    <2> QED BY <2>1, <2>2
  <1> QED BY <1>1 DEF NextPacket

(* While the server is in step, it is the packet it waits for.             *)
LEMMA InStepNext ==
  ASSUME TypeOK, StreamInv, NEW n \in 1 .. Len(sent) + 1, BeforeBreaks(Begin(n))
  PROVE  IsNext(n, Begin(n))
  <1>1. /\ Len(sent) \in Nat /\ HeaderLen \in Nat /\ HeaderLen >= 1
        /\ \A i \in 1 .. Len(sent) : starts[i] \in Nat /\ starts[i] = Begin(i)
        /\ Begin(n) \in Nat
    BY StreamTypes
  <1>2. ASSUME NEW i \in 1 .. n - 1
        PROVE  Passed(i, Begin(n))
    <2>1. i \in 1 .. Len(sent) /\ i < n
      BY <1>1
    <2>2. Begin(i) + HeaderLen <= Begin(n)
      BY <2>1 DEF StreamInv
    <2>3. starts[i] < Begin(n)
      BY <2>1, <2>2, <1>1
    <2>4. BeforeBreaks(starts[i])
      <3>1. starts[i] \in Int
        BY <2>1, <1>1
      <3>2. \A k \in 1 .. Len(sent) : Begin(k) \in Nat
        BY StreamTypes
      <3> QED BY <3>1, <3>2, <2>3, <1>1, BreakFacts
    <2> QED BY <2>3, <2>4 DEF Passed
  <1>3. n <= Len(sent) => ~Passed(n, Begin(n))
    <2>1. SUFFICES ASSUME n <= Len(sent)
                   PROVE  ~(starts[n] < Begin(n))
      BY DEF Passed
    <2>2. starts[n] = Begin(n)
      BY <2>1, <1>1
    <2> QED BY <2>2, <1>1
  <1> QED BY <1>2, <1>3 DEF IsNext

(* The packet after an acceptable one, or after one without a body, begins *)
(* before every break that the one before begins before.                   *)
LEMMA StaysInStep ==
  ASSUME TypeOK, StreamInv, NEW n \in 1 .. Len(sent), BeforeBreaks(Begin(n)),
         Acceptable(sent[n]) \/ Begin(n + 1) = Begin(n) + HeaderLen
  PROVE  BeforeBreaks(Begin(n + 1))
  <1>1. /\ Len(sent) \in Nat /\ HeaderLen \in Nat /\ HeaderLen >= 1 
        /\ \A i \in 1 .. Len(sent) + 1 : Begin(i) \in Nat
    BY StreamTypes
  <1>2. n + 1 \in 1 .. Len(sent) + 1
    BY <1>1
  <1>3. SUFFICES ASSUME NEW i \in 1 .. Len(sent), ~Acceptable(sent[i]),
                        Begin(i) + HeaderLen < Begin(i + 1)
                 PROVE  Begin(n + 1) < Begin(i) + HeaderLen
    <2>1. Begin(n + 1) \in Int
      BY <1>1, <1>2
    <2> QED BY <2>1, BreakFacts
  <1>4. Begin(n) < Begin(i) + HeaderLen
    <2>1. Begin(n) \in Int
      BY <1>1
    <2> QED BY <2>1, <1>3, BreakFacts
  <1>5. i # n
    BY <1>1, <1>3
  <1>6. ~(i < n)
    <2>1. i < n => Begin(i) + HeaderLen <= Begin(n)
      BY <1>1 DEF StreamInv
    <2> QED BY <2>1, <1>1, <1>4
  <1>7. n + 1 = i \/ n + 1 < i
    BY <1>5, <1>6, <1>1
  <1>8. CASE n + 1 = i
    BY <1>8, <1>1
  <1>9. CASE n + 1 < i
    <2>1. n + 1 \in 1 .. Len(sent) /\ i \in 1 .. Len(sent) + 1
      BY <1>9, <1>1
    <2>2. Begin(n + 1) + HeaderLen <= Begin(i)
      BY <1>9, <2>1 DEF StreamInv
    <2> QED BY <2>1, <2>2, <1>1
  <1> QED BY <1>7, <1>8, <1>9

(* Out of step, what is read changes nothing.                              *)
LEMMA OutOfStep ==
  ASSUME TypeOK, StreamInv, NEW x \in Int, NEW y \in Int, x <= y, ~BeforeBreaks(x)
  PROVE  /\ ~BeforeBreaks(y)
         /\ \A n \in 1 .. Len(sent) + 1 : IsNext(n, y) <=> IsNext(n, x)
  <1>1. PICK k \in 1 .. Len(sent) : ~Acceptable(sent[k]) /\ Begin(k) + HeaderLen < Begin(k + 1)
                                    /\ ~(x < Begin(k) + HeaderLen)
    BY BreakFacts
  <1>2. /\ Len(sent) \in Nat /\ HeaderLen \in Nat
        /\ \A i \in 1 .. Len(sent) : starts[i] \in Nat /\ starts[i] = Begin(i)
        /\ Begin(k) \in Nat
    BY StreamTypes
  <1>3. ~BeforeBreaks(y)
    <2>1. ~(y < Begin(k) + HeaderLen)
      BY <1>1, <1>2
    <2> QED BY <2>1, <1>1, BreakFacts
  <1>4. ASSUME NEW i \in 1 .. Len(sent)
        PROVE  Passed(i, y) <=> Passed(i, x)
    <2>1. BeforeBreaks(starts[i]) => starts[i] < Begin(k) + HeaderLen
      BY <1>1, <1>2, BreakFacts
    <2>2. BeforeBreaks(starts[i]) => starts[i] < x /\ starts[i] < y
      BY <2>1, <1>1, <1>2
    <2> QED BY <2>2 DEF Passed
  <1>5. ASSUME NEW n \in 1 .. Len(sent) + 1
        PROVE  IsNext(n, y) <=> IsNext(n, x)
    <2>1. 1 .. n - 1 \subseteq 1 .. Len(sent) /\ (n <= Len(sent) => n \in 1 .. Len(sent))
      BY <1>2
    <2> QED BY <2>1, <1>4 DEF IsNext
  <1> QED BY <1>3, <1>5

(* An unacceptable packet that has a body: the server takes the body for   *)
(* the next header, and is out of step.                                    *)
LEMMA LeavesStep ==
  ASSUME TypeOK, StreamInv, NEW n \in 1 .. Len(sent), BeforeBreaks(Begin(n)),
         ~Acceptable(sent[n]), Begin(n + 1) # Begin(n) + HeaderLen
  PROVE  /\ ~BeforeBreaks(Begin(n) + HeaderLen)
         /\ n + 1 \in 1 .. Len(sent) + 1
         /\ IsNext(n + 1, Begin(n) + HeaderLen)
  <1>1. /\ Len(sent) \in Nat /\ HeaderLen \in Nat /\ HeaderLen >= 1
        /\ \A i \in 1 .. Len(sent) + 1 : Begin(i) \in Nat
        /\ \A i \in 1 .. Len(sent) : starts[i] \in Nat /\ starts[i] = Begin(i)
    BY StreamTypes
  <1>2. n + 1 \in 1 .. Len(sent) + 1
    BY <1>1
  <1>3. Begin(n) + HeaderLen < Begin(n + 1)
    <2>1. Begin(n) + HeaderLen <= Begin(n + 1)
      BY <1>1, <1>2 DEF StreamInv
    <2>2. Begin(n) \in Nat /\ Begin(n + 1) \in Nat
      BY <1>1, <1>2
    <2>3. HeaderLen \in Nat
      BY <1>1
    <2> QED BY <2>1, <2>2, <2>3
  <1>4. ~BeforeBreaks(Begin(n) + HeaderLen) /\ ~BeforeBreaks(Begin(n + 1))
    <2>1. Begin(n) + HeaderLen \in Int /\ Begin(n + 1) \in Int
      BY <1>1, <1>2
    <2>2. ~(Begin(n) + HeaderLen < Begin(n) + HeaderLen) /\ ~(Begin(n + 1) < Begin(n) + HeaderLen)
      BY <1>1, <1>2, <1>3
    <2> QED BY <2>1, <2>2, <1>3, BreakFacts
  <1>5. ASSUME NEW i \in 1 .. n
        PROVE  Passed(i, Begin(n) + HeaderLen)
    <2>1. i \in 1 .. Len(sent) /\ i \in 1 .. Len(sent) + 1
      BY <1>1
    <2>2. starts[i] = Begin(i) /\ Begin(i) <= Begin(n)
      <3>1. CASE i = n
        BY <3>1, <2>1, <1>1
      <3>2. CASE i # n
        <4>1. i < n
          BY <3>2
        <4>2. Begin(i) + HeaderLen <= Begin(n)
          BY <4>1, <2>1 DEF StreamInv
        <4> QED BY <4>2, <2>1, <1>1
      <3> QED BY <3>1, <3>2
    <2>3. starts[i] < Begin(n) + HeaderLen
      BY <2>1, <2>2, <1>1
    <2>4. BeforeBreaks(starts[i])
      <3>1. starts[i] \in Int /\ Begin(n) \in Int
        BY <2>1, <2>2, <1>1
      <3> QED BY <3>1, <2>2, OutOfStep
    <2> QED BY <2>3, <2>4 DEF Passed
  <1>6. n + 1 <= Len(sent) => ~Passed(n + 1, Begin(n) + HeaderLen)
    <2>1. SUFFICES ASSUME n + 1 <= Len(sent)
                   PROVE  ~BeforeBreaks(starts[n + 1])
      BY DEF Passed
    <2>2. starts[n + 1] = Begin(n + 1)
      BY <2>1, <1>1
    <2> QED BY <2>2, <1>4
  <1>7. n + 1 - 1 = n
    OBVIOUS
  <1>8. IsNext(n + 1, Begin(n) + HeaderLen)
    BY <1>5, <1>6, <1>7 DEF IsNext
  <1> QED BY <1>2, <1>4, <1>8

LEMMA MessageFrom == ASSUME TypeOK PROVE \A k \in DOMAIN delivered : delivered[k].from \in Nat
  <1> DEFINE Message == [from : Nat, size : Nat]
  <1>1. delivered \in Seq(Message)
    BY DEF TypeOK
  <1>2. \A x \in Message : x.from \in Nat
    OBVIOUS
  <1> HIDE DEF Message
  <1> QED BY <1>1, <1>2

-----------------------------------------------------------------------------
(* Steps of the server, which leave the client's stream alone.             *)

LEMMA StreamKept ==
  ASSUME UNCHANGED clientVars
  PROVE  /\ \A n : Begin(n)' = Begin(n)
         /\ \A x : BeforeBreaks(x)' <=> BeforeBreaks(x)
         /\ \A n, at : IsNext(n, at)' <=> IsNext(n, at)
         /\ \A m : PacketOf(m)' = PacketOf(m)
  BY DEF clientVars, Begin, BeforeBreaks, Breaks, Size, IsNext, Passed, PacketOf, IsPacket

LEMMA StreamInvKept == ASSUME StreamInv, UNCHANGED clientVars, read' <= total PROVE StreamInv'
  BY DEF StreamInv, Begin, clientVars

LEMMA PacketsKept ==
  ASSUME TypeOK, UNCHANGED clientVars,
         \/ delivered' = delivered
         \/ \E m : delivered' = Append(delivered, m) /\ ~BeforeBreaks(m.from)
  PROVE  Packets' = Packets
  <1>1. /\ \A x : BeforeBreaks(x)' <=> BeforeBreaks(x)
        /\ \A m : PacketOf(m)' = PacketOf(m)
    BY StreamKept
  <1>2. InStep' = InStep /\ \A k \in InStep : delivered'[k] = delivered[k]
    <2>1. CASE delivered' = delivered
      BY <1>1, <2>1 DEF InStep
    <2>2. ASSUME NEW m, delivered' = Append(delivered, m), ~BeforeBreaks(m.from)
          PROVE  InStep' = InStep /\ \A k \in InStep : delivered'[k] = delivered[k]
      <3>1. /\ Len(delivered) \in Nat /\ DOMAIN delivered = 1 .. Len(delivered)
            /\ DOMAIN delivered' = 1 .. Len(delivered) + 1
            /\ \A k \in DOMAIN delivered : delivered'[k] = delivered[k]
            /\ delivered'[Len(delivered) + 1] = m
        BY <2>2 DEF TypeOK
      <3>2. DOMAIN delivered' = DOMAIN delivered \cup {Len(delivered) + 1}
        BY <3>1
      <3> QED BY <1>1, <2>2, <3>1, <3>2 DEF InStep
    <2> QED BY <2>1, <2>2
  <1> QED BY <1>1, <1>2 DEF Packets

(* No two packets begin at the same byte.                                  *)
LEMMA OnePacket ==
  ASSUME TypeOK, StreamInv, NEW m, NEW p \in DOMAIN sent, IsPacket(m, p),
         NEW q \in DOMAIN sent, IsPacket(m, q)
  PROVE  q = p
  <1>1. /\ DOMAIN sent = 1 .. Len(sent) /\ Len(sent) \in Nat
        /\ HeaderLen \in Nat /\ HeaderLen >= 1
        /\ \A i \in 1 .. Len(sent) : starts[i] = Begin(i) /\ starts[i] \in Nat
    BY StreamTypes
  <1>2. Begin(p) = Begin(q)
    BY <1>1 DEF IsPacket
  <1>3. p < q => Begin(p) + HeaderLen <= Begin(q)
    BY <1>1 DEF StreamInv
  <1>4. q < p => Begin(q) + HeaderLen <= Begin(p)
    BY <1>1 DEF StreamInv
  <1> QED BY <1>1, <1>2, <1>3, <1>4

LEMMA PacketsGrow ==
  ASSUME TypeOK, StreamInv, OrderInv, BeforeBreaks(HeaderAt), UNCHANGED clientVars,
         NEW n \in 1 .. Len(sent), HeaderAt = Begin(n),
         delivered' = Append(delivered, [from |-> Begin(n), size |-> sent[n]])
  PROVE  Packets' = Append(Packets, n)
  <1> DEFINE m == [from |-> Begin(n), size |-> sent[n]]
  <1>1. /\ \A x : BeforeBreaks(x)' <=> BeforeBreaks(x)
        /\ \A x : PacketOf(x)' = PacketOf(x)
    BY StreamKept
  <1>2. /\ Len(delivered) \in Nat /\ DOMAIN delivered = 1 .. Len(delivered)
        /\ DOMAIN delivered' = 1 .. Len(delivered) + 1
        /\ \A k \in 1 .. Len(delivered) : delivered'[k] = delivered[k]
        /\ delivered'[Len(delivered) + 1] = m
        /\ \A k \in 1 .. Len(delivered) : delivered[k].from \in Nat
    <2>1. delivered \in Seq([from : Nat, size : Nat]) /\ delivered' = Append(delivered, m)
      BY DEF TypeOK
    <2> HIDE DEF m
    <2> QED BY <2>1, MessageFrom
  <1>3. \A k \in 1 .. Len(delivered) : BeforeBreaks(delivered[k].from)
    <2> TAKE k \in 1 .. Len(delivered)
    <2>1. delivered[k].from \in Int /\ HeaderAt \in Int
      BY <1>2, StreamTypes
    <2>2. delivered[k].from < HeaderAt
      BY <1>2 DEF OrderInv
    <2>3. delivered[k].from <= HeaderAt
      BY <2>1, <2>2
    <2> QED BY <2>1, <2>3, OutOfStep
  <1>4. InStep = 1 .. Len(delivered)
    BY <1>2, <1>3 DEF InStep
  <1>5. InStep' = 1 .. Len(delivered) + 1
    <2>1. m.from = HeaderAt
      OBVIOUS
    <2>2. \A k \in 1 .. Len(delivered) + 1 : BeforeBreaks(delivered'[k].from)
      BY <1>2, <1>3, <2>1
    <2> QED BY <1>1, <1>2, <2>2 DEF InStep
  <1>6. PacketOf(m) = n
    <2>1. n \in DOMAIN sent /\ starts[n] = Begin(n)
      BY StreamTypes
    <2>2. IsPacket(m, n)
      BY <2>1 DEF IsPacket
    <2> HIDE DEF m
    <2> QED BY <2>1, <2>2, OnePacket DEF PacketOf
  <1> HIDE DEF m
  <1>7. /\ Packets = [k \in 1 .. Len(delivered) |-> PacketOf(delivered[k])]
        /\ Packets' = [k \in 1 .. Len(delivered) + 1 |-> PacketOf(delivered'[k])]
    BY <1>1, <1>4, <1>5 DEF Packets
  <1>8. /\ Len(Packets) = Len(delivered)
        /\ Append(Packets, n) = [k \in 1 .. Len(delivered) + 1 |->
                                    IF k <= Len(delivered) THEN Packets[k] ELSE n]
    BY <1>2, <1>7
  <1>9. ASSUME NEW k \in 1 .. Len(delivered) + 1
        PROVE  PacketOf(delivered'[k]) = IF k <= Len(delivered) THEN Packets[k] ELSE n
    <2>1. CASE k = Len(delivered) + 1
      BY <2>1, <1>2, <1>6
    <2>2. CASE k # Len(delivered) + 1
      <3>1. k \in 1 .. Len(delivered) /\ k <= Len(delivered)
        BY <2>2, <1>2
      <3> QED BY <3>1, <1>2, <1>7
    <2> QED BY <2>1, <2>2
  <1> QED BY <1>7, <1>8, <1>9

LEMMA OrderGrows ==
  ASSUME TypeOK, OrderInv, HeaderAt \in Int, HeaderAt' \in Int, HeaderAt < HeaderAt', NEW size,
         delivered' = Append(delivered, [from |-> HeaderAt, size |-> size])
  PROVE  OrderInv'
  <1> DEFINE m == [from |-> HeaderAt, size |-> size]
             Message == [from : Nat, size : Nat]
  <1>1. delivered \in Seq(Message)
    BY DEF TypeOK
  <1>2. delivered' = Append(delivered, m) /\ m.from = HeaderAt
    OBVIOUS
  <1>3. \A x \in Message : x.from \in Nat
    OBVIOUS
  <1> HIDE DEF m, Message
  <1>4. /\ Len(delivered) \in Nat /\ DOMAIN delivered = 1 .. Len(delivered)
        /\ DOMAIN delivered' = 1 .. Len(delivered) + 1
        /\ \A k \in 1 .. Len(delivered) : delivered'[k] = delivered[k] /\ delivered[k] \in Message
        /\ delivered'[Len(delivered) + 1] = m
    BY <1>1, <1>2
  <1>5. ASSUME NEW k \in DOMAIN delivered'
        PROVE  delivered'[k].from < HeaderAt'
    <2>1. CASE k = Len(delivered) + 1
      BY <2>1, <1>2, <1>4
    <2>2. CASE k # Len(delivered) + 1
      <3>1. k \in 1 .. Len(delivered) /\ k \in DOMAIN delivered
        BY <2>2, <1>4
      <3>2. delivered'[k] = delivered[k] /\ delivered[k].from \in Nat
        BY <3>1, <1>3, <1>4
      <3>3. delivered[k].from < HeaderAt
        BY <3>1 DEF OrderInv
      <3> QED BY <3>2, <3>3
    <2> QED BY <2>1, <2>2
  <1> QED BY <1>5 DEF OrderInv

-----------------------------------------------------------------------------
(* One step of the server at a time: it keeps the invariant, and it is a   *)
(* step of PacketStream or a stutter.                                      *)

Stutter == UNCHANGED <<sent, NextPacket, Packets, Open>>
Simulated == Abstract!Next \/ Stutter

(* The server is out of step: nothing it does is visible.                  *)
LEMMA OutSimulated ==
  ASSUME RInv, TypeOK', UNCHANGED clientVars, ~BeforeBreaks(HeaderAt),
         HeaderAt <= HeaderAt', read' <= total,
         \/ delivered' = delivered
         \/ \E size : /\ delivered' = Append(delivered, [from |-> HeaderAt, size |-> size])
                      /\ HeaderAt < HeaderAt'
  PROVE  StreamInv' /\ StepInv' /\ OrderInv' /\ Stutter
  <1>1. /\ TypeOK /\ StreamInv /\ StepInv /\ OrderInv
        /\ HeaderAt \in Int /\ HeaderAt' \in Int /\ Len(sent) \in Nat
    <2>1. TypeOK /\ StreamInv /\ StepInv /\ OrderInv
      BY DEF RInv, IInv
    <2> QED BY <2>1, HeaderIsInt, StreamTypes
  <1>2. /\ ~BeforeBreaks(HeaderAt')
        /\ \A n \in 1 .. Len(sent) + 1 : IsNext(n, HeaderAt') <=> IsNext(n, HeaderAt)
    BY <1>1, OutOfStep
  <1>3. /\ ~BeforeBreaks(HeaderAt)'
        /\ \A n \in 1 .. Len(sent) + 1 : IsNext(n, HeaderAt)' <=> IsNext(n, HeaderAt)
    BY <1>2, StreamKept
  <1>4. StreamInv'
    BY <1>1, StreamInvKept
  <1>5. StepInv'
    BY <1>1, <1>3 DEF StepInv, clientVars
  <1>6. OrderInv'
    <2>1. CASE delivered' = delivered
      BY <1>1, <2>1, MessageFrom DEF OrderInv
    <2>2. ASSUME NEW size, delivered' = Append(delivered, [from |-> HeaderAt, size |-> size]),
                 HeaderAt < HeaderAt'
          PROVE  OrderInv'
      BY <1>1, <2>2, OrderGrows
    <2> QED BY <2>1, <2>2
  <1>7. Packets' = Packets
    <2>1. \A size : [from |-> HeaderAt, size |-> size].from = HeaderAt
      OBVIOUS
    <2> QED BY <1>1, <2>1, PacketsKept
  <1>8. NextPacket' = NextPacket
    <2>1. PICK n \in 1 .. Len(sent) + 1 : IsNext(n, HeaderAt)
      BY <1>1 DEF StepInv
    <2>2. IsNext(n, HeaderAt)' /\ sent' = sent
      BY <2>1, <1>3 DEF clientVars
    <2>3. NextPacket = n
      BY <2>1, <1>1, NextIs
    <2>4. NextPacket' = n
      BY <2>1, <2>2, <1>1, NextWillBe
    <2> QED BY <2>3, <2>4
  <1>9. sent' = sent /\ Open' = Open
    BY <1>3 DEF Open, clientVars
  <1> QED BY <1>4, <1>5, <1>6, <1>7, <1>8, <1>9 DEF Stutter

(* The server stays at the byte where it is.                               *)
LEMMA SameSimulated ==
  ASSUME RInv, TypeOK', UNCHANGED <<clientVars, delivered>>, HeaderAt' = HeaderAt, read' <= total
  PROVE  /\ StreamInv' /\ OrderInv'
         /\ \E n \in (1 .. Len(sent) + 1)' : IsNext(n, HeaderAt)'
         /\ BeforeBreaks(HeaderAt)' <=> BeforeBreaks(HeaderAt)
         /\ UNCHANGED <<sent, NextPacket, Packets>>
  <1>1. /\ TypeOK /\ StreamInv /\ StepInv /\ OrderInv /\ Len(sent) \in Nat
    BY StreamTypes DEF RInv, IInv
  <1>2. /\ BeforeBreaks(HeaderAt)' <=> BeforeBreaks(HeaderAt)
        /\ \A n : IsNext(n, HeaderAt)' <=> IsNext(n, HeaderAt)
    BY StreamKept
  <1>3. sent' = sent /\ StreamInv' /\ OrderInv'
    BY <1>1, StreamInvKept DEF OrderInv, clientVars
  <1>4. PICK n \in 1 .. Len(sent) + 1 : IsNext(n, HeaderAt)
    BY <1>1 DEF StepInv
  <1>5. NextPacket = n /\ NextPacket' = n
    BY <1>1, <1>2, <1>3, <1>4, NextIs, NextWillBe
  <1>6. Packets' = Packets
    BY <1>1, PacketsKept DEF clientVars
  <1> QED BY <1>2, <1>3, <1>4, <1>5, <1>6

(* The server is in step and comes to the end of packet n.                 *)
LEMMA PassesPacket ==
  ASSUME RInv, TypeOK', UNCHANGED clientVars, read' <= total,
         NEW n \in 1 .. Len(sent), HeaderAt = Begin(n), BeforeBreaks(HeaderAt),
         Acceptable(sent[n]) \/ Begin(n + 1) = Begin(n) + HeaderLen,
         HeaderAt' = Begin(n + 1), curStat' = "HD_INIT"
  PROVE  /\ StreamInv' /\ StepInv' /\ HeaderAt < HeaderAt'
         /\ sent' = sent /\ NextPacket = n /\ NextPacket' = n + 1
         /\ BeforeBreaks(HeaderAt)'
  <1>1. TypeOK /\ StreamInv
    BY DEF RInv, IInv
  <1>2. /\ Len(sent) \in Nat /\ n \in 1 .. Len(sent) + 1 /\ n + 1 \in 1 .. Len(sent) + 1
        /\ HeaderLen \in Nat /\ HeaderLen >= 1 /\ Begin(n) \in Nat /\ Begin(n + 1) \in Nat
    BY <1>1, StreamTypes
  <1>3. sent' = sent
    BY DEF clientVars
  <1>4. StreamInv'
    BY <1>1, StreamInvKept
  <1>5. HeaderAt < HeaderAt'
    <2>1. Begin(n) + HeaderLen <= Begin(n + 1)
      BY <1>1, <1>2 DEF StreamInv
    <2> QED BY <2>1, <1>2
  <1>6. BeforeBreaks(Begin(n + 1))
    BY <1>1, StaysInStep
  <1>7. BeforeBreaks(HeaderAt)'
    BY <1>6, StreamKept
  <1>8. IsNext(n, HeaderAt) /\ IsNext(n + 1, HeaderAt)'
    <2>1. IsNext(n, Begin(n)) /\ IsNext(n + 1, Begin(n + 1))
      BY <1>1, <1>2, <1>6, InStepNext
    <2> QED BY <2>1, StreamKept
  <1>9. NextPacket = n /\ NextPacket' = n + 1
    BY <1>2, <1>3, <1>8, NextIs, NextWillBe
  <1>10. StepInv'
    <2>1. At(n + 1)'
      BY StreamKept DEF At
    <2> QED BY <1>2, <1>3, <1>8, <2>1 DEF StepInv
  <1> QED BY <1>3, <1>4, <1>5, <1>7, <1>9, <1>10

(* The packet complete is delivered, or the connection closed for it.      *)
LEMMA CompleteSimulated ==
  ASSUME RInv, TypeOK', UNCHANGED clientVars, connected, read' <= total,
         NEW n \in 1 .. Len(sent), HeaderAt = Begin(n), BeforeBreaks(HeaderAt),
         Acceptable(sent[n]), read' = HeaderAt + sent[n], Complete(sent[n], read')
  PROVE  StreamInv' /\ StepInv' /\ OrderInv' /\ Abstract!Next
  <1>1. TypeOK /\ StreamInv /\ OrderInv
    BY DEF RInv, IInv
  <1>2. /\ Len(sent) \in Nat /\ sent[n] \in Nat /\ Begin(n) \in Nat /\ read' \in Nat
    BY <1>1, StreamTypes DEF TypeOK
  <1>3. HeaderAt' = Begin(n + 1) /\ curStat' = "HD_INIT"
    <2>1. Begin(n + 1) = Begin(n) + sent[n]
      BY <1>1 DEF StreamInv
    <2>2. precvbuf' = 0 /\ curStat' = "HD_INIT"
      BY DEF Complete, AwaitHeader
    <2> QED BY <2>1, <2>2, <1>2 DEF HeaderAt
  <1>4. /\ StreamInv' /\ StepInv' /\ HeaderAt < HeaderAt'
        /\ sent' = sent /\ NextPacket = n /\ NextPacket' = n + 1
        /\ BeforeBreaks(HeaderAt)'
    BY <1>3, PassesPacket
  <1>5. Open /\ Open' = connected'
    <2>1. connected \in BOOLEAN /\ connected' \in BOOLEAN
      BY <1>1 DEF TypeOK
    <2> QED BY <2>1, <1>4 DEF Open
  <1>6. CASE IsFlood
    <2>1. connected' = FALSE /\ delivered' = delivered
      BY <1>6 DEF Complete
    <2>2. Packets' = Packets
      BY <1>1, <2>1, PacketsKept
    <2>3. Abstract!Close
      BY <1>4, <1>5, <2>1, <2>2 DEF Abstract!Close
    <2>4. OrderInv'
      <3>1. HeaderAt \in Int /\ HeaderAt' \in Int
        BY <1>1, HeaderIsInt
      <3> QED BY <1>1, <1>4, <2>1, <3>1, MessageFrom DEF OrderInv
    <2> QED BY <1>4, <2>3, <2>4 DEF Abstract!Next
  <1>7. CASE ~IsFlood
    <2>1. /\ connected' = connected
          /\ delivered' = Append(delivered, [from |-> read' - sent[n], size |-> sent[n]])
      BY <1>7 DEF Complete
    <2>2. HeaderAt \in Int /\ HeaderAt' \in Int
      BY <1>1, HeaderIsInt
    <2>3. delivered' = Append(delivered, [from |-> HeaderAt, size |-> sent[n]])
      <3>1. read' - sent[n] = HeaderAt
        BY <1>2, <2>2
      <3> QED BY <2>1, <3>1
    <2>4. OrderInv'
      BY <1>1, <1>4, <2>2, <2>3, OrderGrows
    <2>5. Packets' = Append(Packets, n)
      BY <1>1, <2>3, PacketsGrow
    <2>6. n <= Len(sent)
      BY <1>2
    <2>7. Abstract!Deliver
      BY <1>4, <1>5, <2>1, <2>5, <2>6 DEF Abstract!Deliver
    <2> QED BY <1>4, <2>4, <2>7 DEF Abstract!Next
  <1> QED BY <1>6, <1>7

(* A packet that is not acceptable and has no body is skipped.             *)
LEMMA SkipSimulated ==
  ASSUME RInv, TypeOK', UNCHANGED <<clientVars, delivered, connected>>, connected, read' <= total,
         NEW n \in 1 .. Len(sent), HeaderAt = Begin(n), BeforeBreaks(HeaderAt),
         ~Acceptable(sent[n]), Begin(n + 1) = Begin(n) + HeaderLen,
         read' = HeaderAt + HeaderLen, AwaitHeader
  PROVE  StreamInv' /\ StepInv' /\ OrderInv' /\ Abstract!Next
  <1>1. TypeOK /\ StreamInv /\ OrderInv
    BY DEF RInv, IInv
  <1>2. Len(sent) \in Nat /\ Begin(n) \in Nat /\ read' \in Nat /\ HeaderAt \in Int
    BY <1>1, StreamTypes DEF TypeOK
  <1>3. HeaderAt' = Begin(n + 1) /\ curStat' = "HD_INIT"
    BY <1>2 DEF AwaitHeader, HeaderAt
  <1>4. /\ StreamInv' /\ StepInv' /\ HeaderAt < HeaderAt'
        /\ sent' = sent /\ NextPacket = n /\ NextPacket' = n + 1
        /\ BeforeBreaks(HeaderAt)'
    BY <1>3, PassesPacket
  <1>5. Open /\ Open'
    BY <1>4 DEF Open
  <1>6. Packets' = Packets
    BY <1>1, PacketsKept
  <1>7. OrderInv'
    <2>1. HeaderAt' \in Int
      BY <1>2, <1>3 DEF AwaitHeader, HeaderAt
    <2> QED BY <1>1, <1>2, <1>4, <2>1, MessageFrom DEF OrderInv
  <1>8. Abstract!Skip
    <2>1. n <= Len(sent)
      BY <1>2
    <2>2. Open' = Open
      BY <1>5 DEF Open
    <2> QED BY <1>4, <1>5, <1>6, <2>1, <2>2 DEF Abstract!Skip
  <1> QED BY <1>4, <1>7, <1>8 DEF Abstract!Next

(* One that has a body makes the server lose its step: the promise ends.   *)
LEMMA LoseSimulated ==
  ASSUME RInv, TypeOK', UNCHANGED <<clientVars, delivered, connected>>, connected, read' <= total,
         NEW n \in 1 .. Len(sent), HeaderAt = Begin(n), BeforeBreaks(HeaderAt),
         ~Acceptable(sent[n]), Begin(n + 1) # Begin(n) + HeaderLen,
         read' = HeaderAt + HeaderLen, AwaitHeader
  PROVE  StreamInv' /\ StepInv' /\ OrderInv' /\ Abstract!Next
  <1>1. TypeOK /\ StreamInv /\ OrderInv
    BY DEF RInv, IInv
  <1>2. /\ Len(sent) \in Nat /\ Begin(n) \in Nat /\ read' \in Nat /\ HeaderAt \in Int
        /\ HeaderLen \in Nat /\ HeaderLen >= 1 /\ n \in 1 .. Len(sent) + 1
    <2>1. Len(sent) \in Nat /\ HeaderLen \in Nat /\ HeaderLen >= 1 /\ HeaderAt \in Int
      BY <1>1, StreamTypes
    <2>2. n \in 1 .. Len(sent) + 1
      BY <2>1
    <2>3. Begin(n) \in Nat
      BY <1>1, <2>2, StreamTypes
    <2> QED BY <2>1, <2>2, <2>3 DEF TypeOK
  <1>3. HeaderAt' = Begin(n) + HeaderLen
    BY <1>2 DEF AwaitHeader, HeaderAt
  <1>4. /\ ~BeforeBreaks(HeaderAt')
        /\ n + 1 \in 1 .. Len(sent) + 1
        /\ IsNext(n + 1, HeaderAt')
    BY <1>1, <1>3, LeavesStep
  <1>5. ~BeforeBreaks(HeaderAt)' /\ IsNext(n + 1, HeaderAt)' /\ sent' = sent
    BY <1>4, StreamKept DEF clientVars
  <1>6. IsNext(n, HeaderAt)
    BY <1>1, <1>2, InStepNext
  <1>7. NextPacket = n /\ NextPacket' = n + 1
    BY <1>2, <1>4, <1>5, <1>6, NextIs, NextWillBe
  <1>8. StreamInv'
    BY <1>1, StreamInvKept
  <1>9. StepInv'
    BY <1>4, <1>5 DEF StepInv
  <1>10. OrderInv'
    BY <1>1, <1>2, <1>3, MessageFrom DEF OrderInv
  <1>11. Packets' = Packets
    BY <1>1, PacketsKept
  <1>12. Abstract!Close
    BY <1>5, <1>7, <1>11 DEF Abstract!Close, Open
  <1> QED BY <1>8, <1>9, <1>10, <1>12 DEF Abstract!Next

-----------------------------------------------------------------------------
(* A packet more does not change what has been delivered, nor where the    *)
(* server is: it goes to the end of the stream.                            *)
LEMMA ClientSimulated ==
  ASSUME RInv, NEW len \in Lengths, ClientSends(len)
  PROVE  StreamInv' /\ StepInv' /\ OrderInv' /\ Abstract!Next
  <1>1. /\ TypeOK /\ StreamInv /\ StepInv /\ OrderInv
        /\ sent \in Seq(Lengths) /\ starts \in Seq(Nat) /\ Len(starts) = Len(sent)
        /\ len \in Nat /\ read <= total /\ HeaderAt <= read
    BY FramingAssumption DEF RInv, IInv, TypeOK, StreamInv, ReadInv, HeaderAt
  <1>2. /\ Len(sent) \in Nat /\ DOMAIN sent = 1 .. Len(sent)
        /\ HeaderLen \in Nat /\ HeaderLen >= 1 /\ total \in Nat /\ HeaderAt \in Int /\ read \in Nat
        /\ \A i \in 1 .. Len(sent) : starts[i] \in Nat /\ starts[i] = Begin(i)
        /\ \A n \in 1 .. Len(sent) + 1 : Begin(n) \in Nat
    BY <1>1, StreamTypes
  <1>3. PICK size \in {HeaderLen, len} :
           size >= HeaderLen /\ (Acceptable(len) => size = len) /\ total' = total + size
    BY DEF ClientSends
  <1>4. /\ UNCHANGED <<read, recvVars, delivered, connected>> /\ HeaderAt' = HeaderAt
        /\ sent' = Append(sent, len) /\ starts' = Append(starts, total)
    BY DEF ClientSends, HeaderAt, recvVars
  <1>5. /\ Len(sent') = Len(sent) + 1 /\ Len(starts') = Len(sent) + 1
        /\ DOMAIN sent' = 1 .. Len(sent) + 1
        /\ \A i \in 1 .. Len(sent) : sent'[i] = sent[i] /\ starts'[i] = starts[i]
        /\ sent'[Len(sent) + 1] = len /\ starts'[Len(sent) + 1] = total
    BY <1>1, <1>2, <1>4
  <1>6. /\ \A n \in 1 .. Len(sent) + 1 : Begin(n)' = Begin(n)
        /\ \A n \in Nat : n = Len(sent) + 2 => Begin(n)' = total + size
        /\ Begin(Len(sent) + 1) = total
    <2>1. ASSUME NEW n \in 1 .. Len(sent) + 1
          PROVE  Begin(n)' = Begin(n)
      <3>1. n # Len(sent') + 1 /\ Begin(n)' = starts'[n]
        BY <1>2, <1>5 DEF Begin
      <3>2. CASE n = Len(sent) + 1
        BY <3>1, <3>2, <1>5 DEF Begin
      <3>3. CASE n # Len(sent) + 1
        <4>1. n \in 1 .. Len(sent)
          BY <3>3, <1>2
        <4> QED BY <3>1, <3>3, <4>1, <1>5 DEF Begin
      <3> QED BY <3>2, <3>3
    <2>2. \A n \in Nat : n = Len(sent) + 2 => Begin(n)' = total + size
      BY <1>2, <1>3, <1>5 DEF Begin
    <2> QED BY <2>1, <2>2 DEF Begin
  <1>7. StreamInv'
    <2>1. read' <= total'
      BY <1>1, <1>2, <1>3, <1>4
    <2>2. ASSUME NEW i \in 1 .. Len(sent) + 1, NEW j \in 1 .. Len(sent) + 2, i < j
          PROVE  Begin(i)' + HeaderLen <= Begin(j)'
      <3>1. CASE j \in 1 .. Len(sent) + 1
        <4>1. i \in 1 .. Len(sent)
          BY <2>2, <3>1, <1>2
        <4>2. Begin(i) + HeaderLen <= Begin(j)
          BY <2>2, <3>1, <4>1, <1>1 DEF StreamInv
        <4> QED BY <3>1, <4>2, <1>6
      <3>2. CASE j = Len(sent) + 2
        <4>1. Begin(i) <= total
          <5>1. CASE i = Len(sent) + 1
            BY <5>1, <1>2, <1>6
          <5>2. CASE i # Len(sent) + 1
            <6>1. i \in 1 .. Len(sent) /\ Len(sent) + 1 \in 1 .. Len(sent) + 1 /\ i < Len(sent) + 1
              BY <5>2, <1>2
            <6>2. Begin(i) + HeaderLen <= Begin(Len(sent) + 1)
              BY <6>1, <1>1 DEF StreamInv
            <6> QED BY <6>2, <1>2, <1>6
          <5> QED BY <5>1, <5>2
        <4>2. Begin(i)' = Begin(i) /\ Begin(i) \in Nat
          BY <1>2, <1>6
        <4>3. Begin(j)' = total + size /\ size \in Nat
          BY <3>2, <1>1, <1>2, <1>3, <1>6
        <4> QED BY <4>1, <4>2, <4>3, <1>2, <1>3
      <3> QED BY <3>1, <3>2, <1>2
    <2>3. ASSUME NEW i \in 1 .. Len(sent) + 1, Acceptable(sent'[i])
          PROVE  Begin(i + 1)' = Begin(i)' + sent'[i]
      <3>1. CASE i = Len(sent) + 1
        <4>1. sent'[i] = len /\ size = len /\ Begin(i)' = total
          BY <2>3, <3>1, <1>3, <1>5, <1>6, <1>2
        <4>2. i + 1 = Len(sent) + 2
          BY <3>1, <1>2
        <4>3. Begin(i + 1)' = total + size
          BY <4>2, <1>2, <1>6
        <4> QED BY <4>1, <4>3
      <3>2. CASE i # Len(sent) + 1
        <4>1. i \in 1 .. Len(sent) /\ i + 1 \in 1 .. Len(sent) + 1
          BY <3>2, <1>2
        <4>2. Begin(i + 1) = Begin(i) + sent[i]
          BY <2>3, <4>1, <1>1, <1>5 DEF StreamInv
        <4> QED BY <4>1, <4>2, <1>5, <1>6
      <3> QED BY <3>1, <3>2
    <2>4. Len(sent') + 1 = Len(sent) + 2
      BY <1>2, <1>5
    <2> QED BY <1>5, <2>1, <2>2, <2>3, <2>4 DEF StreamInv
  <1>8. ASSUME NEW x \in Int, x <= total
        PROVE  BeforeBreaks(x)' <=> BeforeBreaks(x)
    <2>1. \A i \in 1 .. Len(sent) : Size(i)' = Size(i)
      <3> TAKE i \in 1 .. Len(sent)
      <3>1. i # Len(sent') /\ starts'[i] = starts[i]
        BY <1>2, <1>5
      <3>2. CASE i = Len(sent)
        <4>1. starts'[i + 1] = total
          BY <3>2, <1>5
        <4> QED BY <3>1, <3>2, <4>1 DEF Size
      <3>3. CASE i # Len(sent)
        <4>1. i + 1 \in 1 .. Len(sent)
          <5>1. Len(sent) \in Nat
            BY <1>2
          <5> QED BY <5>1, <3>3
        <4>2. starts'[i + 1] = starts[i + 1]
          BY <4>1, <1>5
        <4> QED BY <3>1, <3>3, <4>2 DEF Size
      <3> QED BY <3>2, <3>3
    <2>2. /\ Breaks \subseteq Breaks'
          /\ Breaks' \subseteq Breaks \cup {total + HeaderLen}
      <3>1. ASSUME NEW i \in 1 .. Len(sent)
            PROVE  /\ i \in DOMAIN sent /\ i \in DOMAIN sent'
                   /\ starts'[i] = starts[i] /\ sent'[i] = sent[i] /\ Size(i)' = Size(i)
        BY <1>2, <1>5, <2>1
      <3>2. DOMAIN sent' = DOMAIN sent \cup {Len(sent) + 1} /\ starts'[Len(sent) + 1] = total
        BY <1>2, <1>5
      <3> HIDE DEF Size
      <3> QED BY <1>2, <3>1, <3>2 DEF Breaks
    <2>3. x < total + HeaderLen
      BY <1>2, <1>8
    <2> QED BY <2>2, <2>3 DEF BeforeBreaks
  <1>9. HeaderAt <= total
    BY <1>1, <1>2
  <1>10. BeforeBreaks(HeaderAt)' <=> BeforeBreaks(HeaderAt)
    BY <1>2, <1>4, <1>8, <1>9
  <1>11. PICK n \in 1 .. Len(sent) + 1 : IsNext(n, HeaderAt)
    BY <1>1 DEF StepInv
  <1>12. n \in 1 .. Len(sent') + 1 /\ IsNext(n, HeaderAt)'
    <2>1. ASSUME NEW i \in 1 .. Len(sent)
          PROVE  Passed(i, HeaderAt)' <=> Passed(i, HeaderAt)
      <3>1. starts'[i] = starts[i] /\ starts[i] \in Int
        BY <1>2, <1>5
      <3>2. starts[i] < HeaderAt => starts[i] <= total
        BY <1>2, <1>9, <3>1
      <3>3. starts[i] < HeaderAt => (BeforeBreaks(starts[i])' <=> BeforeBreaks(starts[i]))
        BY <3>1, <3>2, <1>8
      <3> QED BY <3>1, <3>3, <1>4 DEF Passed
    <2>2. \A k \in Nat : k = Len(sent) + 1 => ~Passed(k, HeaderAt)'
      BY <1>2, <1>4, <1>5, <1>9 DEF Passed
    <2>3. \A i \in 1 .. n - 1 : i \in 1 .. Len(sent)
      BY <1>2
    <2>4. \A i \in 1 .. n - 1 : Passed(i, HeaderAt)'
      BY <2>1, <2>3, <1>11 DEF IsNext
    <2>5. ~Passed(n, HeaderAt)'
      <3>1. CASE n = Len(sent) + 1
        BY <3>1, <2>2, <1>2
      <3>2. CASE n # Len(sent) + 1
        <4>1. n \in 1 .. Len(sent) /\ n <= Len(sent)
          BY <3>2, <1>2
        <4> QED BY <4>1, <2>1, <1>11 DEF IsNext
      <3> QED BY <3>1, <3>2
    <2> QED BY <1>2, <1>5, <2>4, <2>5 DEF IsNext
  <1>13. NextPacket = n /\ NextPacket' = n
    <2>1. Len(sent') \in Nat
      BY <1>2, <1>5
    <2> QED BY <1>2, <1>11, <1>12, <2>1, NextIs, NextWillBe
  <1>14. StepInv'
    <2>1. ASSUME NEW k \in 1 .. Len(sent) + 1, At(k)
          PROVE  k \in 1 .. Len(sent') + 1 /\ At(k)'
      <3>1. k \in 1 .. Len(sent') + 1 /\ Begin(k)' = Begin(k)
        BY <1>2, <1>5, <1>6
      <3>2. k <= Len(sent) => k <= Len(sent') /\ sent'[k] = sent[k]
        BY <1>2, <1>5
      <3> QED BY <2>1, <3>1, <3>2, <1>4 DEF At, recvVars
    <2> QED BY <1>1, <1>10, <1>12, <2>1 DEF StepInv
  <1>15. OrderInv'
    BY <1>1, <1>4 DEF OrderInv
  <1>16. Packets' = Packets
    <2>1. ASSUME NEW k \in DOMAIN delivered
          PROVE  /\ BeforeBreaks(delivered[k].from)' <=> BeforeBreaks(delivered[k].from)
                 /\ PacketOf(delivered[k])' = PacketOf(delivered[k])
      <3>1. delivered[k].from \in Nat /\ delivered[k].from < total
        BY <1>1, <1>2, <1>9, MessageFrom DEF OrderInv
      <3>2. BeforeBreaks(delivered[k].from)' <=> BeforeBreaks(delivered[k].from)
        BY <3>1, <1>2, <1>4, <1>8
      <3>3. \A p : p \in DOMAIN sent /\ IsPacket(delivered[k], p) <=>
                      p \in DOMAIN sent' /\ IsPacket(delivered[k], p)'
        <4> TAKE p
        <4>1. CASE p \in 1 .. Len(sent)
          <5>1. p \in DOMAIN sent /\ p \in DOMAIN sent'
            BY <4>1, <1>2, <1>5
          <5> QED BY <4>1, <5>1, <1>4, <1>5 DEF IsPacket
        <4>2. CASE p = Len(sent) + 1
          <5>1. p \notin DOMAIN sent /\ starts'[p] = total
            BY <4>2, <1>2, <1>5
          <5> QED BY <5>1, <3>1, <1>2, <1>4 DEF IsPacket
        <4>3. CASE p \notin 1 .. Len(sent) /\ p # Len(sent) + 1
          BY <4>3, <1>2, <1>5
        <4> QED BY <4>1, <4>2, <4>3
      <3>4. PacketOf(delivered[k])' = PacketOf(delivered[k])
        <4>1. CASE \E p \in DOMAIN sent : IsPacket(delivered[k], p)
          <5>1. PICK p \in DOMAIN sent : IsPacket(delivered[k], p)
            BY <4>1
          <5>2. \A q \in DOMAIN sent : IsPacket(delivered[k], q) => q = p
            BY <5>1, <1>1, OnePacket
          <5>3. p \in DOMAIN sent' /\ IsPacket(delivered[k], p)'
                /\ \A q \in DOMAIN sent' : IsPacket(delivered[k], q)' => q = p
            BY <5>1, <5>2, <3>3
          <5> QED BY <5>1, <5>2, <5>3 DEF PacketOf
        <4>2. CASE ~\E p \in DOMAIN sent : IsPacket(delivered[k], p)
          <5>1. ~\E p \in DOMAIN sent' : IsPacket(delivered[k], p)'
            BY <4>2, <3>3
          <5> QED BY <4>2, <5>1 DEF PacketOf
        <4> QED BY <4>1, <4>2
      <3> QED BY <3>2, <3>4
    <2>2. InStep' = InStep
      BY <2>1, <1>4 DEF InStep
    <2> QED BY <2>1, <2>2, <1>4 DEF Packets, InStep
  <1>17. Open' = Open
    BY <1>4, <1>10 DEF Open
  <1>18. Abstract!Send(len)
    BY <1>4, <1>13, <1>16, <1>17 DEF Abstract!Send
  <1> QED BY <1>7, <1>14, <1>15, <1>18 DEF Abstract!Next

-----------------------------------------------------------------------------
(* The actions of the server.                                              *)

LEMMA PauseSimulated == ASSUME RInv, TypeOK', Pause
                        PROVE  StreamInv' /\ StepInv' /\ OrderInv' /\ Stutter
  <1>1. /\ UNCHANGED <<clientVars, read, recvVars, delivered, connected>>
        /\ HeaderAt' = HeaderAt /\ read' <= total
    BY DEF Pause, recvVars, HeaderAt, RInv, StreamInv
  <1>2. /\ StreamInv' /\ OrderInv'
        /\ \E n \in (1 .. Len(sent) + 1)' : IsNext(n, HeaderAt)'
        /\ BeforeBreaks(HeaderAt)' <=> BeforeBreaks(HeaderAt)
        /\ UNCHANGED <<sent, NextPacket, Packets>>
    BY <1>1, SameSimulated
  <1>3. \A n : At(n) => At(n)'
    BY <1>1, StreamKept DEF At, recvVars, clientVars
  <1>4. StepInv'
    BY <1>2, <1>3 DEF RInv, StepInv
  <1>5. Open' = Open
    BY <1>1, <1>2 DEF Open
  <1> QED BY <1>2, <1>4, <1>5 DEF Stutter

LEMMA PartSimulated == ASSUME RInv, TypeOK', RecvPart
                       PROVE  StreamInv' /\ StepInv' /\ OrderInv' /\ Stutter
  <1>1. PICK got \in 1 .. irecvlen :
           Arrived(got) /\ read' = read + got /\ precvbuf' = precvbuf + got
    BY DEF RecvPart
  <1>2. /\ UNCHANGED <<clientVars, precvMemPointer, delivered, connected>>
        /\ curStat' \in {"BD_INIT", "BD_RECVING"} => curStat \in {"BD_INIT", "BD_RECVING"}
    BY DEF RecvPart, RInv, IInv, TypeOK
  <1>3. HeaderAt' = HeaderAt /\ read' <= total
    <2>1. read \in Nat /\ precvbuf \in Nat /\ irecvlen \in Nat
      BY DEF RInv, IInv, TypeOK
    <2> QED BY <1>1, <2>1 DEF HeaderAt, Arrived
  <1>4. /\ StreamInv' /\ OrderInv'
        /\ \E n \in (1 .. Len(sent) + 1)' : IsNext(n, HeaderAt)'
        /\ BeforeBreaks(HeaderAt)' <=> BeforeBreaks(HeaderAt)
        /\ UNCHANGED <<sent, NextPacket, Packets>>
    BY <1>2, <1>3, SameSimulated
  <1>5. \A n : At(n) => At(n)'
    BY <1>2, <1>3, StreamKept DEF At, clientVars
  <1>6. StepInv'
    BY <1>4, <1>5 DEF RInv, StepInv
  <1>7. Open' = Open
    BY <1>2, <1>4 DEF Open
  <1> QED BY <1>4, <1>6, <1>7 DEF Stutter

LEMMA CloseSimulated == ASSUME RInv, TypeOK', RecvCloses
                        PROVE  StreamInv' /\ StepInv' /\ OrderInv' /\ Simulated
  <1>1. /\ UNCHANGED <<clientVars, read, recvVars, delivered>> /\ connected' = FALSE
        /\ connected /\ HeaderAt' = HeaderAt /\ read' <= total
    BY DEF RecvCloses, recvVars, HeaderAt, RInv, StreamInv
  <1>2. /\ StreamInv' /\ OrderInv'
        /\ \E n \in (1 .. Len(sent) + 1)' : IsNext(n, HeaderAt)'
        /\ BeforeBreaks(HeaderAt)' <=> BeforeBreaks(HeaderAt)
        /\ UNCHANGED <<sent, NextPacket, Packets>>
    BY <1>1, SameSimulated
  <1>3. \A n : At(n) => At(n)'
    BY <1>1, StreamKept DEF At, recvVars, clientVars
  <1>4. StepInv'
    BY <1>2, <1>3 DEF RInv, StepInv
  <1>5. CASE BeforeBreaks(HeaderAt)
    <2>1. Open /\ Open' = FALSE
      BY <1>1, <1>5 DEF Open
    <2>2. Abstract!Close
      BY <1>2, <2>1 DEF Abstract!Close
    <2> QED BY <1>2, <1>4, <2>2 DEF Simulated, Abstract!Next
  <1>6. CASE ~BeforeBreaks(HeaderAt)
    <2>1. Open' = Open
      BY <1>1, <1>6 DEF Open
    <2> QED BY <1>2, <1>4, <2>1 DEF Simulated, Stutter
  <1> QED BY <1>5, <1>6

LEMMA HeaderSimulated == ASSUME RInv, TypeOK', RecvHeader
                         PROVE  StreamInv' /\ StepInv' /\ OrderInv' /\ Simulated
  <1>1. /\ connected /\ curStat \in {"HD_INIT", "HD_RECVING"}
        /\ Arrived(irecvlen) /\ read' = read + irecvlen /\ UNCHANGED clientVars
    BY DEF RecvHeader
  <1>2. PICK pkgLen \in Lengths :
          /\ \A i \in DOMAIN sent : starts[i] = read' - HeaderLen => pkgLen = sent[i]
          /\ \/ /\ ~Acceptable(pkgLen)
                /\ AwaitHeader
                /\ UNCHANGED <<delivered, floodVars, connected>>
             \/ /\ Acceptable(pkgLen) /\ HeaderOnly(pkgLen)
                /\ Complete(pkgLen, read')
             \/ /\ Acceptable(pkgLen) /\ ~HeaderOnly(pkgLen)
                /\ curStat' = "BD_INIT"
                /\ precvMemPointer' = pkgLen
                /\ precvbuf' = HeaderLen
                /\ irecvlen' = pkgLen - HeaderLen
                /\ UNCHANGED <<delivered, floodVars, connected>>
    BY DEF RecvHeader
  <1>3. /\ TypeOK /\ StreamInv /\ OrderInv /\ BufferExact
        /\ Len(sent) \in Nat /\ DOMAIN sent = 1 .. Len(sent)
        /\ HeaderLen \in Nat /\ HeaderLen >= 1 /\ total \in Nat /\ HeaderAt \in Int
        /\ irecvlen \in Nat /\ pkgLen \in Nat
        /\ \A i \in 1 .. Len(sent) : starts[i] = Begin(i)
    BY FramingAssumption, StreamTypes DEF RInv, IInv, TypeOK
  <1>4. read' = HeaderAt + HeaderLen /\ read' <= total
    <2>1. precvbuf + irecvlen = HeaderLen /\ read \in Nat /\ precvbuf \in Nat
      BY <1>1, <1>3 DEF BufferExact, TypeOK
    <2> QED BY <1>1, <1>3, <2>1 DEF HeaderAt, Arrived
  <1>5. CASE ~BeforeBreaks(HeaderAt)
    <2>1. CASE AwaitHeader /\ UNCHANGED <<delivered, connected>>
      <3>1. HeaderAt <= HeaderAt'
        BY <2>1, <1>3, <1>4 DEF AwaitHeader, HeaderAt
      <3> QED BY <3>1, <2>1, <1>1, <1>4, <1>5, OutSimulated DEF Simulated
    <2>2. CASE Acceptable(pkgLen) /\ HeaderOnly(pkgLen) /\ Complete(pkgLen, read')
      <3>1. HeaderAt' = HeaderAt + HeaderLen /\ read' - pkgLen = HeaderAt
        <4>1. precvbuf' = 0
          BY <2>2 DEF Complete, AwaitHeader
        <4> QED BY <4>1, <2>2, <1>3, <1>4 DEF HeaderAt, HeaderOnly
      <3>2. HeaderAt < HeaderAt' /\ HeaderAt <= HeaderAt'
        BY <3>1, <1>3
      <3>3. \/ delivered' = delivered
            \/ delivered' = Append(delivered, [from |-> HeaderAt, size |-> pkgLen])
        BY <2>2, <3>1 DEF Complete
      <3> QED BY <3>2, <3>3, <1>1, <1>4, <1>5, OutSimulated DEF Simulated
    <2>3. CASE precvbuf' = HeaderLen /\ UNCHANGED <<delivered, connected>>
      <3>1. HeaderAt <= HeaderAt'
        BY <2>3, <1>3, <1>4 DEF HeaderAt
      <3> QED BY <3>1, <2>3, <1>1, <1>4, <1>5, OutSimulated DEF Simulated
    <2> QED BY <1>2, <2>1, <2>2, <2>3
  <1>6. CASE BeforeBreaks(HeaderAt)
    <2>1. PICK n \in 1 .. Len(sent) + 1 : At(n)
      BY <1>6 DEF RInv, StepInv
    <2>2. HeaderAt = Begin(n)
      BY <2>1 DEF At
    <2>3. n \in 1 .. Len(sent)
      <3>1. n # Len(sent) + 1
        BY <1>3, <1>4, <2>2 DEF Begin
      <3> QED BY <3>1, <1>3
    <2>4. pkgLen = sent[n]
      <3>1. starts[n] = read' - HeaderLen /\ n \in DOMAIN sent
        BY <1>3, <1>4, <2>2, <2>3
      <3> QED BY <3>1, <1>2
    <2>5. CASE ~Acceptable(pkgLen) /\ AwaitHeader /\ UNCHANGED <<delivered, connected>>
      <3>1. CASE Begin(n + 1) = Begin(n) + HeaderLen
        BY <3>1, <2>2, <2>3, <2>4, <2>5, <1>1, <1>4, <1>6, SkipSimulated DEF Simulated
      <3>2. CASE Begin(n + 1) # Begin(n) + HeaderLen
        BY <3>2, <2>2, <2>3, <2>4, <2>5, <1>1, <1>4, <1>6, LoseSimulated DEF Simulated
      <3> QED BY <3>1, <3>2
    <2>6. CASE Acceptable(pkgLen) /\ HeaderOnly(pkgLen) /\ Complete(pkgLen, read')
      <3>1. read' = HeaderAt + sent[n]
        BY <2>4, <2>6, <1>4 DEF HeaderOnly
      <3> QED BY <3>1, <2>2, <2>3, <2>4, <2>6, <1>1, <1>4, <1>6, CompleteSimulated DEF Simulated
    <2>7. CASE /\ Acceptable(pkgLen) /\ curStat' = "BD_INIT" /\ precvMemPointer' = pkgLen
               /\ precvbuf' = HeaderLen /\ UNCHANGED <<delivered, connected>>
      <3>1. HeaderAt' = HeaderAt
        BY <2>7, <1>3, <1>4 DEF HeaderAt
      <3>2. /\ StreamInv' /\ OrderInv'
            /\ \E k \in (1 .. Len(sent) + 1)' : IsNext(k, HeaderAt)'
            /\ BeforeBreaks(HeaderAt)' <=> BeforeBreaks(HeaderAt)
            /\ UNCHANGED <<sent, NextPacket, Packets>>
        BY <3>1, <2>7, <1>1, <1>4, SameSimulated
      <3>3. At(n)'
        <4>1. Begin(n)' = Begin(n) /\ sent' = sent /\ n <= Len(sent)
          BY <1>1, <1>3, <2>3, StreamKept DEF clientVars
        <4> QED BY <4>1, <3>1, <2>2, <2>4, <2>7 DEF At
      <3>4. StepInv'
        BY <3>2, <3>3, <1>3, <2>3 DEF StepInv
      <3>5. Open' = Open
        BY <3>2, <2>7 DEF Open
      <3> QED BY <3>2, <3>4, <3>5 DEF Simulated, Stutter
    <2> QED BY <1>2, <2>5, <2>6, <2>7
  <1> QED BY <1>5, <1>6

LEMMA BodySimulated == ASSUME RInv, TypeOK', RecvBody
                       PROVE  StreamInv' /\ StepInv' /\ OrderInv' /\ Simulated
  <1>1. /\ connected /\ curStat \in {"BD_INIT", "BD_RECVING"}
        /\ Arrived(irecvlen) /\ read' = read + irecvlen /\ UNCHANGED clientVars
        /\ Complete(precvMemPointer, read')
    BY DEF RecvBody
  <1>2. /\ TypeOK /\ StreamInv /\ OrderInv /\ BufferExact
        /\ Len(sent) \in Nat /\ HeaderLen \in Nat /\ HeaderLen >= 1
        /\ total \in Nat /\ HeaderAt \in Int
        /\ irecvlen \in Nat /\ precvMemPointer \in Nat /\ read \in Nat /\ precvbuf \in Nat
    BY StreamTypes DEF RInv, IInv, TypeOK
  <1>3. /\ read' = HeaderAt + precvMemPointer /\ read' <= total /\ precvMemPointer >= 1
    <2>1. precvbuf + irecvlen = precvMemPointer /\ precvbuf >= HeaderLen
      BY <1>1, <1>2 DEF BufferExact
    <2> QED BY <1>1, <1>2, <2>1 DEF HeaderAt, Arrived
  <1>4. CASE ~BeforeBreaks(HeaderAt)
    <2>1. HeaderAt' = HeaderAt + precvMemPointer /\ read' - precvMemPointer = HeaderAt
      <3>1. precvbuf' = 0
        BY <1>1 DEF Complete, AwaitHeader
      <3> QED BY <3>1, <1>2, <1>3 DEF HeaderAt
    <2>2. HeaderAt < HeaderAt' /\ HeaderAt <= HeaderAt'
      BY <2>1, <1>2, <1>3
    <2>3. \/ delivered' = delivered
          \/ delivered' = Append(delivered, [from |-> HeaderAt, size |-> precvMemPointer])
      BY <1>1, <2>1 DEF Complete
    <2> QED BY <2>2, <2>3, <1>1, <1>3, <1>4, OutSimulated DEF Simulated
  <1>5. CASE BeforeBreaks(HeaderAt)
    <2>1. PICK n \in 1 .. Len(sent) + 1 : At(n)
      BY <1>5 DEF RInv, StepInv
    <2>2. /\ HeaderAt = Begin(n) /\ n <= Len(sent)
          /\ Acceptable(sent[n]) /\ precvMemPointer = sent[n]
      BY <2>1, <1>1 DEF At
    <2>3. n \in 1 .. Len(sent)
      BY <2>2, <1>2
    <2> QED BY <2>2, <2>3, <1>1, <1>3, <1>5, CompleteSimulated DEF Simulated
  <1> QED BY <1>4, <1>5

-----------------------------------------------------------------------------

LEMMA InitSimulated == ASSUME Init PROVE RInv /\ Abstract!Init
  <1>1. sent = <<>> /\ starts = <<>> /\ total = 0 /\ read = 0 /\ precvbuf = 0 /\ delivered = <<>>
    BY DEF Init
  <1>2. Len(sent) = 0 /\ Len(starts) = 0 /\ DOMAIN sent = {} /\ DOMAIN delivered = {}
    BY <1>1
  <1>3. HeaderAt = 0 /\ Begin(1) = 0
    BY <1>1, <1>2 DEF HeaderAt, Begin
  <1>4. StreamInv /\ OrderInv
    BY <1>1, <1>2 DEF StreamInv, OrderInv
  <1>5. BeforeBreaks(HeaderAt)
    BY <1>2 DEF BeforeBreaks, Breaks
  <1>6. IsNext(1, HeaderAt) /\ 1 \in 1 .. Len(sent) + 1
    BY <1>2 DEF IsNext
  <1>7. At(1)
    BY <1>3 DEF At, Init
  <1>8. StepInv
    BY <1>6, <1>7 DEF StepInv
  <1>9. NextPacket = 1
    BY <1>2, <1>6, NextIs
  <1>10. Packets = <<>>
    <2>1. InStep = {}
      BY <1>2 DEF InStep
    <2> QED BY <2>1 DEF Packets
  <1>11. Open = TRUE
    BY <1>5 DEF Open, Init
  <1>12. RInv
    BY <1>4, <1>8, InitEstablishes DEF RInv
  <1> QED BY <1>1, <1>9, <1>10, <1>11, <1>12 DEF Abstract!Init

LEMMA NextSimulated == ASSUME RInv, [Next]_vars PROVE RInv' /\ Simulated
  <1>1. IInv' /\ TypeOK'
    BY NextPreserves DEF RInv, IInv
  <1>2. SUFFICES StreamInv' /\ StepInv' /\ OrderInv' /\ Simulated
    BY <1>1 DEF RInv
  <1>3. CASE UNCHANGED vars
    <2>1. /\ UNCHANGED <<clientVars, read, recvVars, delivered, connected>>
          /\ HeaderAt' = HeaderAt /\ read' <= total
      BY <1>3 DEF vars, recvVars, HeaderAt, RInv, StreamInv
    <2>2. /\ StreamInv' /\ OrderInv'
          /\ \E n \in (1 .. Len(sent) + 1)' : IsNext(n, HeaderAt)'
          /\ BeforeBreaks(HeaderAt)' <=> BeforeBreaks(HeaderAt)
          /\ UNCHANGED <<sent, NextPacket, Packets>>
      BY <1>1, <2>1, SameSimulated
    <2>3. \A n : At(n) => At(n)'
      BY <2>1, StreamKept DEF At, recvVars, clientVars
    <2>4. StepInv'
      BY <2>2, <2>3 DEF RInv, StepInv
    <2>5. Open' = Open
      BY <2>1, <2>2 DEF Open
    <2> QED BY <2>2, <2>4, <2>5 DEF Simulated, Stutter
  <1>4. ASSUME NEW len \in Lengths, ClientSends(len)
        PROVE  StreamInv' /\ StepInv' /\ OrderInv' /\ Simulated
    BY <1>4, ClientSimulated DEF Simulated
  <1>5. CASE Pause
    BY <1>1, <1>5, PauseSimulated DEF Simulated
  <1>6. CASE RecvPart
    BY <1>1, <1>6, PartSimulated DEF Simulated
  <1>7. CASE RecvHeader
    BY <1>1, <1>7, HeaderSimulated
  <1>8. CASE RecvBody
    BY <1>1, <1>8, BodySimulated
  <1>9. CASE RecvCloses
    BY <1>1, <1>9, CloseSimulated
  <1> QED BY <1>3, <1>4, <1>5, <1>6, <1>7, <1>8, <1>9 DEF Next, Quiet

(* However recv cuts the bytes of a connection up, the messages handed to  *)
(* the pool are the packets of the client, each whole, once, and in the    *)
(* order sent, until an unacceptable header with a body: for any lengths   *)
(* of headers and packets, and any number of packets.                      *)
THEOREM FramingImplements == Spec => ImplementsPacketStream
  <1>1. Init => RInv /\ Abstract!Init
    BY InitSimulated
  <1>2. RInv /\ [Next]_vars => RInv' /\ [Abstract!Next]_<<sent, NextPacket, Packets, Open>>
    BY NextSimulated DEF Simulated, Stutter
  <1> QED BY <1>1, <1>2, PTL DEF Spec, ImplementsPacketStream, Abstract!Spec
=============================================================================
