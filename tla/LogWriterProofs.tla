--------------------------- MODULE LogWriterProofs --------------------------
(***************************************************************************)
(* Proofs about LogWriter: what is read from the file, and what is written *)
(* to the log, for files, calls and buffers of any size.                   *)
(***************************************************************************)
EXTENDS LogWriter, PrintfProofs, FiniteSetTheorems

Fits(item) == Len(TextOf(item)) < Unlimited

(* What is in the buffer, what is still to come, and what was last put in. *)
TextInv ==
    /\ text \in Seq(Char) /\ whole \in Seq(Char)
    /\ Len(whole) <= Unlimited
    /\ text = Cut(whole, MaxErrorStr)
FmtInv == fmt \in Seq(Piece) /\ \A i \in 1 .. Len(fmt) : Fits(fmt[i])
CallInv ==
    /\ pc \in {"load", "ready", "format"} /\ fd \in BOOLEAN
    /\ pc = "load" => call = NoCall

LogInv == TextInv /\ FmtInv /\ CallInv /\ PiecesRead

LEMMA Constants ==
  /\ MaxErrorStr \in Nat /\ MaxErrorStr >= 2 /\ Unlimited \in Nat /\ Unlimited >= MaxErrorStr
  /\ HeaderLen \in Nat /\ HeaderLen <= MaxErrorStr /\ PrefixLen \in Nat
       /\ PrefixLen <= MaxErrorStr
  /\ ErrnoLen \in Nat
  /\ "h" \in Char /\ "q" \in Char /\ "e" \in Char /\ "nl" \notin Char
  <1>1. /\ MaxErrorStr \in Nat /\ HeaderLen \in Nat /\ PrefixLen \in Nat /\ ErrnoLen \in Nat
        /\ Unlimited \in Nat /\ Unlimited >= MaxErrorStr
        /\ MaxErrorStr >= HeaderLen + 2 /\ MaxErrorStr >= PrefixLen + 2
    BY LogAssumption
  <1>2. "h" \in Char /\ "q" \in Char /\ "e" \in Char
    BY LogAssumption
  <1>3. "nl" \notin Char
    BY CharAssumption
  <1>4. MaxErrorStr >= 2 /\ HeaderLen <= MaxErrorStr /\ PrefixLen <= MaxErrorStr
    BY <1>1
  <1> QED BY <1>1, <1>2, <1>3, <1>4

LEMMA RepeatText ==
  ASSUME NEW c \in Char, NEW k \in Nat, k <= MaxErrorStr
  PROVE  /\ Repeat(c, k) \in Seq(Char) /\ Len(Repeat(c, k)) <= Unlimited
         /\ Repeat(c, k) = Cut(Repeat(c, k), MaxErrorStr)
  <1>1. Repeat(c, k) \in Seq(Char) /\ Len(Repeat(c, k)) = k
    BY RepeatProperties
  <1>2. Repeat(c, k) = Cut(Repeat(c, k), MaxErrorStr)
    BY <1>1, Constants, CutProperties
  <1> QED BY <1>1, <1>2, Constants

(* Of a piece that fits, the buffer without limit holds all.               *)
LEMMA TextIsWhole ==
  ASSUME NEW item \in Piece, Fits(item)
  PROVE  TextOf(item) = Whole(item)
  <1>1. Whole(item) \in Seq(Char) /\ <<>> \in Seq(Char) /\ Len(<<>>) = 0
    BY WholeProperties, Chars
  <1>2. TextOf(item) = Cut(<<>> \o Whole(item), Unlimited)
    <2>1. Len(<<>>) < Unlimited
      BY <1>1, Constants
    <2> QED BY <1>1, <2>1, Constants, WholeProperties DEF TextOf
  <1>3. <<>> \o Whole(item) = Whole(item)
    BY <1>1, ConcatEmptySeq
  <1> DEFINE w == Whole(item)
  <1>4. w \in Seq(Char) /\ TextOf(item) = Cut(w, Unlimited)
          /\ Len(Cut(w, Unlimited)) < Unlimited
    BY <1>1, <1>2, <1>3 DEF Fits
  <1> HIDE DEF w
  <1>5. /\ Len(Cut(w, Unlimited)) = IF Len(w) <= Unlimited THEN Len(w) ELSE Unlimited
        /\ Len(w) <= Unlimited => Cut(w, Unlimited) = w
    BY <1>4, Constants, CutProperties
  <1>6. Len(w) <= Unlimited
    BY <1>4, <1>5, Constants
  <1> QED BY <1>4, <1>5, <1>6 DEF w

LEMMA LiteralFits ==
  ASSUME NEW c \in Char
  PROVE  [conv |-> "lit", arg |-> c] \in Piece /\ Fits([conv |-> "lit", arg |-> c])
  <1> DEFINE item == [conv |-> "lit", arg |-> c]
  <1>1. item \in Piece /\ item.conv = "lit" /\ item.arg = c
    BY DEF Piece
  <1> HIDE DEF item
  <1>2. TextOf(item) = Append(<<>>, c)
    BY <1>1 DEF TextOf, Convert
  <1>3. Len(Append(<<>>, c)) = 1
    OBVIOUS
  <1>4. Len(TextOf(item)) < Unlimited
    <2>1. 1 < Unlimited
      BY Constants
    <2> QED BY <2>1, <1>2, <1>3
  <1> QED BY <1>1, <1>4 DEF Fits, item

-----------------------------------------------------------------------------
(* A line.                                                                 *)

LEMMA SuffixText == Suffix \in Seq(Char) /\ Len(Suffix) = ErrnoLen
  BY Constants, RepeatProperties DEF Suffix

LEMMA EndLineProperties ==
  ASSUME NEW t \in Seq(Char)
  PROVE  LET kept == IF Len(t) >= MaxErrorStr - 1 THEN Cut(t, MaxErrorStr - 2) ELSE t
             l == EndLine(t)
         IN /\ kept \in Seq(Char) /\ Len(kept) \in Nat /\ Len(kept) <= MaxErrorStr - 2
            /\ Len(t) >= MaxErrorStr - 1 => Len(kept) = MaxErrorStr - 2
            /\ Len(l) = Len(kept) + 1 /\ l[Len(l)] = "nl"
            /\ SubSeq(l, 1, Len(l) - 1) = kept
            /\ \A i \in 1 .. Len(kept) : l[i] = kept[i] /\ l[i] \in Char
  <1> DEFINE kept == IF Len(t) >= MaxErrorStr - 1 THEN Cut(t, MaxErrorStr - 2) ELSE t
             l == kept \o Newline
             C == Char \cup {"nl"}
  <1>0. MaxErrorStr - 2 \in Nat /\ Len(t) \in Nat /\ MaxErrorStr \in Nat
    BY Constants, LenProperties
  <1>1. /\ kept \in Seq(Char) /\ Len(kept) \in Nat /\ Len(kept) <= MaxErrorStr - 2
        /\ Len(t) >= MaxErrorStr - 1 => Len(kept) = MaxErrorStr - 2
    <2>1. CASE Len(t) >= MaxErrorStr - 1
      <3>1. kept = Cut(t, MaxErrorStr - 2)
        BY <2>1
      <3> DEFINE r == MaxErrorStr - 2
      <3>2. r \in Nat /\ ~(Len(t) <= r)
        BY <2>1, <1>0
      <3> HIDE DEF r
      <3>3. Cut(t, r) \in Seq(Char) /\ Len(Cut(t, r)) = r
        BY <3>2, CutProperties
      <3> QED BY <3>1, <3>2, <3>3 DEF r
    <2>2. CASE ~(Len(t) >= MaxErrorStr - 1)
      BY <2>2, <1>0
    <2> QED BY <2>1, <2>2
  <1>2. EndLine(t) = l
    <2>1. Len(t) >= MaxErrorStr - 1 => Cut(t, MaxErrorStr - 2) = SubSeq(t, 1, MaxErrorStr - 2)
      <3> HAVE Len(t) >= MaxErrorStr - 1
      <3>1. Lower(Len(t), MaxErrorStr - 2) = MaxErrorStr - 2
        BY <1>0 DEF Lower
      <3> QED BY <3>1 DEF Cut
    <2> QED BY <2>1 DEF EndLine
  <1> HIDE DEF kept
  <1>3. Newline \in Seq(C) /\ Len(Newline) = 1 /\ Newline[1] = "nl" /\ kept \in Seq(C)
    <2>1. Newline \in Seq(C) /\ Len(Newline) = 1 /\ Newline[1] = "nl"
      BY DEF Newline
    <2>2. Char \subseteq C
      OBVIOUS
    <2> HIDE DEF C
    <2> QED BY <2>1, <2>2, <1>1, SeqMonotonic
  <1> HIDE DEF C
  <1>4. /\ l \in Seq(C) /\ Len(l) = Len(kept) + 1
        /\ \A i \in 1 .. Len(kept) + 1 : l[i] = IF i <= Len(kept) THEN kept[i]
             ELSE Newline[i - Len(kept)]
    <2>1. /\ l \in Seq(C) /\ Len(l) = Len(kept) + Len(Newline)
          /\ \A i \in 1 .. Len(kept) + Len(Newline) :
                l[i] = IF i <= Len(kept) THEN kept[i] ELSE Newline[i - Len(kept)]
      BY <1>3, ConcatProperties
    <2> QED BY <2>1, <1>3
  <1> HIDE DEF l
  <1>5. l[Len(l)] = "nl"
    <2>1. Len(l) \in 1 .. Len(kept) + 1 /\ ~(Len(l) <= Len(kept)) /\ Len(l) - Len(kept) = 1
      BY <1>1, <1>4
    <2> QED BY <2>1, <1>3, <1>4
  <1>6. \A i \in 1 .. Len(kept) : l[i] = kept[i] /\ l[i] \in Char
    <2> TAKE i \in 1 .. Len(kept)
    <2>1. i \in 1 .. Len(kept) + 1 /\ i <= Len(kept)
      BY <1>1
    <2>2. l[i] = kept[i]
      BY <2>1, <1>4
    <2> QED BY <2>2, <1>1, ElementOfSeq
  <1>7. SubSeq(l, 1, Len(l) - 1) = kept
    <2> DEFINE s == SubSeq(l, 1, Len(kept))
    <2>1. /\ s \in Seq(Char) /\ Len(s) = IF 1 <= Len(kept) THEN Len(kept) - 1 + 1 ELSE 0
          /\ \A i \in 1 .. Len(kept) - 1 + 1 : s[i] = l[1 + i - 1]
      BY <1>1, <1>6, SubSeqProperties
    <2> HIDE DEF s
    <2>2. Len(s) = Len(kept) /\ \A i \in 1 .. Len(s) : s[i] = kept[i]
      <3>1. Len(kept) - 1 + 1 = Len(kept) /\ \A i \in 1 .. Len(kept) : 1 + i - 1 = i
        BY <1>1
      <3> QED BY <3>1, <2>1, <1>1, <1>6
    <2>3. s = kept
      BY <2>1, <2>2, <1>1, SeqEqual
    <2>4. Len(l) - 1 = Len(kept)
      BY <1>1, <1>4
    <2> QED BY <2>3, <2>4 DEF s
  <1> QED BY <1>1, <1>2, <1>4, <1>5, <1>6, <1>7 DEF kept

LEMMA LineIsOne ==
  ASSUME TextInv
  PROVE  /\ OneLine(Line)
         /\ Len(Line) - 1 \in Nat /\ \A i \in 1 .. Len(Line) - 1 : Line[i] \in Char
         /\ Line # <<>>
  <1> DEFINE t == IF call.err THEN WithErrno(text) ELSE text
             kept == IF Len(t) >= MaxErrorStr - 1 THEN Cut(t, MaxErrorStr - 2) ELSE t
  <1>1. /\ text \in Seq(Char) /\ whole \in Seq(Char) /\ Len(text) \in Nat
             /\ Len(whole) \in Nat
        /\ text = Cut(whole, MaxErrorStr) /\ Suffix \in Seq(Char) /\ Len(Suffix) = ErrnoLen
        /\ ErrnoLen \in Nat /\ MaxErrorStr \in Nat /\ MaxErrorStr >= 2
             /\ MaxErrorStr - 2 \in Nat
    BY Constants, SuffixText, LenProperties DEF TextInv
  <1>2. /\ Len(text) = IF Len(whole) <= MaxErrorStr THEN Len(whole) ELSE MaxErrorStr
        /\ Len(whole) <= MaxErrorStr => text = whole
    BY <1>1, CutProperties
  <1>3. \/ t = text
        \/ Len(text) + ErrnoLen < MaxErrorStr /\ t = text \o Suffix
    BY DEF WithErrno
  <1>4. text \o Suffix \in Seq(Char) /\ Len(text \o Suffix) = Len(text) + ErrnoLen
    BY <1>1, ConcatProperties
  <1> HIDE DEF t
  <1>5. t \in Seq(Char) /\ Len(t) \in Nat /\ Len(t) <= MaxErrorStr
    <2>1. Len(text) <= MaxErrorStr
      BY <1>1, <1>2
    <2>2. CASE t = text
      BY <2>1, <2>2, <1>1
    <2>3. CASE Len(text) + ErrnoLen < MaxErrorStr /\ t = text \o Suffix
      <3>1. t \in Seq(Char) /\ Len(t) = Len(text) + ErrnoLen
        BY <2>3, <1>4
      <3> QED BY <3>1, <2>3, <1>1
    <2> QED BY <2>2, <2>3, <1>3
  <1>6. /\ kept \in Seq(Char) /\ Len(kept) \in Nat /\ Len(kept) <= MaxErrorStr - 2
        /\ Len(t) >= MaxErrorStr - 1 => Len(kept) = MaxErrorStr - 2
        /\ Len(EndLine(t)) = Len(kept) + 1 /\ EndLine(t)[Len(EndLine(t))] = "nl"
        /\ SubSeq(EndLine(t), 1, Len(EndLine(t)) - 1) = kept
        /\ \A i \in 1 .. Len(kept) : EndLine(t)[i] = kept[i] /\ EndLine(t)[i] \in Char
    BY <1>5, EndLineProperties
  <1>7. \/ kept = whole \/ kept = whole \o Suffix
        \/ Len(kept) = MaxErrorStr - 2 /\ kept = Cut(whole, MaxErrorStr - 2)
        \/ Len(kept) = MaxErrorStr - 2
             /\ kept = SubSeq(whole \o Suffix, 1, Len(whole) + ErrnoLen - 1)
    <2>1. CASE ~(Len(t) >= MaxErrorStr - 1)
      <3>1. kept = t
        BY <2>1
      <3>2. Len(text) < MaxErrorStr
        BY <2>1, <1>1, <1>3, <1>4, <1>5
      <3>3. text = whole
        BY <3>2, <1>1, <1>2
      <3> HIDE DEF kept
      <3> QED BY <3>1, <3>3, <1>3
    <2>2. CASE Len(t) >= MaxErrorStr - 1 /\ t = text
      <3>1. kept = Cut(text, MaxErrorStr - 2) /\ Len(kept) = MaxErrorStr - 2
        BY <2>2, <1>6
      <3> DEFINE r == MaxErrorStr - 2
      <3>2. r \in Nat /\ r <= MaxErrorStr
        BY <1>1
      <3> HIDE DEF r, kept
      <3>3. Cut(Cut(whole, MaxErrorStr), r) = Cut(whole, r)
        BY <3>2, <1>1, CutCut
      <3>4. kept = Cut(whole, r)
        BY <3>1, <3>3, <1>1 DEF r
      <3> QED BY <3>1, <3>4 DEF r
    <2>3. CASE Len(t) >= MaxErrorStr - 1 /\ Len(text) + ErrnoLen < MaxErrorStr
                 /\ t = text \o Suffix
      <3>1. text = whole
        BY <2>3, <1>1, <1>2
      <3>2. Len(t) = MaxErrorStr - 1 /\ Len(whole) + ErrnoLen - 1 = MaxErrorStr - 2
        <4>1. Len(t) = Len(text) + ErrnoLen /\ Len(text) = Len(whole)
          BY <2>3, <3>1, <1>4
        <4> QED BY <4>1, <2>3, <1>1, <1>5
      <3>3. kept = Cut(t, MaxErrorStr - 2) /\ Len(kept) = MaxErrorStr - 2
        BY <2>3, <1>6
      <3>4. Cut(t, MaxErrorStr - 2) = SubSeq(t, 1, MaxErrorStr - 2)
        <4>1. Lower(Len(t), MaxErrorStr - 2) = MaxErrorStr - 2
          BY <3>2, <1>1 DEF Lower
        <4> QED BY <4>1 DEF Cut
      <3> HIDE DEF kept
      <3> QED BY <2>3, <3>1, <3>2, <3>3, <3>4
    <2> QED BY <2>1, <2>2, <2>3, <1>3
  <1>8. Line = EndLine(t)
    BY DEF Line, t
  <1> DEFINE l == EndLine(t)
  <1>9. /\ Len(l) = Len(kept) + 1 /\ l[Len(l)] = "nl" /\ SubSeq(l, 1, Len(l) - 1) = kept
        /\ \A i \in 1 .. Len(kept) : l[i] = kept[i] /\ l[i] \in Char
    BY <1>6
  <1> HIDE DEF l, kept
  <1>10. Len(l) \in 1 .. (MaxErrorStr - 1) /\ Len(l) - 1 = Len(kept)
    BY <1>1, <1>6, <1>9
  <1>11. \A i \in 1 .. Len(kept) : kept[i] # "nl"
    BY <1>9, Constants
  <1>12. OneLine(l)
    BY <1>7, <1>9, <1>10, <1>11 DEF OneLine
  <1>13. l # <<>>
    BY <1>10
  <1> QED BY <1>6, <1>8, <1>9, <1>10, <1>12, <1>13 DEF l

-----------------------------------------------------------------------------
(* The buffer holds what a buffer without limit would hold, as far as      *)
(* there is room.                                                          *)

LEMMA LogInit0 ==
  ASSUME Init
  PROVE  LogInv
  <1>1. <<>> \in Seq(Char) /\ Len(<<>>) = 0 /\ <<>> = Cut(<<>>, MaxErrorStr)
    <2>1. <<>> \in Seq(Char) /\ Len(<<>>) = 0
      BY Chars
    <2> DEFINE e == <<>>
    <2>2. e \in Seq(Char) /\ Len(e) <= MaxErrorStr
      BY <2>1, Constants
    <2> HIDE DEF e
    <2>3. e = Cut(e, MaxErrorStr)
      BY <2>2, Constants, CutProperties
    <2> QED BY <2>1, <2>3 DEF e
  <1>2. text = <<>> /\ whole = <<>> /\ fmt = <<>> /\ pc = "load" /\ fd = FALSE
          /\ call = NoCall /\ piece = NoPiece
    BY DEF Init
  <1>3. TextInv
    BY <1>1, <1>2, Constants DEF TextInv
  <1>4. FmtInv
    BY <1>2 DEF FmtInv
  <1>5. CallInv
    BY <1>2 DEF CallInv
  <1>6. PiecesRead
    BY <1>2 DEF PiecesRead, NoPiece
  <1> QED BY <1>3, <1>4, <1>5, <1>6 DEF LogInv

LEMMA FormatKeeps ==
  ASSUME LogInv, Format
  PROVE  LogInv'
  <1> DEFINE item == Head(fmt)
             w == Whole(item)
  <1>1. /\ pc = "format" /\ fmt # <<>> /\ Len(text) < MaxErrorStr
        /\ text' = Convert(text, MaxErrorStr, item)
             /\ whole' = Convert(whole, Unlimited, item)
        /\ piece' = [item |-> item, text |-> TextOf(item)]
        /\ fmt' = Tail(fmt) /\ pc' = pc /\ call' = call /\ fd' = fd
    BY DEF Format, confVars
  <1>2. item \in Piece /\ Fits(item) /\ FmtInv'
    <2>1. fmt \in Seq(Piece) /\ \A i \in 1 .. Len(fmt) : Fits(fmt[i])
      BY DEF LogInv, FmtInv
    <2>2. /\ item \in Piece /\ Tail(fmt) \in Seq(Piece) /\ Len(Tail(fmt)) = Len(fmt) - 1
          /\ \A i \in 1 .. Len(Tail(fmt)) : Tail(fmt)[i] = fmt[i + 1]
      BY <2>1, <1>1, HeadTailProperties
    <2>3. Len(fmt) \in Nat \ {0} /\ item = fmt[1]
      BY <2>1, <1>1, EmptySeq
    <2>4. \A i \in 1 .. Len(Tail(fmt)) : i + 1 \in 1 .. Len(fmt)
      BY <2>2, <2>3
    <2>5. Fits(item)
      BY <2>1, <2>3
    <2>6. \A i \in 1 .. Len(Tail(fmt)) : Fits(Tail(fmt)[i])
      BY <2>1, <2>2, <2>4
    <2>7. FmtInv'
      <3>1. fmt' \in Seq(Piece) /\ \A i \in 1 .. Len(fmt') : Fits(fmt'[i])
        BY <2>2, <2>6, <1>1
      <3> QED BY <3>1 DEF FmtInv, Fits, TextOf
    <2> QED BY <2>2, <2>5, <2>7
  <1> HIDE DEF item
  <1>3. w \in Seq(Char)
    BY <1>2, WholeProperties
  <1>4. text \in Seq(Char) /\ whole \in Seq(Char) /\ text = Cut(whole, MaxErrorStr)
          /\ Len(text) \in Nat
    BY LenProperties DEF LogInv, TextInv
  <1>5. text = whole
    BY <1>1, <1>4, Constants, LenProperties, CutProperties
  <1>6. /\ text' = Cut(text \o w, MaxErrorStr)
        /\ whole' = Cut(text \o w, Unlimited)
    <2>1. Len(text) < Unlimited
      BY <1>1, <1>4, Constants
    <2> QED BY <2>1, <1>1, <1>2, <1>4, <1>5, Constants, WholeProperties
  <1> HIDE DEF w
  <1>7. TextInv'
    <2> DEFINE tw == text \o w
    <2>1. tw \in Seq(Char)
      BY <1>3, <1>4, ConcatProperties
    <2>2. text' = Cut(tw, MaxErrorStr) /\ whole' = Cut(tw, Unlimited)
      BY <1>6
    <2> HIDE DEF tw
    <2>3. text' \in Seq(Char) /\ whole' \in Seq(Char) /\ Len(whole') <= Unlimited
      BY <2>1, <2>2, Constants, CutProperties
    <2>4. Cut(Cut(tw, Unlimited), MaxErrorStr) = Cut(tw, MaxErrorStr)
      BY <2>1, Constants, CutCut
    <2> QED BY <2>2, <2>3, <2>4 DEF TextInv
  <1>8. CallInv'
    BY <1>1 DEF LogInv, CallInv
  <1>9. PiecesRead'
    <2>1. TextOf(item) = w
      BY <1>2, TextIsWhole DEF w
    <2>2. /\ item.conv \in {"d", "u"} => ReadsAs(w, item)
          /\ item.conv = "f" => ReadsAsFloat(w, item)
          /\ item.conv = "s" => w = item.arg
      BY <1>2, PieceReads DEF w
    <2>3. piece'.item = item /\ piece'.text = w
      BY <2>1, <1>1
    <2> QED BY <2>2, <2>3 DEF PiecesRead
  <1> QED BY <1>2, <1>7, <1>8, <1>9 DEF LogInv

LEMMA NoPieceReads ==
  ASSUME piece' = NoPiece
  PROVE  PiecesRead'
  BY DEF PiecesRead, NoPiece

LEMMA StderrKeeps ==
  ASSUME LogInv, WriteStderr
  PROVE  LogInv'
  <1>0. /\ pc = "format" /\ fd' = fd /\ (pc' = pc \/ pc' = "ready")
    BY DEF WriteStderr, Formatted, confVars
  <1>1. CASE ~fd
    <2>1. pc' = "ready" /\ call' = call /\ fmt' = fmt /\ text' = text /\ whole' = whole
            /\ piece' = piece
      BY <1>1 DEF WriteStderr
    <2>2. TextInv' /\ FmtInv' /\ PiecesRead'
      BY <2>1 DEF LogInv, TextInv, FmtInv, PiecesRead
    <2>3. CallInv'
      BY <1>0, <2>1 DEF LogInv, CallInv
    <2> QED BY <2>2, <2>3 DEF LogInv
  <1>2. CASE fd
    <2> DEFINE n == Len(Line) - 1
               F == [i \in 1 .. n |-> [conv |-> "lit", arg |-> Line[i]]]
    <2>1. /\ call' = [call EXCEPT !.by = "core", !.level = QC_LOG_STDERR, !.err = FALSE]
          /\ fmt' = F /\ piece' = NoPiece /\ pc' = pc
          /\ text' = Repeat("h", HeaderLen) /\ whole' = Repeat("h", HeaderLen)
      BY <1>2 DEF WriteStderr, Start
    <2>2. TextInv'
      <3>1. /\ Repeat("h", HeaderLen) \in Seq(Char)
                 /\ Len(Repeat("h", HeaderLen)) <= Unlimited
            /\ Repeat("h", HeaderLen) = Cut(Repeat("h", HeaderLen), MaxErrorStr)
        BY Constants, RepeatText
      <3> QED BY <3>1, <2>1 DEF TextInv
    <2>3. FmtInv'
      <3>1. n \in Nat /\ \A i \in 1 .. n : Line[i] \in Char
        BY LineIsOne DEF LogInv
      <3>2. \A i \in 1 .. n : F[i] = [conv |-> "lit", arg |-> Line[i]]
        OBVIOUS
      <3>3. F = [i \in 1 .. n |-> F[i]]
        OBVIOUS
      <3> HIDE DEF n, F
      <3>4. \A i \in 1 .. n : F[i] \in Piece /\ Fits(F[i])
        BY <3>1, <3>2, LiteralFits
      <3>5. F \in Seq(Piece) /\ Len(F) = n
        BY <3>1, <3>3, <3>4
      <3>6. fmt' \in Seq(Piece) /\ \A i \in 1 .. Len(fmt') : Fits(fmt'[i])
        BY <3>4, <3>5, <2>1
      <3> QED BY <3>6 DEF FmtInv, Fits, TextOf
    <2>4. CallInv'
      BY <1>0, <2>1 DEF LogInv, CallInv
    <2> QED BY <2>1, <2>2, <2>3, <2>4, NoPieceReads DEF LogInv
  <1> QED BY <1>1, <1>2

LEMMA CallKeeps ==
  ASSUME LogInv, Call
  PROVE  LogInv'
  <1>1. /\ call' \in Calls /\ fmt' = call'.fmt /\ piece' = NoPiece /\ pc' = "format"
             /\ fd' = fd
        /\ \/ text' = Repeat("h", HeaderLen) /\ whole' = Repeat("h", HeaderLen)
           \/ text' = Repeat("q", PrefixLen) /\ whole' = Repeat("q", PrefixLen)
    BY DEF Call, Start, confVars
  <1>2. TextInv'
    <2>1. /\ Repeat("h", HeaderLen) \in Seq(Char) /\ Len(Repeat("h", HeaderLen)) <= Unlimited
          /\ Repeat("h", HeaderLen) = Cut(Repeat("h", HeaderLen), MaxErrorStr)
      BY Constants, RepeatText
    <2>2. /\ Repeat("q", PrefixLen) \in Seq(Char) /\ Len(Repeat("q", PrefixLen)) <= Unlimited
          /\ Repeat("q", PrefixLen) = Cut(Repeat("q", PrefixLen), MaxErrorStr)
      BY Constants, RepeatText
    <2> QED BY <2>1, <2>2, <1>1 DEF TextInv
  <1>3. call' \in CallType /\ \A i \in 1 .. Len(call'.fmt) : Fits(call'.fmt[i])
    BY <1>1, LogAssumption DEF Fits
  <1>4. FmtInv'
    <2>1. call'.fmt \in Seq(Piece)
      BY <1>3 DEF CallType
    <2> QED BY <2>1, <1>1, <1>3 DEF FmtInv, Fits, TextOf
  <1>5. CallInv'
    BY <1>1, <1>3 DEF LogInv, CallInv
  <1> QED BY <1>1, <1>2, <1>4, <1>5, NoPieceReads DEF LogInv

LEMMA OthersKeep ==
  ASSUME LogInv, ReadLine \/ LogInit \/ WriteLog \/ UNCHANGED vars
  PROVE  LogInv'
  <1>1. /\ text' = text /\ whole' = whole /\ fmt' = fmt /\ piece' = piece /\ call' = call
        /\ fd' \in BOOLEAN
        /\ pc' = pc \/ pc' = "ready"
    <2>1. fd \in BOOLEAN
      BY DEF LogInv, CallInv
    <2>2. CASE ReadLine
      BY <2>1, <2>2 DEF ReadLine
    <2>3. CASE LogInit
      BY <2>3 DEF LogInit
    <2>4. CASE WriteLog
      BY <2>1, <2>4 DEF WriteLog, confVars
    <2>5. CASE UNCHANGED vars
      BY <2>1, <2>5 DEF vars, confVars
    <2> QED BY <2>2, <2>3, <2>4, <2>5
  <1>2. TextInv' /\ FmtInv' /\ PiecesRead'
    BY <1>1 DEF LogInv, TextInv, FmtInv, PiecesRead
  <1>3. CallInv'
    BY <1>1 DEF LogInv, CallInv
  <1> QED BY <1>2, <1>3 DEF LogInv

LEMMA LogStep ==
  ASSUME LogInv, [Next]_vars
  PROVE  LogInv'
  BY FormatKeeps, StderrKeeps, CallKeeps, OthersKeep DEF Next

LEMMA LogAlways == Spec => []LogInv
  BY LogInit0, LogStep, PTL DEF Spec

(* qc_vslprintf with a buffer that is too short: no piece, and no padding, *)
(* does more than be cut, whatever the pieces.                             *)
THEOREM BufferOnlyCuts == Spec => []CutOnly
  <1>1. LogInv => CutOnly
    BY DEF LogInv, TextInv, CutOnly
  <1> QED BY <1>1, LogAlways, PTL

(* qc_sprintf_num and %f: the text of every piece means its argument.      *)
THEOREM PiecesMean == Spec => []PiecesRead
  <1>1. LogInv => PiecesRead
    BY DEF LogInv
  <1> QED BY <1>1, LogAlways, PTL

(* qc_log_error_core and qc_log_stderr: what they write is one line.       *)
THEOREM LinesAreWhole == Spec => LineExact
  <1>1. ASSUME LogInv, [Next]_vars PROVE [\A l \in {log', err'} \ {log, err,
                 <<>>} : OneLine(l)]_vars
    <2>1. CASE UNCHANGED vars
      BY <2>1
    <2>2. CASE Next
      <3>1. log' \in {log, Line} /\ err' \in {err, Line}
        BY <2>2 DEF Next, ReadLine, LogInit, Call, Format, WriteLog, WriteStderr, Write
      <3>2. OneLine(Line)
        BY <1>1, LineIsOne DEF LogInv
      <3> QED BY <3>1, <3>2
    <2> QED BY <1>1, <2>1, <2>2
  <1> QED BY <1>1, LogAlways, PTL DEF Spec, LineExact

-----------------------------------------------------------------------------
(* CConfig::Load.  A file is a sequence of symbols; the lemmas that follow *)
(* say what the helpers of Conf find in one.                               *)
Symbol == Char \cup {"nl"}

LEMMA FirstIs ==
  ASSUME NEW S \in SUBSET Nat, S # {}
  PROVE  First(S) \in S /\ \A j \in S : First(S) <= j
  BY LeastExists DEF First

LEMMA LastIs ==
  ASSUME NEW n \in Nat, NEW S \in SUBSET (1 .. n), S # {}
  PROVE  Last(S) \in S /\ \A j \in S : Last(S) >= j
  <1> DEFINE R == {i \in 0 .. n : n - i \in S}
  <1>1. PICK j \in S : TRUE
    OBVIOUS
  <1>2. n - j \in 0 .. n /\ n - (n - j) = j
    OBVIOUS
  <1>3. n - j \in R
    BY <1>1, <1>2
  <1>4. R \subseteq Nat
    OBVIOUS
  <1> HIDE DEF R
  <1>5. PICK x \in R : \A y \in R : x <= y
    <2>1. R \in SUBSET Nat /\ R # {}
      BY <1>3, <1>4
    <2> QED BY <2>1, LeastExists
  <1>6. n - x \in S /\ x \in 0 .. n
    BY <1>5 DEF R
  <1>7. ASSUME NEW k \in S PROVE n - x >= k
    <2>1. n - k \in 0 .. n /\ n - (n - k) = k
      OBVIOUS
    <2>2. n - k \in R
      BY <2>1 DEF R
    <2>3. x <= n - k
      BY <2>2, <1>5
    <2> QED BY <2>3, <1>6
  <1> QED BY <1>6, <1>7 DEF Last

(* The part of s from m to n.                                              *)
LEMMA PartIs ==
  ASSUME NEW S, NEW s \in Seq(S), NEW m \in Nat \ {0}, NEW n \in Nat, m <= n + 1, n <= Len(s)
  PROVE  /\ SubSeq(s, m, n) \in Seq(S)
         /\ Len(SubSeq(s, m, n)) = n - m + 1
         /\ \A i \in 1 .. n - m + 1 : SubSeq(s, m, n)[i] = s[m + i - 1]
  <1>1. Len(s) \in Nat
    BY LenProperties
  <1>2. \A i \in m .. n : s[i] \in S
    <2> TAKE i \in m .. n
    <2>1. i \in 1 .. Len(s)
      BY <1>1
    <2> QED BY <2>1, ElementOfSeq
  <1> DEFINE p == SubSeq(s, m, n)
  <1>3. m \in Int /\ n \in Int
    OBVIOUS
  <1>4. /\ p \in Seq(S)
        /\ Len(p) = IF m <= n THEN n - m + 1 ELSE 0
        /\ \A i \in 1 .. n - m + 1 : p[i] = s[m + i - 1]
    BY <1>2, <1>3, SubSeqProperties
  <1> HIDE DEF p
  <1>5. Len(p) = n - m + 1
    BY <1>4
  <1> QED BY <1>4, <1>5 DEF p

(* A part of a part.                                                       *)
LEMMA PartOfPart ==
  ASSUME NEW S, NEW s \in Seq(S), NEW m \in Nat \ {0}, NEW n \in Nat, m <= n + 1, n <= Len(s),
         NEW a \in Nat \ {0}, NEW b \in Nat, a <= b + 1, b <= n - m + 1
  PROVE  SubSeq(SubSeq(s, m, n), a, b) = SubSeq(s, m + a - 1, m + b - 1)
  <1> DEFINE p == SubSeq(s, m, n)
             q == SubSeq(p, a, b)
             r == SubSeq(s, m + a - 1, m + b - 1)
  <1>1. Len(s) \in Nat
    BY LenProperties
  <1>2. /\ p \in Seq(S) /\ Len(p) = n - m + 1
        /\ \A i \in 1 .. n - m + 1 : p[i] = s[m + i - 1]
    BY PartIs
  <1> HIDE DEF p
  <1>3. /\ q \in Seq(S) /\ Len(q) = b - a + 1
        /\ \A i \in 1 .. b - a + 1 : q[i] = p[a + i - 1]
    BY <1>2, PartIs
  <1> DEFINE c == m + a - 1
             d == m + b - 1
  <1>4. c \in Nat \ {0} /\ d \in Nat /\ c <= d + 1 /\ d <= Len(s) /\ d - c + 1 = b - a + 1
    BY <1>1
  <1>5. \A i \in Int : c + i - 1 = m + (a + i - 1) - 1
    OBVIOUS
  <1> HIDE DEF c, d
  <1> DEFINE r0 == SubSeq(s, c, d)
  <1>6. /\ r0 \in Seq(S) /\ Len(r0) = d - c + 1
        /\ \A i \in 1 .. d - c + 1 : r0[i] = s[c + i - 1]
    BY <1>4, PartIs
  <1> HIDE DEF q, r0
  <1>7. ASSUME NEW i \in 1 .. Len(q) PROVE q[i] = r0[i]
    <2>1. i \in 1 .. b - a + 1 /\ i \in 1 .. d - c + 1 /\ i \in Int
      BY <1>3, <1>4
    <2>2. a + i - 1 \in 1 .. n - m + 1
      BY <2>1
    <2>3. q[i] = s[m + (a + i - 1) - 1]
      BY <2>1, <2>2, <1>2, <1>3
    <2>4. r0[i] = s[c + i - 1]
      BY <2>1, <1>6
    <2> QED BY <2>1, <2>3, <2>4, <1>5
  <1>8. Len(q) = Len(r0)
    BY <1>3, <1>4, <1>6
  <1>9. q = r0
    BY <1>3, <1>6, <1>7, <1>8, SeqEqual
  <1> QED BY <1>9 DEF q, r0, c, d, p

(* The whole of s, and an empty part.                                      *)
LEMMA WholePart ==
  ASSUME NEW S, NEW s \in Seq(S)
  PROVE  SubSeq(s, 1, Len(s)) = s
  <1> DEFINE p == SubSeq(s, 1, Len(s))
             n == Len(s)
  <1>1. n \in Nat /\ n - 1 + 1 = n /\ \A i \in 1 .. n : 1 + i - 1 = i
    BY LenProperties
  <1>2. /\ p \in Seq(S) /\ Len(p) = n - 1 + 1
        /\ \A i \in 1 .. n - 1 + 1 : p[i] = s[1 + i - 1]
    BY <1>1, PartIs
  <1> HIDE DEF p
  <1>3. Len(p) = Len(s) /\ \A i \in 1 .. Len(s) : p[i] = s[i]
    BY <1>1, <1>2
  <1>4. p = s
    BY <1>2, <1>3, SeqEqual
  <1> QED BY <1>4 DEF p

(* What trimming leaves and what it takes away.                            *)
LEMMA TrimEndKeeps ==
  ASSUME NEW S, NEW s \in Seq(S), NEW C
  PROVE  \E k \in 0 .. Len(s) :
            /\ TrimEnd(s, C) = SubSeq(s, 1, k)
            /\ \A i \in k + 1 .. Len(s) : s[i] \in C
            /\ k > 0 => s[k] \notin C
  <1> DEFINE kept == {i \in 1 .. Len(s) : s[i] \notin C}
  <1>1. TrimEnd(s, C) = IF kept = {} THEN <<>> ELSE SubSeq(s, 1, Last(kept))
    BY DEF TrimEnd, Where
  <1>2. Len(s) \in Nat
    BY LenProperties
  <1>3. kept \in SUBSET (1 .. Len(s)) /\ \A i \in 1 .. Len(s) : i \in kept <=> s[i] \notin C
    OBVIOUS
  <1> HIDE DEF kept
  <1>4. CASE kept = {}
    <2>1. SubSeq(s, 1, 0) = <<>>
      BY SubSeqEmpty
    <2>2. 0 \in 0 .. Len(s) /\ \A i \in 0 + 1 .. Len(s) : s[i] \in C
      BY <1>2, <1>3, <1>4
    <2> QED BY <1>1, <1>4, <2>1, <2>2
  <1>5. CASE kept # {}
    <2> DEFINE k == Last(kept)
    <2>1. k \in kept /\ \A j \in kept : k >= j
      BY <1>2, <1>3, <1>5, LastIs
    <2>2. TrimEnd(s, C) = SubSeq(s, 1, k)
      BY <1>1, <1>5
    <2> HIDE DEF k
    <2>3. k \in 1 .. Len(s) /\ s[k] \notin C
      BY <1>3, <2>1
    <2>4. ASSUME NEW i \in k + 1 .. Len(s) PROVE s[i] \in C
      <3>1. i \in 1 .. Len(s) /\ ~(k >= i)
        BY <1>2, <2>3
      <3> QED BY <3>1, <1>3, <2>1
    <2>5. k \in 0 .. Len(s)
      BY <1>2, <2>3
    <2> QED BY <2>2, <2>3, <2>4, <2>5
  <1> QED BY <1>4, <1>5

LEMMA LtrimKeeps ==
  ASSUME NEW S, NEW s \in Seq(S)
  PROVE  \E l \in 0 .. Len(s) :
            /\ Ltrim(s) = SubSeq(s, l + 1, Len(s))
            /\ \A i \in 1 .. l : s[i] = "sp"
            /\ l < Len(s) => s[l + 1] # "sp"
  <1> DEFINE kept == {i \in 1 .. Len(s) : s[i] # "sp"}
  <1>1. Ltrim(s) = IF kept = {} THEN <<>> ELSE SubSeq(s, First(kept), Len(s))
    BY DEF Ltrim, Where
  <1>2. Len(s) \in Nat
    BY LenProperties
  <1>3. kept \subseteq 1 .. Len(s) /\ \A i \in 1 .. Len(s) : i \in kept <=> s[i] # "sp"
    OBVIOUS
  <1> HIDE DEF kept
  <1>4. CASE kept = {}
    <2>1. SubSeq(s, Len(s) + 1, Len(s)) = <<>>
      BY <1>2, SubSeqEmpty
    <2>2. Len(s) \in 0 .. Len(s) /\ ~(Len(s) < Len(s)) /\ \A i \in 1 .. Len(s) : s[i] = "sp"
      BY <1>2, <1>3, <1>4
    <2> QED BY <1>1, <1>4, <2>1, <2>2
  <1>5. CASE kept # {}
    <2> DEFINE k == First(kept)
    <2>1. k \in kept /\ \A j \in kept : k <= j
      <3>1. kept \in SUBSET Nat
        BY <1>2, <1>3
      <3> QED BY <3>1, <1>5, FirstIs
    <2>2. Ltrim(s) = SubSeq(s, k, Len(s))
      BY <1>1, <1>5
    <2> HIDE DEF k
    <2>3. k \in 1 .. Len(s) /\ s[k] # "sp"
      BY <1>3, <2>1
    <2>4. k - 1 \in 0 .. Len(s) /\ (k - 1) + 1 = k
      BY <1>2, <2>3
    <2>5. ASSUME NEW i \in 1 .. k - 1 PROVE s[i] = "sp"
      <3>1. i \in 1 .. Len(s) /\ ~(k <= i)
        BY <1>2, <2>3
      <3> QED BY <3>1, <1>3, <2>1
    <2> QED BY <2>2, <2>3, <2>4, <2>5
  <1> QED BY <1>4, <1>5

(* Trimmed at the end by C, to k characters, and then on both sides.       *)
LEMMA TrimmedBoth ==
  ASSUME NEW S, NEW s \in Seq(S), NEW C, NEW k \in 0 .. Len(s),
         "sp" \in C, \A i \in k + 1 .. Len(s) : s[i] \in C,
         k = 0 \/ s[k] \notin C \/ C = {"sp"}
  PROVE  /\ IsTrimmed(Ltrim(Rtrim(SubSeq(s, 1, k))), s, C)
         /\ Ltrim(Rtrim(SubSeq(s, 1, k))) \in Seq(S)
  <1> DEFINE n == Len(s)
             u == SubSeq(s, 1, k)
  <1>1. n \in Nat /\ k \in 0 .. n
    BY LenProperties
  <1>2. /\ u \in Seq(S) /\ Len(u) = k
        /\ \A i \in 1 .. k : u[i] = s[i]
    <2>1. /\ u \in Seq(S) /\ Len(u) = k - 1 + 1
          /\ \A i \in 1 .. k - 1 + 1 : u[i] = s[1 + i - 1]
      BY <1>1, PartIs
    <2>2. k - 1 + 1 = k /\ \A i \in 1 .. k : 1 + i - 1 = i
      BY <1>1
    <2> HIDE DEF u
    <2> QED BY <2>1, <2>2
  <1>3. PICK m \in 0 .. k :
            /\ Rtrim(u) = SubSeq(u, 1, m)
            /\ \A i \in m + 1 .. k : u[i] = "sp"
            /\ m > 0 => u[m] # "sp"
    <2> HIDE DEF u
    <2>1. \E m \in 0 .. Len(u) :
            /\ TrimEnd(u, {"sp"}) = SubSeq(u, 1, m)
            /\ \A i \in m + 1 .. Len(u) : u[i] \in {"sp"}
            /\ m > 0 => u[m] \notin {"sp"}
      BY <1>2, TrimEndKeeps
    <2> QED BY <2>1, <1>2 DEF Rtrim
  <1> DEFINE v == SubSeq(s, 1, m)
  <1>4. Rtrim(u) = v
    <2>1. SubSeq(SubSeq(s, 1, k), 1, m) = SubSeq(s, 1 + 1 - 1, 1 + m - 1)
      BY <1>1, PartOfPart
    <2>2. 1 + 1 - 1 = 1 /\ 1 + m - 1 = m
      BY <1>1
    <2> QED BY <2>1, <2>2, <1>3
  <1>5. /\ v \in Seq(S) /\ Len(v) = m
        /\ \A i \in 1 .. m : v[i] = s[i]
    <2>1. /\ v \in Seq(S) /\ Len(v) = m - 1 + 1
          /\ \A i \in 1 .. m - 1 + 1 : v[i] = s[1 + i - 1]
      BY <1>1, PartIs
    <2>2. m - 1 + 1 = m /\ \A i \in 1 .. m : 1 + i - 1 = i
      BY <1>1
    <2> HIDE DEF v
    <2> QED BY <2>1, <2>2
  <1>6. PICK l \in 0 .. m :
            /\ Ltrim(v) = SubSeq(v, l + 1, m)
            /\ \A i \in 1 .. l : v[i] = "sp"
            /\ l < m => v[l + 1] # "sp"
    <2> HIDE DEF v
    <2> QED BY <1>5, LtrimKeeps
  <1> DEFINE t == SubSeq(s, l + 1, m)
  <1>7. Ltrim(v) = t
    <2>1. SubSeq(SubSeq(s, 1, m), l + 1, m) = SubSeq(s, 1 + (l + 1) - 1, 1 + m - 1)
      BY <1>1, PartOfPart
    <2>2. 1 + (l + 1) - 1 = l + 1 /\ 1 + m - 1 = m
      BY <1>1
    <2> QED BY <2>1, <2>2, <1>6
  <1>8. /\ t \in Seq(S) /\ Len(t) = m - l
        /\ \A i \in 1 .. m - l : t[i] = s[l + i]
    <2>1. /\ t \in Seq(S) /\ Len(t) = m - (l + 1) + 1
          /\ \A i \in 1 .. m - (l + 1) + 1 : t[i] = s[(l + 1) + i - 1]
      BY <1>1, PartIs
    <2>2. m - (l + 1) + 1 = m - l /\ \A i \in 1 .. m - l : (l + 1) + i - 1 = l + i
      BY <1>1
    <2> HIDE DEF t
    <2> QED BY <2>1, <2>2
  <1>9. \A i \in 1 .. l : s[i] = "sp"
    BY <1>1, <1>5, <1>6
  <1>10. \A i \in m + 1 .. n : s[i] \in C
    <2> TAKE i \in m + 1 .. n
    <2>1. CASE i <= k
      <3>1. i \in 1 .. k /\ i \in m + 1 .. k
        BY <2>1, <1>1
      <3> QED BY <3>1, <1>2, <1>3
    <2>2. CASE ~(i <= k)
      <3>1. i \in k + 1 .. n
        BY <2>2, <1>1
      <3> QED BY <3>1
    <2> QED BY <2>1, <2>2
  <1>11. m > 0 => s[m] \notin C
    <2> SUFFICES ASSUME m > 0 PROVE s[m] \notin C
      OBVIOUS
    <2>1. m \in 1 .. k /\ s[m] # "sp"
      BY <1>1, <1>2, <1>3
    <2>2. CASE s[k] \notin C
      <3>1. m = k
        <4> SUFFICES ASSUME m # k PROVE FALSE
          OBVIOUS
        <4>1. k \in m + 1 .. k /\ k \in 1 .. k
          BY <2>1, <1>1
        <4> QED BY <4>1, <1>2, <1>3, <2>2
      <3> QED BY <3>1, <2>2
    <2>3. CASE C = {"sp"}
      BY <2>1, <2>3
    <2> QED BY <2>1, <2>2, <2>3, <1>1
  <1> HIDE DEF t, u, v
  <1>12. t # <<>> => t[1] # "sp" /\ t[Len(t)] \notin C
    <2> SUFFICES ASSUME t # <<>> PROVE t[1] # "sp" /\ t[Len(t)] \notin C
      OBVIOUS
    <2>1. Len(t) # 0
      BY <1>8
    <2>2. l < m /\ 1 \in 1 .. m - l /\ m - l \in 1 .. m - l /\ l + (m - l) = m /\ l + 1 \in 1 .. m
      BY <2>1, <1>1, <1>8
    <2>3. t[1] = s[l + 1] /\ t[Len(t)] = s[m] /\ v[l + 1] = s[l + 1]
      BY <2>2, <1>5, <1>8
    <2> QED BY <2>2, <2>3, <1>6, <1>11
  <1>13. IsTrimmed(t, s, C)
    <2> DEFINE b == n - m
    <2>1. /\ l \in 0 .. n /\ b \in 0 .. n /\ l + b <= n
          /\ n - b = m
      BY <1>1
    <2>2. t = SubSeq(s, l + 1, n - b)
      BY <2>1 DEF t
    <2>3. \A i \in (n - b + 1) .. n : s[i] \in C
      BY <2>1, <1>10
    <2> HIDE DEF b
    <2> QED BY <2>1, <2>2, <2>3, <1>9, <1>12 DEF IsTrimmed
  <1> QED BY <1>4, <1>7, <1>8, <1>13 DEF u

Text == Seq(Symbol)
ItemType == [name : Text, content : Text]
IsItemLine(line) ==
    line[1] \notin Ignored \cup {"["} /\ \E j \in 1 .. Len(line) : line[j] = "="

(* What ItemsOf gives for a line: its item if it has one, else nothing.    *)
LEMMA OneItem ==
  ASSUME NEW line \in Text, line # <<>>
  PROVE  /\ IsItemLine(line) =>
               \E item \in ItemType : ItemsOf(line) = <<item>> /\ IsItem(item, line)
         /\ ~IsItemLine(line) => ItemsOf(line) = <<>>
  <1> DEFINE n == Len(line)
             C == {"nl", "cr", "sp"}
             data == TrimEnd(line, C)
             signs == {i \in 1 .. Len(data) : data[i] = "="}
             e == First(signs)
             name == Ltrim(Rtrim(SubSeq(data, 1, e - 1)))
             content == Ltrim(Rtrim(SubSeq(data, e + 1, Len(data))))
  <1>1. line \in Seq(Symbol) /\ n \in Nat
    BY LenProperties DEF Text
  <1>2. PICK k \in 0 .. n :
            /\ data = SubSeq(line, 1, k)
            /\ \A i \in k + 1 .. n : line[i] \in C
            /\ k > 0 => line[k] \notin C
    <2> HIDE DEF C
    <2> QED BY <1>1, TrimEndKeeps
  <1>3. ItemsOf(line) =
          IF line[1] \in Ignored \/ data = <<>> \/ data[1] = "[" \/ signs = {} THEN <<>>
          ELSE <<[name |-> name, content |-> content]>>
    BY DEF ItemsOf, Where
  <1> HIDE DEF data
  <1>4. /\ data \in Seq(Symbol) /\ Len(data) = k
        /\ \A i \in 1 .. k : data[i] = line[i]
    <2> DEFINE u == SubSeq(line, 1, k)
    <2>1. /\ u \in Seq(Symbol) /\ Len(u) = k - 1 + 1
          /\ \A i \in 1 .. k - 1 + 1 : u[i] = line[1 + i - 1]
      BY <1>1, PartIs
    <2>2. k - 1 + 1 = k /\ \A i \in 1 .. k : 1 + i - 1 = i
      BY <1>1
    <2>3. data = u
      BY <1>2
    <2> HIDE DEF u
    <2> QED BY <2>1, <2>2, <2>3
  <1>5. /\ signs \subseteq 1 .. k
        /\ \A i \in 1 .. n : i \in signs <=> line[i] = "="
    <2>1. signs \subseteq 1 .. k
      BY <1>4
    <2>2. ASSUME NEW i \in 1 .. n PROVE i \in signs <=> line[i] = "="
      <3>1. CASE i \in 1 .. k
        BY <3>1, <1>4
      <3>2. CASE i \notin 1 .. k
        <4>1. i \in k + 1 .. n /\ i \notin signs
          BY <3>2, <2>1, <1>1
        <4>2. line[i] \in C
          BY <4>1, <1>2
        <4>3. line[i] # "="
          BY <4>2
        <4> QED BY <4>1, <4>3
      <3> QED BY <3>1, <3>2
    <2> QED BY <2>1, <2>2
  <1> HIDE DEF signs, name, content
  <1>6. CASE ~IsItemLine(line)
    <2>1. line[1] \in Ignored \/ line[1] = "[" \/ \A j \in 1 .. n : line[j] # "="
      BY <1>6 DEF IsItemLine
    <2>2. CASE line[1] \in Ignored
      BY <2>2, <1>3, <1>6
    <2>3. CASE line[1] = "["
      <3>1. data = <<>> \/ data[1] = "["
        <4>1. k = 0 \/ 1 \in 1 .. k
          BY <1>1
        <4> QED BY <4>1, <1>4, <2>3
      <3> QED BY <3>1, <1>3, <1>6
    <2>4. CASE \A j \in 1 .. n : line[j] # "="
      <3>1. signs = {}
        <4>1. \A i \in signs : i \in 1 .. n
          BY <1>1, <1>5
        <4> QED BY <4>1, <1>5, <2>4
      <3> QED BY <3>1, <1>3, <1>6
    <2> QED BY <2>1, <2>2, <2>3, <2>4
  <1>7. CASE IsItemLine(line)
    <2>1. line[1] \notin Ignored /\ line[1] # "[" /\ \E j \in 1 .. n : line[j] = "="
      BY <1>7 DEF IsItemLine
    <2>2. signs # {}
      BY <2>1, <1>5
    <2>3. e \in signs /\ \A j \in signs : e <= j
      <3>1. signs \in SUBSET Nat
        BY <1>1, <1>5
      <3> QED BY <3>1, <2>2, FirstIs
    <2> HIDE DEF e
    <2>4. e \in 1 .. k /\ k \in 1 .. n /\ e \in 1 .. n /\ line[e] = "="
      BY <1>1, <1>5, <2>3
    <2>5. \A i \in 1 .. (e - 1) : line[i] # "="
      <3> TAKE i \in 1 .. (e - 1)
      <3>1. i \in 1 .. n /\ ~(e <= i)
        BY <1>1, <2>4
      <3> QED BY <3>1, <1>5, <2>3
    <2>6. ItemsOf(line) = <<[name |-> name, content |-> content]>>
      <3>1. data # <<>> /\ data[1] # "["
        <4>1. 1 \in 1 .. k /\ Len(data) # 0
          BY <2>4, <1>4
        <4>2. data # <<>>
          BY <4>1
        <4> QED BY <4>1, <4>2, <1>4, <2>1
      <3> QED BY <3>1, <1>3, <2>1, <2>2
    <2>7. IsTrimmed(name, SubSeq(line, 1, e - 1), {"sp"}) /\ name \in Text
      <3> DEFINE s == SubSeq(line, 1, e - 1)
                 h == e - 1
                 B == {"sp"}
      <3>1. h \in Nat /\ h <= k /\ h <= n /\ 1 <= h + 1
        BY <1>1, <2>4
      <3>2. SubSeq(data, 1, h) = s
        <4>1. SubSeq(SubSeq(line, 1, k), 1, h) = SubSeq(line, 1 + 1 - 1, 1 + h - 1)
          <5>1. k \in Nat /\ 1 <= k + 1 /\ k <= Len(line) /\ h <= k - 1 + 1
            BY <1>1, <2>4, <3>1
          <5> HIDE DEF h
          <5> QED BY <1>1, <3>1, <5>1, PartOfPart
        <4>2. 1 + 1 - 1 = 1 /\ 1 + h - 1 = h
          BY <3>1
        <4> QED BY <4>1, <4>2, <1>2
      <3>3. s \in Seq(Symbol) /\ Len(s) \in Nat
        <4>1. s \in Seq(Symbol)
          BY <1>1, <3>1, PartIs
        <4> QED BY <4>1, LenProperties
      <3>4. name = Ltrim(Rtrim(s))
        BY <3>2 DEF name
      <3> HIDE DEF s
      <3>5. SubSeq(s, 1, Len(s)) = s
        BY <3>3, WholePart
      <3>6. "sp" \in B /\ B = {"sp"}
        OBVIOUS
      <3> HIDE DEF B
      <3>7. Len(s) \in 0 .. Len(s) /\ \A i \in Len(s) + 1 .. Len(s) : s[i] \in B
        BY <3>3
      <3>8. IsTrimmed(Ltrim(Rtrim(SubSeq(s, 1, Len(s)))), s, B)
            /\ Ltrim(Rtrim(SubSeq(s, 1, Len(s)))) \in Seq(Symbol)
        BY <3>3, <3>6, <3>7, TrimmedBoth
      <3>9. IsTrimmed(name, s, B) /\ name \in Text
        BY <3>4, <3>5, <3>8 DEF Text
      <3> QED BY <3>9 DEF s, B
    <2>8. IsTrimmed(content, SubSeq(line, e + 1, n), C) /\ content \in Text
      <3> DEFINE s == SubSeq(line, e + 1, n)
                 h == k - e
                 a == e + 1
      <3>1. /\ h \in 0 .. n - e /\ a \in Nat \ {0} /\ a <= n + 1 /\ a <= k + 1
            /\ n - a + 1 = n - e /\ n <= Len(line)
        BY <1>1, <2>4
      <3>2. /\ s \in Seq(Symbol) /\ Len(s) = n - e
            /\ \A i \in 1 .. n - e : s[i] = line[e + i]
        <4>1. /\ s \in Seq(Symbol) /\ Len(s) = n - a + 1
              /\ \A i \in 1 .. n - a + 1 : s[i] = line[a + i - 1]
          <5> HIDE DEF a, h
          <5>1. LET q == SubSeq(line, a, n)
                IN /\ q \in Seq(Symbol) /\ Len(q) = n - a + 1
                   /\ \A i \in 1 .. n - a + 1 : q[i] = line[a + i - 1]
            BY <1>1, <3>1, PartIs
          <5> QED BY <5>1 DEF a
        <4>2. \A i \in 1 .. n - e : a + i - 1 = e + i
          BY <1>1, <2>4
        <4> HIDE DEF s, a
        <4> QED BY <4>1, <4>2, <3>1
      <3>3. SubSeq(data, a, k) = SubSeq(line, a, k)
        <4>1. SubSeq(SubSeq(line, 1, k), a, k) = SubSeq(line, 1 + a - 1, 1 + k - 1)
          <5>1. k \in Nat /\ 1 <= k + 1 /\ k <= Len(line) /\ k <= k - 1 + 1
            BY <1>1, <2>4
          <5> HIDE DEF a, h
          <5> QED BY <1>1, <3>1, <5>1, PartOfPart
        <4>2. 1 + a - 1 = a /\ 1 + k - 1 = k
          BY <1>1, <2>4
        <4> QED BY <4>1, <4>2, <1>2
      <3>4. SubSeq(s, 1, h) = SubSeq(line, a, k)
        <4>1. SubSeq(SubSeq(line, a, n), 1, h) = SubSeq(line, a + 1 - 1, a + h - 1)
          <5>1. h \in Nat /\ 1 <= h + 1 /\ h <= n - a + 1
            BY <1>1, <2>4, <3>1
          <5> HIDE DEF a, h
          <5> QED BY <1>1, <3>1, <5>1, PartOfPart
        <4>2. a + 1 - 1 = a /\ a + h - 1 = k
          BY <1>1, <2>4
        <4> QED BY <4>1, <4>2
      <3>5. content = Ltrim(Rtrim(SubSeq(s, 1, h)))
        BY <3>3, <3>4, <1>4 DEF content
      <3> HIDE DEF s
      <3>6. h \in 0 .. Len(s) /\ "sp" \in C
        BY <3>1, <3>2
      <3>7. \A i \in h + 1 .. Len(s) : s[i] \in C
        <4> TAKE i \in h + 1 .. Len(s)
        <4>1. i \in 1 .. n - e /\ e + i \in k + 1 .. n
          BY <3>1, <3>2, <1>1, <2>4
        <4> QED BY <4>1, <3>2, <1>2
      <3>8. h = 0 \/ s[h] \notin C
        <4> SUFFICES ASSUME h # 0 PROVE s[h] \notin C
          OBVIOUS
        <4>1. h \in 1 .. n - e /\ e + h = k /\ k > 0
          BY <3>1, <1>1, <2>4
        <4> QED BY <4>1, <3>2, <1>2
      <3> HIDE DEF h, C
      <3>9. IsTrimmed(content, s, C) /\ content \in Seq(Symbol)
        BY <3>2, <3>5, <3>6, <3>7, <3>8, TrimmedBoth
      <3> QED BY <3>9 DEF s, Text
    <2> DEFINE item == [name |-> name, content |-> content]
    <2>9. item \in ItemType /\ item.name = name /\ item.content = content
      BY <2>7, <2>8 DEF ItemType
    <2>10. ItemsOf(line) = <<item>>
      BY <2>6
    <2> HIDE DEF item
    <2>11. IsItem(item, line)
      BY <2>4, <2>5, <2>7, <2>8, <2>9 DEF IsItem
    <2> QED BY <1>7, <2>9, <2>10, <2>11
  <1> QED BY <1>6, <1>7

(* What fgets reads: some of the file, and a whole line if it is short.    *)
LEMMA LineRead ==
  ASSUME NEW f \in Text, NEW r \in 0 .. Len(f), r < Len(f)
  PROVE  LET u == SubSeq(f, r + 1, Len(f))
             n == LineLength(u)
         IN /\ n \in 1 .. Len(f) - r /\ Len(u) = Len(f) - r
            /\ SubSeq(u, 1, n) = SubSeq(f, r + 1, r + n)
            /\ SubSeq(u, n + 1, Len(u)) = SubSeq(f, r + n + 1, Len(f))
            /\ Len(LineAt(f, r + 1)) < LineMax =>
                  /\ LineAt(f, r + 1) = SubSeq(f, r + 1, r + n)
                  /\ \A i \in r + 1 .. r + n - 1 : f[i] # "nl"
                  /\ r + n = Len(f) \/ f[r + n] = "nl"
  <1> DEFINE l == Len(f)
             s == r + 1
             h == l - r
             u == SubSeq(f, s, l)
             ends == {i \in 1 .. Len(u) : u[i] = "nl"} \cup {Len(u)}
             m == First(ends)
             n == LineLength(u)
  <1>1. /\ l \in Nat /\ r \in Nat /\ r < l /\ s = r + 1 /\ f \in Seq(Symbol)
        /\ h \in Nat /\ h >= 1 /\ r + h = l
    BY LenProperties DEF Text
  <1>2. LineMax \in Nat /\ LineMax > 1
    BY ConfAssumption
  <1>3. s \in Nat \ {0} /\ s <= l + 1 /\ l <= Len(f) /\ l - s + 1 = h
    BY <1>1
  <1> HIDE DEF h
  <1>4. /\ u \in Seq(Symbol) /\ Len(u) = h
        /\ \A i \in 1 .. h : u[i] = f[r + i]
    <2> HIDE DEF s, l
    <2>1. /\ u \in Seq(Symbol) /\ Len(u) = l - s + 1
          /\ \A i \in 1 .. l - s + 1 : u[i] = f[s + i - 1]
      BY <1>1, <1>3, PartIs
    <2>2. \A i \in 1 .. h : s + i - 1 = r + i
      BY <1>1
    <2> HIDE DEF u
    <2> QED BY <2>1, <2>2, <1>3
  <1>5. n = IF m < LineMax THEN m ELSE LineMax - 1
    BY DEF LineLength, Where
  <1> HIDE DEF n, u
  <1>6. m \in ends /\ (\A j \in ends : m <= j) /\ m \in 1 .. h
    <2>1. ends \in SUBSET Nat /\ ends # {} /\ ends \subseteq 1 .. h /\ h \in ends
      BY <1>1, <1>4
    <2> HIDE DEF ends
    <2>2. m \in ends /\ \A j \in ends : m <= j
      BY <2>1, FirstIs
    <2> QED BY <2>1, <2>2
  <1>7. /\ m = h \/ u[m] = "nl"
        /\ \A i \in 1 .. m - 1 : u[i] # "nl"
    <2>1. m = h \/ u[m] = "nl"
      BY <1>4, <1>6
    <2>2. ASSUME NEW i \in 1 .. m - 1 PROVE u[i] # "nl"
      <3>1. i \in 1 .. Len(u) /\ ~(m <= i)
        BY <1>1, <1>4, <1>6
      <3>2. i \notin ends
        BY <3>1, <1>6
      <3> QED BY <3>1, <3>2
    <2> QED BY <2>1, <2>2
  <1> HIDE DEF m, ends
  <1>8. n \in 1 .. h
    BY <1>1, <1>2, <1>5, <1>6
  <1>9. SubSeq(u, 1, n) = SubSeq(f, s, r + n)
    <2>1. SubSeq(SubSeq(f, s, l), 1, n) = SubSeq(f, s + 1 - 1, s + n - 1)
      <3>1. n \in Nat /\ 1 <= n + 1 /\ n <= l - s + 1
        BY <1>1, <1>3, <1>8
      <3> HIDE DEF s, l
      <3> QED BY <1>1, <1>3, <3>1, PartOfPart
    <2>2. s + 1 - 1 = s /\ s + n - 1 = r + n
      BY <1>1, <1>8
    <2> QED BY <2>1, <2>2 DEF u
  <1>10. SubSeq(u, n + 1, Len(u)) = SubSeq(f, r + n + 1, l)
    <2>1. SubSeq(SubSeq(f, s, l), n + 1, h) = SubSeq(f, s + (n + 1) - 1, s + h - 1)
      <3> DEFINE a == n + 1
      <3>1. a \in Nat \ {0} /\ a <= h + 1 /\ h <= l - s + 1
        BY <1>1, <1>3, <1>8
      <3> HIDE DEF s, l, a
      <3>2. SubSeq(SubSeq(f, s, l), a, h) = SubSeq(f, s + a - 1, s + h - 1)
        BY <1>1, <1>3, <3>1, PartOfPart
      <3> QED BY <3>2 DEF a
    <2>2. s + (n + 1) - 1 = r + n + 1 /\ s + h - 1 = l
      BY <1>1, <1>8
    <2> QED BY <2>1, <2>2, <1>4 DEF u
  <1>11. ASSUME Len(LineAt(f, s)) < LineMax
         PROVE  /\ LineAt(f, s) = SubSeq(f, s, r + n)
                /\ \A i \in s .. r + n - 1 : f[i] # "nl"
                /\ r + n = l \/ f[r + n] = "nl"
    <2> DEFINE E == {j \in s .. l : f[j] = "nl"} \cup {l}
               x == First(E)
    <2>1. LineAt(f, s) = SubSeq(f, s, x)
      BY DEF LineAt
    <2>2. E \in SUBSET Nat /\ E # {} /\ E \subseteq s .. l
      BY <1>1
    <2>3. r + m \in E
      <3>1. r + m \in s .. l /\ m \in 1 .. h
        BY <1>1, <1>6
      <3>2. CASE m = h
        BY <3>2, <1>1
      <3>3. CASE u[m] = "nl"
        BY <3>1, <3>3, <1>4
      <3> QED BY <3>2, <3>3, <1>7
    <2>4. ASSUME NEW j \in E PROVE r + m <= j
      <3> SUFFICES ASSUME j < r + m PROVE FALSE
        BY <2>2, <1>1, <1>6
      <3>1. j \in s .. l
        BY <2>2
      <3>2. j - r \in 1 .. m - 1 /\ j - r \in 1 .. h /\ r + (j - r) = j /\ j # l
        BY <3>1, <1>1, <1>6
      <3>3. u[j - r] = f[j] /\ u[j - r] # "nl"
        BY <3>2, <1>4, <1>7
      <3> QED BY <3>2, <3>3
    <2> HIDE DEF E
    <2>5. x \in E /\ \A j \in E : x <= j
      BY <2>2, FirstIs
    <2> HIDE DEF x
    <2>6. x = r + m
      <3>1. x <= r + m /\ r + m <= x /\ x \in Nat
        BY <2>2, <2>3, <2>4, <2>5
      <3> QED BY <3>1, <1>1, <1>6
    <2>7. Len(SubSeq(f, s, x)) = m
      <3>1. x \in Nat /\ s <= x + 1 /\ x <= Len(f) /\ x - s + 1 = m
        BY <2>6, <1>1, <1>6
      <3> HIDE DEF s, l
      <3>2. Len(SubSeq(f, s, x)) = x - s + 1
        BY <1>1, <1>3, <3>1, PartIs
      <3> QED BY <3>1, <3>2
    <2>8. n = m
      BY <1>5, <1>11, <2>1, <2>7
    <2>9. \A i \in s .. r + n - 1 : f[i] # "nl"
      <3> TAKE i \in s .. r + n - 1
      <3>1. i - r \in 1 .. m - 1 /\ i - r \in 1 .. h /\ r + (i - r) = i
        BY <2>8, <1>1, <1>6
      <3> QED BY <3>1, <1>4, <1>7
    <2>10. r + n = l \/ f[r + n] = "nl"
      BY <2>8, <1>1, <1>4, <1>6, <1>7
    <2> QED BY <2>1, <2>6, <2>8, <2>9, <2>10
  <1> QED BY <1>1, <1>4, <1>8, <1>9, <1>10, <1>11 DEF u, n, h

(* atoi: the value is a number, whatever the content.                      *)
Decimals == DOMAIN DigitValue

LEMMA DigitIsNat ==
  ASSUME NEW c \in Decimals
  PROVE  DigitValue[c] \in Nat
  <1> DEFINE digits == <<"0", "1", "2", "3", "4", "5", "6", "7", "8", "9">>
             D == {"0", "1", "2", "3", "4", "5", "6", "7", "8", "9"}
             value == CHOOSE v \in 0..9 : digits[v + 1] = c
  <1>1. c \in D
    BY DEF Decimals, DigitValue
  <1>3. \E v \in 0 .. 9 : digits[v + 1] = c
    <2>1. /\ digits[0 + 1] = "0" /\ digits[1 + 1] = "1" /\ digits[2 + 1] = "2"
          /\ digits[3 + 1] = "3" /\ digits[4 + 1] = "4" /\ digits[5 + 1] = "5"
          /\ digits[6 + 1] = "6" /\ digits[7 + 1] = "7" /\ digits[8 + 1] = "8"
          /\ digits[9 + 1] = "9"
      OBVIOUS
    <2> HIDE DEF digits
    <2> QED BY <1>1, <2>1
  <1> HIDE DEF digits
  <1>4. value \in 0 .. 9
    BY <1>3
  <1>5. DigitValue[c] = value
    <2>1. DigitValue = [d \in D |-> CHOOSE v \in 0..9 : digits[v + 1] = d]
      BY DEF DigitValue, digits
    <2> HIDE DEF D
    <2> QED BY <1>1, <2>1
  <1> HIDE DEF value
  <1> QED BY <1>4, <1>5

Values(n, body, v) ==
    v = [i \in 0 .. n |-> IF i = 0 THEN 0 ELSE 10 * v[i - 1] + DigitValue[body[i]]]

LEMMA ValuesExist ==
  ASSUME NEW n \in Nat, NEW body, \A i \in 1 .. n : body[i] \in Decimals
  PROVE  \E v : Values(n, body, v)
  <1> DEFINE D == 0 .. n
             Base == {0}
             down == [i \in Nat |-> i - 1]
             first == [i \in {0} |-> 0]
             then == [p \in D \X Nat |-> 10 * p[2] + DigitValue[body[p[1]]]]
  <1>1. Descends(D, Base, down)
    BY DEF Descends
  <1>2. \A i \in D \cap Base : first[i] \in Nat
    OBVIOUS
  <1>3. \A i \in D, x \in Nat : then[<<i, x>>] = 10 * x + DigitValue[body[i]]
    OBVIOUS
  <1>4. ASSUME NEW i \in D \ Base, NEW x \in Nat PROVE then[<<i, x>>] \in Nat
    <2>1. DigitValue[body[i]] \in Nat
      BY DigitIsNat
    <2> HIDE DEF then
    <2> QED BY <2>1, <1>3
  <1>5. first[0] = 0
    OBVIOUS
  <1>6. \A i \in D : i # 0 => i - 1 \in D /\ down[i] = i - 1 /\ i \notin Base
    OBVIOUS
  <1>7. 0 \in Base
    OBVIOUS
  <1> HIDE DEF then, first, down, Base
  <1>8. PICK f \in [D -> Nat] : ByAll(f, D, Base, down, first, then)
    BY <1>1, <1>2, <1>4, RecursionExists
  <1> DEFINE F(i) == IF i = 0 THEN 0 ELSE 10 * f[i - 1] + DigitValue[body[i]]
  <1>9. \A i \in D : f[i] = F(i)
    <2> TAKE i \in D
    <2>1. f[i] = IF i \in Base THEN first[i] ELSE then[<<i, f[down[i]]>>]
      BY <1>8 DEF ByAll, By
    <2>2. CASE i = 0
      BY <2>1, <2>2, <1>5, <1>7
    <2>3. CASE i # 0
      <3>1. f[i] = then[<<i, f[i - 1]>>] /\ f[i - 1] \in Nat
        BY <2>1, <2>3, <1>6
      <3> HIDE DEF D
      <3> QED BY <3>1, <2>3, <1>3
    <2> QED BY <2>2, <2>3
  <1>10. f = [i \in D |-> F(i)]
    <2> HIDE DEF F, D
    <2> QED BY <1>9
  <1>11. Values(n, body, f)
    BY <1>10 DEF Values
  <1> QED BY <1>11

LEMMA ValueIsNat ==
  ASSUME NEW n \in Nat, NEW body, \A i \in 1 .. n : body[i] \in Decimals,
         NEW v, Values(n, body, v)
  PROVE  v[n] \in Nat
  <1> DEFINE F(i) == IF i = 0 THEN 0 ELSE 10 * v[i - 1] + DigitValue[body[i]]
             Bad == {i \in 0 .. n : v[i] \notin Nat}
  <1>1. \A i \in 0 .. n : v[i] = F(i)
    <2>1. v = [i \in 0 .. n |-> F(i)]
      BY DEF Values
    <2> HIDE DEF F
    <2> QED BY <2>1
  <1>2. SUFFICES ASSUME Bad # {} PROVE FALSE
    OBVIOUS
  <1>3. PICK k \in Bad : \A m \in Bad : k <= m
    <2>1. Bad \in SUBSET Nat
      OBVIOUS
    <2> HIDE DEF Bad
    <2> QED BY <1>2, <2>1, LeastExists
  <1>4. CASE k = 0
    BY <1>1, <1>3, <1>4
  <1>5. CASE k # 0
    <2>1. k - 1 \in 0 .. n /\ k \in 1 .. n /\ ~(k <= k - 1)
      BY <1>3, <1>5
    <2>2. v[k - 1] \in Nat /\ DigitValue[body[k]] \in Nat
      BY <2>1, <1>3, DigitIsNat
    <2>3. v[k] = 10 * v[k - 1] + DigitValue[body[k]]
      BY <2>1, <1>1, <1>5
    <2>4. v[k] \in Nat
      BY <2>2, <2>3
    <2> QED BY <2>4, <1>3
  <1> QED BY <1>4, <1>5

LEMMA AtoiIsInt ==
  ASSUME NEW s \in Text
  PROVE  Atoi(s) \in Int
  <1> DEFINE body == IF s # <<>> /\ s[1] \in {"-", "+"} THEN Tail(s) ELSE s
             others == {i \in 1 .. Len(body) : body[i] \notin Decimals}
             n == IF others = {} THEN Len(body) ELSE First(others) - 1
             v == CHOOSE w : Values(n, body, w)
  <1>1. Atoi(s) = IF s # <<>> /\ s[1] = "-" THEN -v[n] ELSE v[n]
    BY DEF Atoi, Where, Decimals, Values
  <1>2. body \in Seq(Symbol) /\ Len(body) \in Nat
    <2>1. s \in Seq(Symbol)
      BY DEF Text
    <2>2. s # <<>> => Tail(s) \in Seq(Symbol)
      BY <2>1, HeadTailProperties
    <2>3. body \in Seq(Symbol)
      BY <2>1, <2>2
    <2> QED BY <2>3, LenProperties
  <1> HIDE DEF v, body
  <1>3. n \in Nat /\ \A i \in 1 .. n : body[i] \in Decimals
    <2>1. CASE others = {}
      BY <2>1, <1>2
    <2>2. CASE others # {}
      <3>1. others \in SUBSET Nat /\ others \subseteq 1 .. Len(body)
        BY <1>2
      <3> DEFINE x == First(others)
      <3> HIDE DEF others
      <3>2. x \in others /\ \A j \in others : x <= j
        BY <2>2, <3>1, FirstIs
      <3> HIDE DEF x
      <3>3. n = x - 1
        BY <2>2 DEF x
      <3>4. x \in 1 .. Len(body)
        BY <3>1, <3>2
      <3>5. ASSUME NEW i \in 1 .. x - 1 PROVE body[i] \in Decimals
        <4>1. i \in 1 .. Len(body) /\ ~(x <= i)
          BY <3>4, <1>2
        <4> QED BY <4>1, <3>2 DEF others
      <3> HIDE DEF n
      <3> QED BY <3>3, <3>4, <3>5, <1>2
    <2> QED BY <2>1, <2>2
  <1> HIDE DEF n
  <1>4. Values(n, body, v)
    BY <1>3, ValuesExist DEF v
  <1>5. v[n] \in Nat
    BY <1>3, <1>4, ValueIsNat
  <1> HIDE DEF v
  <1> QED BY <1>1, <1>5

LEMMA IntDefaultIsInt ==
  ASSUME NEW list \in Seq(ItemType), NEW name, NEW def \in Int
  PROVE  GetIntDefault(list, name, def) \in Int
  <1> DEFINE S == Named(list, name)
             k == First(S)
  <1>1. GetIntDefault(list, name, def) = IF S = {} THEN def ELSE Atoi(list[k].content)
    BY DEF GetIntDefault
  <1>2. CASE S = {}
    BY <1>1, <1>2
  <1>3. CASE S # {}
    <2>1. S \subseteq 1 .. Len(list) /\ Len(list) \in Nat
      BY LenProperties DEF Named
    <2> HIDE DEF S
    <2>2. k \in S
      <3>1. S \in SUBSET Nat
        BY <2>1
      <3> QED BY <1>3, <3>1, FirstIs
    <2> HIDE DEF k
    <2>3. list[k] \in ItemType
      BY <2>1, <2>2, ElementOfSeq
    <2>4. list[k].content \in Text
      BY <2>3 DEF ItemType
    <2>5. Atoi(list[k].content) \in Int
      BY <2>4, AtoiIsInt
    <2> QED BY <1>1, <1>3, <2>5
  <1> QED BY <1>2, <1>3

-----------------------------------------------------------------------------
(* How much of the file has been read, and what has come of it.            *)
Done == Len(file) - Len(unread)
UpTo(f, i) == {j \in ItemLines(f) : j <= i}
ShortLines(f) == \A i \in Starts(f) : Len(LineAt(f, i)) < LineMax

ConfInv ==
    /\ file \in Files /\ items \in Seq(ItemType) /\ level \in Int
    /\ Done \in 0 .. Len(file) /\ unread = SubSeq(file, Done + 1, Len(file))
    /\ pc # "load" => unread = <<>>

(* list is what the lines of f that begin before r + 1 say.                *)
Exact(f, r, list) ==
    /\ r < Len(f) => r + 1 \in Starts(f)
    /\ Len(list) = Cardinality(UpTo(f, r))
    /\ \A i \in ItemLines(f) :
          i <= r => IsItem(list[Cardinality(UpTo(f, i))], LineAt(f, i))

ItemsInv == ShortLines(file) => Exact(file, Done, items)

LoadInv == ConfInv /\ ItemsInv

LEMMA FilesAreTexts ==
  ASSUME NEW f \in Files
  PROVE  f \in Text /\ Len(f) \in Nat
  <1>1. f \in Seq(Symbol)
    BY LogAssumption DEF Symbol
  <1> QED BY <1>1, LenProperties DEF Text

LEMMA UpToFinite ==
  ASSUME NEW f \in Text, NEW i \in Nat
  PROVE  /\ IsFiniteSet(UpTo(f, i)) /\ Cardinality(UpTo(f, i)) \in Nat
         /\ ItemLines(f) \subseteq 1 .. Len(f)
         /\ ItemLines(f) \subseteq Starts(f)
  <1>1. Len(f) \in Nat
    BY LenProperties DEF Text
  <1>2. ItemLines(f) \subseteq 1 .. Len(f) /\ ItemLines(f) \subseteq Starts(f)
    BY DEF ItemLines, Starts
  <1>3. UpTo(f, i) \subseteq 1 .. Len(f)
    BY <1>2 DEF UpTo
  <1>4. IsFiniteSet(1 .. Len(f))
    BY <1>1, FS_Interval
  <1>5. IsFiniteSet(UpTo(f, i))
    BY <1>3, <1>4, FS_Subset
  <1> QED BY <1>2, <1>5, FS_CardinalityType

(* One more line is read.                                                  *)
LEMMA NextLine ==
  ASSUME NEW f \in Text, NEW list \in Seq(ItemType), NEW r \in Nat, NEW q \in Nat,
         r < q, q <= Len(f), NEW line \in Text, line # <<>>, line[1] = f[r + 1],
         LineAt(f, r + 1) = line, \A i \in r + 1 .. q - 1 : f[i] # "nl",
         q = Len(f) \/ f[q] = "nl",
         Exact(f, r, list)
  PROVE  Exact(f, q, list \o ItemsOf(line))
  <1> DEFINE s == r + 1
             before == UpTo(f, r)
  <1>1. /\ Len(f) \in Nat /\ s \in Nat /\ s \in 1 .. Len(f) /\ s <= q /\ ~(s <= r)
        /\ \A i \in Nat : i < s <=> i <= r
    BY LenProperties DEF Text
  <1>2. s \in Starts(f) /\ Len(list) = Cardinality(before)
        /\ \A i \in ItemLines(f) :
              i <= r => IsItem(list[Cardinality(UpTo(f, i))], LineAt(f, i))
    BY <1>1 DEF Exact
  <1>3. q < Len(f) => q + 1 \in Starts(f)
    <2> SUFFICES ASSUME q < Len(f) PROVE q + 1 \in Starts(f)
      OBVIOUS
    <2>1. q + 1 \in 1 .. Len(f) /\ (q + 1) - 1 = q /\ f[q] = "nl"
      BY <1>1
    <2> QED BY <2>1 DEF Starts
  <1>4. \A i \in ItemLines(f) : i <= q => i <= s
    <2> SUFFICES ASSUME NEW i \in ItemLines(f), i <= q, ~(i <= s) PROVE FALSE
      OBVIOUS
    <2>1. i \in 1 .. Len(f) /\ i \in Starts(f)
      BY UpToFinite
    <2>2. i - 1 \in r + 1 .. q - 1 /\ i # 1
      BY <2>1, <1>1
    <2>3. f[i - 1] = "nl"
      BY <2>1, <2>2 DEF Starts
    <2> QED BY <2>2, <2>3
  <1>5. s \in ItemLines(f) <=> IsItemLine(line)
    BY <1>2 DEF ItemLines, IsItemLine
  <1>6. /\ IsFiniteSet(before) /\ Cardinality(before) \in Nat
        /\ ItemLines(f) \subseteq 1 .. Len(f)
    BY UpToFinite
  <1> HIDE DEF s, before
  <1>7. CASE ~IsItemLine(line)
    <2>1. list \o ItemsOf(line) = list
      <3>1. ItemsOf(line) = <<>>
        BY <1>7, OneItem
      <3> QED BY <3>1, ConcatEmptySeq
    <2>2. ASSUME NEW i \in ItemLines(f), i <= q PROVE i <= r
      <3>1. i <= s /\ i # s /\ i \in Nat
        BY <2>2, <1>4, <1>5, <1>6, <1>7
      <3> QED BY <3>1, <1>1
    <2>3. UpTo(f, q) = before
      <3>1. ASSUME NEW i \in ItemLines(f) PROVE i <= q <=> i <= r
        <4>1. i \in Nat
          BY <1>6
        <4> QED BY <4>1, <2>2
      <3> QED BY <3>1 DEF UpTo, before
    <2> QED BY <1>2, <1>3, <2>1, <2>2, <2>3 DEF Exact
  <1>8. CASE IsItemLine(line)
    <2>1. PICK item \in ItemType : ItemsOf(line) = <<item>> /\ IsItem(item, line)
      BY <1>8, OneItem
    <2> DEFINE longer == list \o ItemsOf(line)
               c == Cardinality(before)
    <2>2. Len(longer) = c + 1 /\ longer[c + 1] = item
          /\ \A i \in 1 .. c : longer[i] = list[i]
      <3> DEFINE t == <<item>>
      <3>1. t \in Seq(ItemType) /\ Len(t) = 1 /\ t[1] = item
        OBVIOUS
      <3> HIDE DEF t
      <3>2. /\ Len(list \o t) = Len(list) + Len(t)
            /\ \A i \in 1 .. Len(list) + Len(t) :
                  (list \o t)[i] = IF i <= Len(list) THEN list[i] ELSE t[i - Len(list)]
        <4>1. list \in Seq(ItemType) /\ t \in Seq(ItemType)
          BY <3>1
        <4> HIDE DEF longer, c
        <4> QED BY <4>1, ConcatProperties
      <3>3. longer = list \o t
        BY <2>1 DEF t
      <3> HIDE DEF longer, c
      <3>4. c + 1 \in 1 .. c + 1 /\ (c + 1) - c = 1 /\ ~(c + 1 <= c) /\ Len(list) = c
            /\ \A i \in 1 .. c : i \in 1 .. c + 1 /\ i <= c
        BY <1>2, <1>6 DEF c
      <3> QED BY <3>1, <3>2, <3>3, <3>4
    <2>3. s \in ItemLines(f)
      BY <1>5, <1>8
    <2>4. UpTo(f, q) = before \cup {s} /\ UpTo(f, s) = before \cup {s} /\ s \notin before
      <3>1. ASSUME NEW i \in ItemLines(f)
            PROVE  (i <= q <=> i <= r \/ i = s) /\ (i <= s <=> i <= r \/ i = s)
        <4>1. i \in Nat
          BY <1>6
        <4>2. i <= q => i <= s
          BY <1>4
        <4> QED BY <4>1, <4>2, <1>1
      <3> QED BY <3>1, <2>3, <1>1 DEF UpTo, before
    <2>5. Cardinality(before \cup {s}) = c + 1
      BY <1>6, <2>4, FS_AddElement
    <2> HIDE DEF longer, c
    <2>6. ASSUME NEW i \in ItemLines(f), i <= q
          PROVE  IsItem(longer[Cardinality(UpTo(f, i))], LineAt(f, i))
      <3>1. CASE i = s
        BY <3>1, <2>1, <2>2, <2>4, <2>5 DEF s
      <3>2. CASE i # s
        <4>1. i \in Nat /\ i <= r
          BY <1>1, <1>4, <1>6, <2>6, <3>2
        <4>2. UpTo(f, i) \subseteq before
          <5>1. \A j \in ItemLines(f) : j <= i => j <= r
            BY <4>1, <1>6
          <5> QED BY <5>1 DEF UpTo, before
        <4>3. Cardinality(UpTo(f, i)) \in 1 .. c
          <5>1. Cardinality(UpTo(f, i)) <= c /\ Cardinality(UpTo(f, i)) \in Nat
            BY <4>1, <4>2, <1>6, UpToFinite, FS_Subset DEF c
          <5>2. i \in UpTo(f, i)
            BY <4>1 DEF UpTo
          <5>3. Cardinality(UpTo(f, i)) # 0
            BY <4>1, <5>2, UpToFinite, FS_EmptySet
          <5> QED BY <5>1, <5>3
        <4> QED BY <4>1, <4>3, <1>2, <2>2
      <3> QED BY <3>1, <3>2
    <2> QED BY <1>3, <2>2, <2>4, <2>5, <2>6 DEF Exact, longer
  <1> QED BY <1>7, <1>8

LEMMA LoadInit ==
  ASSUME Init
  PROVE  LoadInv
  <1>1. /\ file \in Files /\ unread = file /\ items = <<>> /\ level = 0 /\ pc = "load"
    BY DEF Init
  <1>2. file \in Seq(Symbol) /\ Len(file) \in Nat /\ file \in Text
    BY <1>1, FilesAreTexts DEF Text
  <1>3. Done = 0
    BY <1>1, <1>2 DEF Done
  <1>4. unread = SubSeq(file, Done + 1, Len(file))
    <2>1. SubSeq(file, 1, Len(file)) = file
      BY <1>2, WholePart
    <2> QED BY <1>1, <1>3, <2>1
  <1>5. items \in Seq(ItemType) /\ Len(items) = 0
    BY <1>1, EmptySeq
  <1>6. ConfInv
    BY <1>1, <1>2, <1>3, <1>4, <1>5 DEF ConfInv
  <1>7. \A i \in ItemLines(file) : ~(i <= 0)
    BY <1>2, UpToFinite
  <1>8. UpTo(file, 0) = {}
    BY <1>7 DEF UpTo
  <1>9. 0 < Len(file) => 0 + 1 \in Starts(file)
    BY <1>2 DEF Starts
  <1>10. ItemsInv
    BY <1>3, <1>5, <1>7, <1>8, <1>9, FS_EmptySet DEF ItemsInv, Exact
  <1> QED BY <1>6, <1>10 DEF LoadInv

LEMMA ReadLineKeeps ==
  ASSUME LoadInv, ReadLine
  PROVE  LoadInv'
  <1> DEFINE r == Done
             l == Len(file)
             n == LineLength(unread)
             line == SubSeq(unread, 1, n)
  <1>1. /\ pc = "load" /\ unread # <<>> /\ items' = items \o ItemsOf(line)
        /\ unread' = SubSeq(unread, n + 1, Len(unread))
        /\ file' = file /\ level' = level /\ pc' = pc
    BY DEF ReadLine
  <1>2. /\ file \in Files /\ items \in Seq(ItemType) /\ level \in Int
        /\ r \in 0 .. l /\ unread = SubSeq(file, r + 1, l)
    BY DEF LoadInv, ConfInv
  <1>3. file \in Text /\ l \in Nat
    BY <1>2, FilesAreTexts
  <1>4. r < l
    <2> SUFFICES ASSUME r = l PROVE FALSE
      BY <1>2, <1>3
    <2>1. SubSeq(file, l + 1, l) = <<>>
      BY <1>3, SubSeqEmpty
    <2> HIDE DEF r, l
    <2> QED BY <2>1, <1>1, <1>2
  <1> HIDE DEF r
  <1>5. /\ n \in 1 .. l - r /\ Len(unread) = l - r
        /\ line = SubSeq(file, r + 1, r + n)
        /\ SubSeq(unread, n + 1, Len(unread)) = SubSeq(file, r + n + 1, l)
        /\ Len(LineAt(file, r + 1)) < LineMax =>
              /\ LineAt(file, r + 1) = SubSeq(file, r + 1, r + n)
              /\ \A i \in r + 1 .. r + n - 1 : file[i] # "nl"
              /\ r + n = l \/ file[r + n] = "nl"
    BY <1>2, <1>3, <1>4, LineRead
  <1> HIDE DEF n, line
  <1> DEFINE q == r + n
             s == r + 1
  <1>6. q \in 0 .. l /\ r < q /\ s \in 1 .. l /\ s <= q /\ q - s + 1 = n /\ q \in Nat
    BY <1>2, <1>3, <1>5
  <1>7. Done' = q
    <2>1. Len(SubSeq(file, q + 1, l)) = l - q
      <3> DEFINE a == q + 1
      <3>1. a \in Nat \ {0} /\ a <= l + 1 /\ l - a + 1 = l - q /\ file \in Seq(Symbol)
        BY <1>3, <1>6 DEF Text
      <3> HIDE DEF a, q
      <3>2. Len(SubSeq(file, a, l)) = l - a + 1
        BY <1>3, <3>1, PartIs
      <3> QED BY <3>1, <3>2 DEF a
    <2>2. Len(unread') = l - q
      BY <2>1, <1>1, <1>5
    <2> QED BY <2>2, <1>1, <1>3, <1>6 DEF Done
  <1>8. line \in Text /\ line # <<>> /\ line[1] = file[s] /\ Len(line) = n
    <2> DEFINE p == SubSeq(file, s, q)
    <2>1. /\ p \in Seq(Symbol) /\ Len(p) = q - s + 1
          /\ \A i \in 1 .. q - s + 1 : p[i] = file[s + i - 1]
      <3>1. s \in Nat \ {0} /\ s <= q + 1 /\ q <= Len(file) /\ file \in Seq(Symbol)
        BY <1>3, <1>6 DEF Text
      <3> HIDE DEF s, q
      <3> QED BY <1>6, <3>1, PartIs
    <2>2. line = p
      BY <1>5
    <2> HIDE DEF p
    <2>3. 1 \in 1 .. q - s + 1 /\ s + 1 - 1 = s
      BY <1>5, <1>6
    <2>4. Len(line) = n /\ line[1] = file[s]
      BY <2>1, <2>2, <2>3, <1>6
    <2>5. line # <<>>
      <3>1. Len(line) # 0
        BY <2>4, <1>5
      <3> QED BY <3>1
    <2> QED BY <2>1, <2>2, <2>4, <2>5 DEF Text
  <1>9. ItemsOf(line) \in Seq(ItemType)
    <2>1. CASE ~IsItemLine(line)
      BY <2>1, <1>8, OneItem, EmptySeq
    <2>2. CASE IsItemLine(line)
      <3>1. PICK item \in ItemType : ItemsOf(line) = <<item>>
        BY <2>2, <1>8, OneItem
      <3> QED BY <3>1
    <2> QED BY <2>1, <2>2
  <1>10. items \o ItemsOf(line) \in Seq(ItemType)
    BY <1>2, <1>9, ConcatProperties
  <1>11. ConfInv'
    BY <1>1, <1>2, <1>5, <1>6, <1>7, <1>10 DEF ConfInv
  <1>12. ASSUME ShortLines(file) PROVE Exact(file, q, items \o ItemsOf(line))
    <2>1. Exact(file, r, items)
      BY <1>12 DEF LoadInv, ItemsInv, r
    <2>2. Len(LineAt(file, r + 1)) < LineMax
      BY <2>1, <1>4, <1>12 DEF Exact, ShortLines
    <2>3. /\ LineAt(file, r + 1) = line
          /\ \A i \in r + 1 .. q - 1 : file[i] # "nl"
          /\ q = Len(file) \/ file[q] = "nl"
      <3>1. /\ LineAt(file, r + 1) = SubSeq(file, r + 1, r + n)
            /\ \A i \in r + 1 .. r + n - 1 : file[i] # "nl"
            /\ r + n = l \/ file[r + n] = "nl"
        BY <2>2, <1>5
      <3>2. LineAt(file, r + 1) = line
        BY <3>1, <1>5
      <3>3. q = Len(file) \/ file[q] = "nl"
        BY <3>1
      <3>4. \A i \in r + 1 .. q - 1 : file[i] # "nl"
        <4>1. \A i \in r + 1 .. r + n - 1 : file[i] # "nl"
          BY <3>1
        <4>2. q - 1 = r + n - 1
          BY <1>2, <1>3, <1>5
        <4> HIDE DEF q
        <4> QED BY <4>1, <4>2
      <3> HIDE DEF q
      <3> QED BY <3>2, <3>3, <3>4
    <2>4. r \in Nat /\ q \in Nat /\ r < q /\ q <= Len(file) /\ line[1] = file[r + 1]
      BY <1>2, <1>3, <1>6, <1>8
    <2> HIDE DEF q
    <2> QED BY <2>1, <2>3, <2>4, <1>2, <1>3, <1>8, NextLine
  <1>13. ItemsInv'
    BY <1>1, <1>7, <1>12 DEF ItemsInv
  <1> QED BY <1>11, <1>13 DEF LoadInv

LEMMA LogInitKeepsLoad ==
  ASSUME LoadInv, LogInit
  PROVE  LoadInv'
  <1>1. /\ pc = "load" /\ unread = <<>> /\ level' = GetIntDefault(items, LevelName, QC_LOG_NOTICE)
        /\ file' = file /\ unread' = unread /\ items' = items
    BY DEF LogInit
  <1>2. level' \in Int
    <2>1. items \in Seq(ItemType) /\ QC_LOG_NOTICE \in Int
      BY DEF LoadInv, ConfInv, QC_LOG_NOTICE
    <2> QED BY <2>1, <1>1, IntDefaultIsInt
  <1>3. Done' = Done
    BY <1>1 DEF Done
  <1>4. ConfInv'
    BY <1>1, <1>2, <1>3 DEF LoadInv, ConfInv
  <1>5. ItemsInv'
    BY <1>1, <1>3 DEF LoadInv, ItemsInv
  <1> QED BY <1>4, <1>5 DEF LoadInv

LEMMA OthersKeepLoad ==
  ASSUME LoadInv, Call \/ Format \/ WriteLog \/ WriteStderr \/ UNCHANGED vars
  PROVE  LoadInv'
  <1>1. /\ file' = file /\ unread' = unread /\ items' = items /\ level' = level
        /\ pc' = "load" <=> pc = "load"
    <2>1. CASE Call
      BY <2>1 DEF Call, confVars
    <2>2. CASE Format
      BY <2>2 DEF Format, confVars
    <2>3. CASE WriteLog
      BY <2>3 DEF WriteLog, Formatted, confVars
    <2>4. CASE WriteStderr
      BY <2>4 DEF WriteStderr, Formatted, confVars
    <2>5. CASE UNCHANGED vars
      BY <2>5 DEF vars, confVars
    <2> QED BY <2>1, <2>2, <2>3, <2>4, <2>5
  <1>2. Done' = Done
    BY <1>1 DEF Done
  <1>3. ConfInv'
    BY <1>1, <1>2 DEF LoadInv, ConfInv
  <1>4. ItemsInv'
    BY <1>1, <1>2 DEF LoadInv, ItemsInv
  <1> QED BY <1>3, <1>4 DEF LoadInv

LEMMA LoadStep ==
  ASSUME LoadInv, [Next]_vars
  PROVE  LoadInv'
  BY ReadLineKeeps, LogInitKeepsLoad, OthersKeepLoad DEF Next

LEMMA LoadAlways == Spec => []LoadInv
  BY LoadInit, LoadStep, PTL DEF Spec

(* The state of the program that reads its configuration and logs: what    *)
(* fgets has to read is the end of the file, every item has a name and a   *)
(* content, and the buffer never overflows.                                *)
THEOREM TypeCorrect == Spec => []TypeOK
  <1>1. ASSUME LoadInv, LogInv PROVE TypeOK
    <2>1. pc \in {"load", "ready", "format"} /\ fd \in BOOLEAN /\ (pc = "load" => call = NoCall)
      BY <1>1 DEF LogInv, CallInv
    <2>2. Len(text) <= MaxErrorStr
      BY <1>1, Constants, CutProperties DEF LogInv, TextInv
    <2>3. /\ file \in Files /\ level \in Int /\ items \in Seq(ItemType)
          /\ Done \in 0 .. Len(file) /\ unread = SubSeq(file, Done + 1, Len(file))
      BY <1>1 DEF LoadInv, ConfInv
    <2>4. Len(unread) <= Len(file) /\ Len(file) - Len(unread) + 1 = Done + 1
      <3>1. Len(file) \in Nat /\ Len(file) - Len(unread) \in 0 .. Len(file)
        BY <2>3, FilesAreTexts DEF Done
      <3>2. Len(unread) \in Nat
        <4> DEFINE a == Done + 1
                   l == Len(file)
        <4>1. a \in Nat \ {0} /\ a <= l + 1 /\ l <= Len(file) /\ l \in Nat /\ file \in Seq(Symbol)
          BY <2>3, FilesAreTexts DEF Text
        <4>2. unread = SubSeq(file, a, l)
          BY <2>3
        <4> HIDE DEF a, l
        <4>3. unread \in Seq(Symbol)
          BY <4>1, <4>2, PartIs
        <4> QED BY <4>3, LenProperties
      <3> QED BY <3>1, <3>2 DEF Done
    <2>5. ASSUME NEW i \in 1 .. Len(items) PROVE DOMAIN items[i] = {"name", "content"}
      <3>1. items[i] \in ItemType
        BY <2>3, ElementOfSeq
      <3> QED BY <3>1 DEF ItemType
    <2> QED BY <2>1, <2>2, <2>3, <2>4, <2>5 DEF TypeOK
  <1> QED BY <1>1, LoadAlways, LogAlways, PTL

(* CConfig::Load: the items are those the lines of the file give, in its   *)
(* order, for any file without lines too long for fgets.                   *)
THEOREM ItemsRight == Spec => []ItemsExact
  <1>1. ASSUME LoadInv PROVE ItemsExact
    <2> SUFFICES ASSUME pc # "load", ShortLines(file)
                 PROVE  /\ Len(items) = Cardinality(ItemLines(file))
                        /\ \A i \in ItemLines(file) :
                              IsItem(items[Cardinality({j \in ItemLines(file) : j <= i})],
                                     LineAt(file, i))
      BY DEF ItemsExact, ShortLines
    <2>1. file \in Text /\ Len(file) \in Nat /\ unread = <<>>
      BY <1>1, FilesAreTexts DEF LoadInv, ConfInv
    <2>2. Done = Len(file)
      BY <2>1 DEF Done
    <2>3. Exact(file, Len(file), items)
      BY <1>1, <2>2 DEF LoadInv, ItemsInv
    <2>4. \A i \in ItemLines(file) : i <= Len(file)
      BY <2>1, UpToFinite
    <2>5. UpTo(file, Len(file)) = ItemLines(file)
      BY <2>4 DEF UpTo
    <2> QED BY <2>3, <2>4, <2>5 DEF Exact, UpTo
  <1> QED BY <1>1, LoadAlways, PTL
=============================================================================
