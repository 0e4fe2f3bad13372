------------------------------- MODULE Printf -------------------------------
(***************************************************************************)
(* qc_vslprintf and qc_sprintf_num: text is a sequence of characters, a    *)
(* buffer is what has been written to it so far, and room is how many      *)
(* characters fit before last.  A piece of the format is a record: what    *)
(* follows the percent sign, read into the flags of the code, with its     *)
(* argument.                                                               *)
(*                                                                         *)
(* "lit" is a character of the format (also %%, and a letter the switch    *)
(* does not know), "s" a string, "d" a signed number (%d, %i, %L, %P), "u" *)
(* an unsigned one (%ud, %ui, %uL, %xd, %Xd, %p), "f" a double, whose      *)
(* argument is given in thousandths.  The most negative int64_t, whose     *)
(* negation overflows, is not a number here.  "sp" is the space.           *)
(***************************************************************************)
EXTENDS Integers, Sequences

CONSTANT Char           \* bound: the characters of a text on one line

Piece ==
    [conv : {"lit"}, arg : Char] \cup [conv : {"s"}, arg : Seq(Char)]
    \cup [conv : {"d"}, arg : Int, width : Nat, zero : {"sp", "0"}, hex : {0}]
    \cup [conv : {"u"}, arg : Nat, width : Nat, zero : {"sp", "0"}, hex : 0..2]
    \cup [conv : {"f"}, arg : Int, width : Nat, zero : {"sp", "0"}, frac : Nat]

LowerCase == <<"0", "1", "2", "3", "4", "5", "6", "7", "8", "9",
               "a", "b", "c", "d", "e", "f">>
UpperCase == <<"0", "1", "2", "3", "4", "5", "6", "7", "8", "9",
               "A", "B", "C", "D", "E", "F">>

ASSUME CharAssumption ==
    /\ {LowerCase[i] : i \in 1..16} \cup {UpperCase[i] : i \in 1..16} \subseteq Char
    /\ {"sp", "-", "."} \subseteq Char /\ "nl" \notin Char

Lower(a, b) == IF a <= b THEN a ELSE b
Cut(s, room) == SubSeq(s, 1, Lower(Len(s), room))
Repeat(c, n) == [i \in 1..n |-> c]

(* Mutant: while in place of do ... while.                                 *)
DigitsToWhile(base) ==
    LET d[n \in Nat] == IF n = 0 THEN <<>> ELSE Append(d[n \div base], n % base)
    IN d

(* The digits of a number, as the do-while loops put them into temp.       *)
DigitsTo(base) ==
    LET d[n \in Nat] == (IF n < base THEN <<>> ELSE d[n \div base]) \o <<n % base>>
    IN d

Numeral(n, hex) ==
    LET digits == DigitsTo(IF hex = 0 THEN 10 ELSE 16)[n]
        chars == IF hex = 2 THEN UpperCase ELSE LowerCase
    IN [i \in 1..Len(digits) |-> chars[digits[i] + 1]]

(* Mutant: the padding does not look at last.                              *)
SprintfNumUnchecked(buf, room, n, zero, hex, width) ==
    LET text == Numeral(n, hex)
        padded == IF Len(text) < width THEN buf \o Repeat(zero, width - Len(text)) ELSE buf
    IN padded \o Cut(text, Lower(Len(text), IF room > Len(padded) THEN room - Len(padded) ELSE 0))

(* Padding up to width while there is room, then as much of the number as  *)
(* fits.                                                                   *)
SprintfNum(buf, room, n, zero, hex, width) ==
    LET text == Numeral(n, hex)
        padded == IF Len(text) < width
                  THEN Cut(buf \o Repeat(zero, width - Len(text)), room)
                  ELSE buf
    IN padded \o Cut(text, room - Len(padded))

Abs(n) == IF n < 0 THEN -n ELSE n

(* One over the unit of the last decimal, by the loop of the code.         *)
Scale ==
    LET s[decimals \in Nat] == IF decimals = 0 THEN 1 ELSE s[decimals - 1] * 10
    IN s

(* Mutant: the carry is forgotten.                                         *)
RoundPartsNoCarry(f, decimals) ==
    IF decimals = 0 THEN <<f \div 1000, 0>>
    ELSE <<f \div 1000, ((f % 1000) * Scale[decimals] + 500) \div 1000>>

(* %f: integer part and rounded fraction of f thousandths, for the number  *)
(* of decimals asked for; the fraction may carry.                          *)
RoundParts(f, decimals) ==
    LET whole == f \div 1000
        frac == ((f % 1000) * Scale[decimals] + 500) \div 1000
    IN IF decimals = 0 THEN <<whole, 0>>
       ELSE IF frac = Scale[decimals] THEN <<whole + 1, 0>> ELSE <<whole, frac>>

SprintfFloat(buf, room, item) ==
    LET signed == IF item.arg < 0 THEN Append(buf, "-") ELSE buf
        parts == RoundParts(Abs(item.arg), item.frac)
        whole == SprintfNum(signed, room, parts[1], item.zero, 0, item.width)
        dotted == IF Len(whole) < room THEN Append(whole, ".") ELSE whole
    IN IF item.frac = 0 THEN whole
       ELSE SprintfNum(dotted, room, parts[2], "0", 0, item.frac)

(* One round of the loop of qc_vslprintf, which is entered only if there   *)
(* is room for a character.                                                *)
Convert(buf, room, item) ==
    CASE item.conv = "lit" -> Append(buf, item.arg)
      [] item.conv = "s" -> Cut(buf \o item.arg, room)
      [] item.conv = "d" -> SprintfNum(IF item.arg < 0 THEN Append(buf, "-") ELSE buf, room,
                                       Abs(item.arg), item.zero, 0, item.width)
      [] item.conv = "u" -> SprintfNum(buf, room, item.arg, item.zero, item.hex, item.width)
      [] item.conv = "f" -> SprintfFloat(buf, room, item)

-----------------------------------------------------------------------------
(* What a converted piece means, for the properties: reading it back.      *)

CharValue(c) == CHOOSE v \in 0..15 : LowerCase[v + 1] = c \/ UpperCase[v + 1] = c

(* The value of the numeral t, padding and all.                            *)
ReadIn(base, t) ==
    LET r[i \in 0..Len(t)] ==
          IF i = 0 THEN 0
          ELSE IF t[i] = "sp" THEN r[i - 1] ELSE base * r[i - 1] + CharValue(t[i])
    IN r[Len(t)]

Unsigned(t) == IF t # <<>> /\ t[1] = "-" THEN Tail(t) ELSE t
IsNumeral(t) == t # <<>> /\ t[Len(t)] # "sp"

(* t is a correct text for the number piece item: its sign, then a numeral *)
(* of that value, at least as wide as asked, and wider only for digits     *)
(* that are needed.                                                        *)
ReadsAs(t, item) ==
    LET u == Unsigned(t)
        base == IF item.hex = 0 THEN 10 ELSE 16
    IN /\ (t # u) <=> item.arg < 0
       /\ IsNumeral(u)
       /\ ReadIn(base, u) = Abs(item.arg)
       /\ Len(u) >= item.width
       /\ Len(u) > item.width /\ Len(u) > 1 => u[1] \notin {"sp", "0"}

(* The same for %f: read without its point the text is the argument, in    *)
(* units of the last decimal, rounded to the nearest (halves up).          *)
ReadsAsFloat(t, item) ==
    LET u == Unsigned(t)
        point == Len(u) - item.frac
        digits == IF item.frac = 0 THEN u ELSE SubSeq(u, 1, point - 1) \o SubSeq(u, point + 1, Len(u))
    IN /\ (t # u) <=> item.arg < 0
       /\ item.frac > 0 => point > 1 /\ u[point] = "."
       /\ ReadIn(10, digits) = (IF item.frac = 0 THEN Abs(item.arg) \div 1000
                                ELSE (Abs(item.arg) * Scale[item.frac] + 500) \div 1000)
=============================================================================
