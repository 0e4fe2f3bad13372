-------------------------------- MODULE Conf --------------------------------
(***************************************************************************)
(* CConfig: the lines of quickcomm.conf become a list of items, which the  *)
(* rest of the program looks up by name.  A file is a sequence of          *)
(* characters; "nl", "cr", "tab" and "sp" are those that do not show.      *)
(* Names are shorter than the 50 characters of ItemName.                   *)
(***************************************************************************)
EXTENDS Integers, Sequences

CONSTANT LineMax        \* what fgets may store, 500 in the code

ASSUME ConfAssumption == LineMax \in Nat /\ LineMax > 1

Where(s, P(_)) == {i \in 1..Len(s) : P(s[i])}
First(S) == CHOOSE i \in S : \A j \in S : i <= j
Last(S) == CHOOSE i \in S : \A j \in S : i >= j

(* Mutant: the blanks at the start stay.                                   *)
LtrimNothing(s) == s

(* s without the characters in C at its end, at its start.                 *)
TrimEnd(s, C) ==
    LET kept == Where(s, LAMBDA c : c \notin C)
    IN IF kept = {} THEN <<>> ELSE SubSeq(s, 1, Last(kept))
Rtrim(s) == TrimEnd(s, {"sp"})
Ltrim(s) ==
    LET kept == Where(s, LAMBDA c : c # "sp")
    IN IF kept = {} THEN <<>> ELSE SubSeq(s, First(kept), Len(s))

(* fgets: up to and with the next newline, at most LineMax - 1 characters. *)
LineLength(text) ==
    LET ends == Where(text, LAMBDA c : c = "nl") \cup {Len(text)}
    IN IF First(ends) < LineMax THEN First(ends) ELSE LineMax - 1

Ignored == {";", "#", "sp", "tab", "nl"}     \* as the first character of a line

(* The items one line gives: one or none.                                  *)
ItemsOf(line) ==
    LET data == TrimEnd(line, {"nl", "cr", "sp"})
        signs == Where(data, LAMBDA c : c = "=")
    IN IF line[1] \in Ignored \/ data = <<>> \/ data[1] = "[" \/ signs = {} THEN <<>>
       ELSE <<[name |-> Ltrim(Rtrim(SubSeq(data, 1, First(signs) - 1))),
               content |-> Ltrim(Rtrim(SubSeq(data, First(signs) + 1, Len(data))))]>>

-----------------------------------------------------------------------------
(* Look-up.                                                                *)

(* strcasecmp folds the case of letters.                                   *)
Fold(c) == CASE c = "L" -> "l" [] c = "N" -> "n" [] OTHER -> c
SameName(a, b) == Len(a) = Len(b) /\ \A i \in 1..Len(a) : Fold(a[i]) = Fold(b[i])

Named(items, name) == {i \in 1..Len(items) : SameName(items[i].name, name)}

(* atoi of a content without its blanks: a sign, then digits while they    *)
(* last.                                                                   *)
DigitValue == [c \in {"0", "1", "2", "3", "4", "5", "6", "7", "8", "9"} |->
                 CHOOSE v \in 0..9 : <<"0", "1", "2", "3", "4", "5", "6", "7", "8", "9">>[v + 1] = c]
Atoi(s) ==
    LET body == IF s # <<>> /\ s[1] \in {"-", "+"} THEN Tail(s) ELSE s
        others == Where(body, LAMBDA c : c \notin DOMAIN DigitValue)
        n == IF others = {} THEN Len(body) ELSE First(others) - 1
        v[i \in 0..n] == IF i = 0 THEN 0 ELSE 10 * v[i - 1] + DigitValue[body[i]]
    IN IF s # <<>> /\ s[1] = "-" THEN -v[n] ELSE v[n]

GetIntDefault(items, name, def) ==
    IF Named(items, name) = {} THEN def ELSE Atoi(items[First(Named(items, name))].content)
=============================================================================
