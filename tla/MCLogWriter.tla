---------------------------- MODULE MCLogWriter -----------------------------
(* LogWriter with all short files, some with other characters, and lines   *)
(* of up to two pieces, around every limit.                                *)
EXTENDS LogWriter

MCChar == {LowerCase[i] : i \in 1..16} \cup {UpperCase[i] : i \in 1..16}
          \cup {"sp", "-", ".", "h", "q", "x", "y", "l", "n", "L", "=", "#", "[", ";", "tab", "cr"}

MCName == <<"l", "n">>

MCSeqs(S, n) == UNION {[1..k -> S] : k \in 0..n}

MCLoggingFiles == {<<>>, <<"L", "n", "=", "3">>}
MCFiles == MCLoggingFiles \cup MCSeqs({"sp", "=", "l", "3", "nl"}, 5)
           \cup {<<a, "l", b, "=", "3", c>> : a \in {"#", "[", ";", "tab", "sp", "L"},
                                             b \in {"tab", "sp", "n", "="},
                                             c \in {"cr", "nl", "tab", "sp", "="}}

Lit == {[conv |-> "lit", arg |-> "x"]}
Str == {[conv |-> "s", arg |-> Repeat("y", n)] : n \in {0, 1, 3}}
Signed == {[conv |-> "d", arg |-> n, width |-> w, zero |-> z, hex |-> 0] :
              n \in {-10, -1, 0, 7, 123}, w \in {0, 2, 4}, z \in {"sp", "0"}}
Unsigneds == {[conv |-> "u", arg |-> n, width |-> w, zero |-> z, hex |-> h] :
              n \in {0, 9, 26, 255, 4096}, w \in {0, 3}, z \in {"sp", "0"}, h \in 0..2}
Doubles == {[conv |-> "f", arg |-> f, width |-> w, zero |-> "sp", frac |-> d] :
              f \in {-1996, -4, 0, 50, 537, 12999}, w \in {0, 2}, d \in 0..2}
Pieces == Lit \cup Str \cup Signed \cup Unsigneds \cup Doubles

MCCalls == {[by |-> b, level |-> 4, err |-> e, fmt |-> f] :
              b \in {"core", "stderr"}, e \in BOOLEAN,
              f \in {<<p>> : p \in Pieces} \cup {<<p, q>> : p \in Str \cup Doubles, q \in Pieces}}
=============================================================================
