----------------------------- MODULE LogWriter ------------------------------
(***************************************************************************)
(* The text side of the server as main drives it: CConfig::Load reads the  *)
(* file line by line, qc_log_init takes the level from it and opens the    *)
(* log, and then lines are written with qc_log_error_core or               *)
(* qc_log_stderr, which put a text together in a buffer of                 *)
(* QC_MAX_ERROR_STR characters, piece by piece, and end it with a newline  *)
(* whatever its length.                                                    *)
(*                                                                         *)
(* Time, level and process id, which start each line of the log, are       *)
(* HeaderLen characters; " (errno: text)" is ErrnoLen.                     *)
(***************************************************************************)
EXTENDS Printf, Conf, FiniteSets

CONSTANTS
    Files,          \* bound: contents of quickcomm.conf
    LoggingFiles,   \* bound: those after which lines are written to the log
    Calls,          \* bound: calls of the two functions, with their arguments
    LevelName,      \* "LogLevel"
    MaxErrorStr,    \* QC_MAX_ERROR_STR, 2048 in the code
    HeaderLen, PrefixLen, ErrnoLen,     \* "quickcomm: " is PrefixLen
    Unlimited       \* bound: more characters than any piece has

QC_LOG_STDERR == 0
QC_LOG_NOTICE == 6

CallType == [by : {"core", "stderr"}, level : 0..8, err : BOOLEAN, fmt : Seq(Piece)]

(* The whole text of the piece item.                                       *)
TextOf(item) == Convert(<<>>, Unlimited, item)

ASSUME LogAssumption ==
    /\ Files \subseteq Seq(Char \cup {"nl"}) /\ LoggingFiles \subseteq Files
    /\ {HeaderLen, PrefixLen, ErrnoLen} \subseteq Nat
    /\ MaxErrorStr \in Nat /\ MaxErrorStr >= HeaderLen + 2 /\ MaxErrorStr >= PrefixLen + 2
    /\ {"h", "q", "e"} \subseteq Char
    /\ Calls \subseteq CallType
    /\ Unlimited \in Nat /\ Unlimited >= MaxErrorStr
    /\ \A c \in Calls : \A i \in 1..Len(c.fmt) : Len(TextOf(c.fmt[i])) < Unlimited

VARIABLES
    pc,         \* what the program is doing
    file,       \* the whole file, for the properties
    unread,     \* what of it fgets has still to read
    items,      \* m_ConfigItemList
    level,      \* qc_log.log_level
    fd,         \* whether the log file is open
    call,       \* the call under way
    fmt,        \* what is left of its format
    text,       \* errstr up to p
    whole,      \* the same without a limit, for the properties
    piece,      \* the last piece converted and its whole text, for the properties
    log, err    \* what the last call wrote to the log file, to standard error

confVars == <<file, unread, items, level, fd>>
vars == <<confVars, pc, call, fmt, text, whole, piece, log, err>>

NoCall == [by |-> "nobody"]
NoPiece == [item |-> [conv |-> "none"], text |-> <<>>]
Newline == <<"nl">>
Suffix == Repeat("e", ErrnoLen)

Init ==
    /\ pc = "load"
    /\ file \in Files /\ unread = file /\ items = <<>>
    /\ level = 0 /\ fd = FALSE
    /\ call = NoCall /\ fmt = <<>> /\ text = <<>> /\ whole = <<>> /\ piece = NoPiece
    /\ log = <<>> /\ err = <<>>

-----------------------------------------------------------------------------
(* CConfig::Load and qc_log_init.                                          *)

(* One round of the loop of Load.                                          *)
ReadLine ==
    /\ pc = "load" /\ unread # <<>>
    /\ LET n == LineLength(unread)
       IN /\ items' = items \o ItemsOf(SubSeq(unread, 1, n))
          /\ unread' = SubSeq(unread, n + 1, Len(unread))
    /\ UNCHANGED <<file, level, fd, pc, call, fmt, text, whole, piece, log, err>>

(* qc_log_init; when the file cannot be opened it says so on standard      *)
(* error, which is left out.                                               *)
LogInit ==
    /\ pc = "load" /\ unread = <<>>
    /\ level' = GetIntDefault(items, LevelName, QC_LOG_NOTICE)
    /\ fd' \in BOOLEAN
    /\ pc' = "ready"
    /\ UNCHANGED <<file, unread, items, call, fmt, text, whole, piece, log, err>>

-----------------------------------------------------------------------------
(* A line of the log.                                                      *)

Start(prefix) == text' = prefix /\ whole' = prefix

(* A call; bound: one in a behaviour, as it leaves nothing behind.         *)
Call ==
    /\ pc = "ready" /\ call = NoCall /\ file \in LoggingFiles
    /\ call' \in Calls
    /\ fmt' = call'.fmt
    /\ Start(IF call'.by = "core" THEN Repeat("h", HeaderLen) ELSE Repeat("q", PrefixLen))
    /\ piece' = NoPiece
    /\ pc' = "format"
    /\ UNCHANGED <<confVars, log, err>>

(* A round of the loop of qc_vslprintf.                                    *)
Format ==
    /\ pc = "format" /\ fmt # <<>> /\ Len(text) < MaxErrorStr
    /\ text' = Convert(text, MaxErrorStr, Head(fmt))
    /\ whole' = Convert(whole, Unlimited, Head(fmt))
    /\ piece' = [item |-> Head(fmt), text |-> TextOf(Head(fmt))]
    /\ fmt' = Tail(fmt)
    /\ UNCHANGED <<confVars, pc, call, log, err>>

(* Mutant: as much of it as fits.                                          *)
WithErrnoCut(t) == Cut(t \o Suffix, MaxErrorStr)

(* qc_log_errno: all of it or nothing.                                     *)
WithErrno(t) == IF Len(t) + ErrnoLen < MaxErrorStr THEN t \o Suffix ELSE t

(* Mutant: the newline goes to the last place of the buffer.               *)
EndLineLate(t) == Cut(t, MaxErrorStr) \o Newline

(* The line is closed by force: the newline may take the place of text.    *)
EndLine(t) == (IF Len(t) >= MaxErrorStr - 1 THEN SubSeq(t, 1, MaxErrorStr - 2) ELSE t) \o Newline

Formatted == pc = "format" /\ (fmt = <<>> \/ Len(text) >= MaxErrorStr)

Line == EndLine(IF call.err THEN WithErrno(text) ELSE text)

(* write to the log: it may fail, for want of disk space or otherwise; the *)
(* line goes to standard error then, but for a full disk.                  *)
Write(line) ==
    \/ fd /\ log' = line /\ UNCHANGED err
    \/ UNCHANGED <<log, err>> /\ fd             \* ENOSPC
    \/ err' = line /\ UNCHANGED log

(* The end of qc_log_error_core.                                           *)
WriteLog ==
    /\ Formatted /\ call.by = "core"
    /\ IF call.level <= level THEN Write(Line) ELSE UNCHANGED <<log, err>>
    /\ pc' = "ready"
    /\ UNCHANGED <<confVars, call, fmt, text, whole, piece>>

(* The end of qc_log_stderr: with a log file open the text goes there too, *)
(* without its newline and as a format of its own (it has no percent sign  *)
(* here).                                                                  *)
WriteStderr ==
    /\ Formatted /\ call.by = "stderr"
    /\ err' = Line
    /\ IF fd
       THEN /\ call' = [call EXCEPT !.by = "core", !.level = QC_LOG_STDERR, !.err = FALSE]
            /\ fmt' = [i \in 1..(Len(Line) - 1) |-> [conv |-> "lit", arg |-> Line[i]]]
            /\ Start(Repeat("h", HeaderLen))
            /\ piece' = NoPiece
            /\ UNCHANGED pc
       ELSE pc' = "ready" /\ UNCHANGED <<call, fmt, text, whole, piece>>
    /\ UNCHANGED <<confVars, log>>

Next == ReadLine \/ LogInit \/ Call \/ Format \/ WriteLog \/ WriteStderr

Spec == Init /\ [][Next]_vars

-----------------------------------------------------------------------------
(* Properties.                                                             *)

TypeOK ==
    /\ pc \in {"load", "ready", "format"}
    /\ file \in Files
    /\ Len(unread) <= Len(file) /\ unread = SubSeq(file, Len(file) - Len(unread) + 1, Len(file))
    /\ \A i \in 1..Len(items) : DOMAIN items[i] = {"name", "content"}
    /\ level \in Int /\ fd \in BOOLEAN
    /\ pc = "load" => call = NoCall
    /\ Len(text) <= MaxErrorStr

(* The items are those a reader of the file sees, in its order, in a file  *)
(* without lines too long for fgets: name and content around the first     *)
(* equals sign of each line that is no comment, section or blank, without  *)
(* the blanks around them.                                                 *)
Starts(f) == {i \in 1..Len(f) : i = 1 \/ f[i - 1] = "nl"}
LineAt(f, i) ==
    LET ends == {j \in i..Len(f) : f[j] = "nl"} \cup {Len(f)}
    IN SubSeq(f, i, First(ends))
ItemLines(f) == {i \in Starts(f) : /\ f[i] \notin Ignored \cup {"["}
                                  /\ \E j \in 1..Len(LineAt(f, i)) : LineAt(f, i)[j] = "="}

IsTrimmed(t, s, C) ==
    \E a, b \in 0..Len(s) :
        /\ a + b <= Len(s) /\ t = SubSeq(s, a + 1, Len(s) - b)
        /\ \A i \in 1..a : s[i] = "sp"
        /\ \A i \in (Len(s) - b + 1)..Len(s) : s[i] \in C
        /\ t # <<>> => t[1] # "sp" /\ t[Len(t)] \notin C

IsItem(item, line) ==
    \E e \in 1..Len(line) :
        /\ line[e] = "=" /\ \A i \in 1..(e - 1) : line[i] # "="
        /\ IsTrimmed(item.name, SubSeq(line, 1, e - 1), {"sp"})
        /\ IsTrimmed(item.content, SubSeq(line, e + 1, Len(line)), {"nl", "cr", "sp"})

ItemsExact ==
    pc # "load" /\ (\A i \in Starts(file) : Len(LineAt(file, i)) < LineMax) =>
        /\ Len(items) = Cardinality(ItemLines(file))
        /\ \A i \in ItemLines(file) :
              IsItem(items[Cardinality({j \in ItemLines(file) : j <= i})], LineAt(file, i))

(* The limit of the buffer only ever cuts the text: what is there is what  *)
(* a buffer without limit would hold, as far as there is room.             *)
CutOnly == pc = "format" => text = Cut(whole, MaxErrorStr)

(* A piece says what its argument is: numbers read back as themselves,     *)
(* with sign, width and padding as asked for, doubles rounded with carry.  *)
PiecesRead ==
    LET t == piece.text
        item == piece.item
    IN /\ item.conv \in {"d", "u"} => ReadsAs(t, item)
       /\ item.conv = "f" => ReadsAsFloat(t, item)
       /\ item.conv = "s" => t = item.arg

(* What is written is one line: a newline at its end and nowhere else,     *)
(* short of the buffer, and before it the whole text, with or without all  *)
(* of the error suffix (of which the newline may take the last character), *)
(* or as much of the text as a full buffer holds.                          *)
OneLine(l) ==
    LET body == SubSeq(l, 1, Len(l) - 1)
        full == Len(body) = MaxErrorStr - 2
    IN /\ Len(l) \in 1..(MaxErrorStr - 1)
       /\ l[Len(l)] = "nl" /\ \A i \in 1..Len(body) : body[i] # "nl"
       /\ \/ body = whole \/ body = whole \o Suffix
          \/ full /\ body = Cut(whole, MaxErrorStr - 2)
          \/ full /\ body = SubSeq(whole \o Suffix, 1, Len(whole) + ErrnoLen - 1)

LineExact == [][\A l \in {log', err'} \ {log, err, <<>>} : OneLine(l)]_vars
=============================================================================
