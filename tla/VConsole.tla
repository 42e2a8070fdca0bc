------------------------------ MODULE VConsole ------------------------------
(***************************************************************************)
(* The debug console (src/vtnd_console.c): what is typed on a raw terminal *)
(* is read in pieces, gathered in a buffer and cut into lines, which       *)
(* become requests.  Characters are known by their positions and kinds;    *)
(* NUL is not typed, and the terminal is not hung up.                      *)
(*                                                                         *)
(* The same characters may also stand in a file of commands                *)
(* (src/vtnd_file.c), which is read in another way.                        *)
(***************************************************************************)
EXTENDS Naturals, SequencesExt

CONSTANTS BufferLen,    \* YTND_CONSOLE_BUFFER_LEN
          LineMax,      \* VDBG_MAX_CMD_LEN
          MaxInput      \* bound: characters that are typed

ASSUME ConsoleAssumption ==
    BufferLen \in Nat \ {0} /\ LineMax \in Nat \ {0} /\ MaxInput \in Nat

LineEnd == {"cr", "lf"}
Typed == {"text", "space"} \cup LineEnd

VARIABLES
    typed,              \* the kinds of what is typed
    nread,              \* how many characters were read
    buffer,             \* positions of what is gathered
    requests,           \* the requests that were made
    lost                \* history: positions of text that was dropped

consoleVars == <<typed, nread, buffer, requests, lost>>

ConsoleInit ==
    /\ typed = <<>> /\ nread = 0
    /\ buffer = <<>>
    /\ requests = <<>> /\ lost = {}
-----------------------------------------------------------------------------
Type ==
    /\ Len(typed) < MaxInput
    /\ \E kind \in Typed : typed' = Append(typed, kind)
    /\ UNCHANGED <<nread, buffer, requests, lost>>

Positions(i, j) == [k \in 1..(j - i + 1) |-> i + k - 1]
Text(t, s) == {x \in ToSet(s) : t[x] = "text"}

(* vtnd_console_create_tnd_req at the end of a line: a request, unless the *)
(* line is empty or too long.                                              *)
Request(t, c) ==
    IF c.line = <<>> THEN c
    ELSE IF Len(c.line) < LineMax
    THEN [c EXCEPT !.made = Append(c.made, c.line), !.line = <<>>]
    ELSE [c EXCEPT !.long = c.long \cup Text(t, c.line), !.line = <<>>]

(* strtok_r, and the spaces that a line loses at its beginning: the        *)
(* requests so far, the line, and the text of the lines that are too long. *)
Token(t, c, x) ==
    IF t[x] \in LineEnd THEN Request(t, c)
    ELSE IF t[x] = "space" /\ c.line = <<>> THEN c
    ELSE [c EXCEPT !.line = Append(c.line, x)]

Cut(t, s) ==
    LET cut[n \in 0..Len(s)] ==
            IF n = 0 THEN [made |-> <<>>, line |-> <<>>, long |-> {}]
            ELSE Token(t, cut[n - 1], s[n])
    IN  cut[Len(s)]

(* Variant: the piece is read to the beginning of the buffer. *)
Overwritten(piece) == piece

Gathered(piece) == buffer \o piece

(* vtnd_console_read_cb: a piece that starts with an empty line is         *)
(* dropped, one that does not end a line is kept, and a full buffer is     *)
(* dropped.                                                                *)
ConsoleRead ==
    /\ nread < Len(typed)
    /\ LET room  == BufferLen - Len(buffer)
           n     == IF Len(typed) - nread < room THEN Len(typed) - nread ELSE room
           piece == Positions(nread + 1, nread + n)
           whole == Gathered(piece)
           cut   == Cut(typed, whole)
       IN  /\ nread' = nread + n
           /\ IF buffer = <<>> /\ typed[nread + 1] = "lf"
              THEN /\ lost' = lost \cup Text(typed, piece)
                   /\ UNCHANGED <<buffer, requests>>
              ELSE IF typed[nread + n] = "lf"
              THEN /\ requests' = requests \o cut.made
                   /\ buffer' = <<>>
                   /\ lost' = lost \cup cut.long
              ELSE /\ IF Len(whole) = BufferLen
                      THEN buffer' = <<>> /\ lost' = lost \cup Text(typed, whole)
                      ELSE buffer' = whole /\ UNCHANGED lost
                   /\ UNCHANGED requests
    /\ UNCHANGED typed

ConsoleNext == Type \/ ConsoleRead
-----------------------------------------------------------------------------
(* vtnd_file_init reads a file t with fgets: a piece ends with its line,   *)
(* or when no more fits, and becomes a request unless it is one character. *)
PieceMax == LineMax - 2

FilePieces(t) ==
    LET read[n \in 0..Len(t)] ==
            IF n = 0 THEN [pieces |-> <<>>, open |-> <<>>]
            ELSE LET open == Append(read[n - 1].open, n)
                 IN  IF t[n] = "lf" \/ Len(open) = PieceMax
                     THEN [pieces |-> Append(read[n - 1].pieces, open), open |-> <<>>]
                     ELSE [read[n - 1] EXCEPT !.open = open]
        last == read[Len(t)]
    IN  IF last.open = <<>> THEN last.pieces ELSE Append(last.pieces, last.open)

(* Variant: empty lines become requests, too. *)
FileRequestsAll(t) == FilePieces(t)

FileRequests(t) == SelectSeq(FilePieces(t), LAMBDA piece : Len(piece) > 1)

(* vtnd_file_run_cmd takes those of one module, whose name is a character. *)
FileRunCmd(t) == SelectSeq(FileRequests(t), LAMBDA piece : t[piece[1]] = "text")
-----------------------------------------------------------------------------
(* However the input is cut into pieces: as long as nothing was dropped,   *)
(* the requests are the lines that were read, whole and in order; and when *)
(* something was, no text is taken after later text, and each character of *)
(* the lines that were read is in a request or was dropped, never both.    *)
LinesExact ==
    LET read == Positions(1, nread - Len(buffer))
    IN  /\ lost = {} => requests = Cut(typed, read).made
        /\ \A i, j \in 1..Len(requests) : i < j =>
              \A x \in Text(typed, requests[i]), y \in Text(typed, requests[j]) : x < y
        /\ \A x \in Text(typed, read) :
              x \in lost <=> \A i \in 1..Len(requests) : x \notin Text(typed, requests[i])

FileLines(t) ==
    LET Line(i, j) ==
            /\ i = 1 \/ t[i - 1] = "lf"
            /\ j = Len(t) \/ t[j] = "lf"
            /\ \A k \in i..(j - 1) : t[k] # "lf"
    IN  UNION {{Positions(i, j) : j \in {k \in i..Len(t) : Line(i, k)}} : i \in 1..Len(t)}

(* The requests of a file are, in order, its lines that fit and are not    *)
(* empty, and pieces of lines that do not fit, each of them of one line;   *)
(* text is lost only where it stands alone at the end.  Of the lines that  *)
(* fit, those of a module are run with it.                                 *)
FileExact ==
    LET made == FileRequests(typed)
        fit  == {line \in FileLines(typed) : Len(line) \in 2..PieceMax}
    IN  /\ ToSet(made) \cap FileLines(typed) = fit
        /\ \A r \in ToSet(made) : \E line \in FileLines(typed) : ToSet(r) \subseteq ToSet(line)
        /\ \A i, j \in 1..Len(made) : i < j => \A x \in ToSet(made[i]), y \in ToSet(made[j]) : x < y
        /\ \A x \in Text(typed, Positions(1, Len(typed) - 1)) :
              \E r \in ToSet(made) : x \in ToSet(r)
        /\ ToSet(FileRunCmd(typed)) \cap fit = {line \in fit : typed[line[1]] = "text"}
=============================================================================
