----------------------------- MODULE Document -----------------------------
(***************************************************************************)
(* tokenizer of server.c: one document is read with fgets into a buffer of *)
(* DYN_SIZE characters and each piece is parsed with the next line number. *)
(* Tokenizer is parse itself; this module adds the loop around it and what *)
(* parse does with a word that is not in the index yet: a block for its    *)
(* StrGetLength, then StrCopy.                                             *)
(*                                                                         *)
(* A document is a text without NUL characters, known by which of them are *)
(* letters and which end a line.                                           *)
(***************************************************************************)
EXTENDS Tokenizer

CONSTANTS MAX_WORD_LEN,  \* bound of StrGetLength and StrCopy
          MaxText        \* bound on the length of a document

ASSUME DocumentAssumption == MAX_WORD_LEN \in Nat \ {0} /\ MaxText \in Nat

VARIABLES
    text,      \* the characters of the file
    pos,       \* how many of them were read
    eof,       \* feof(fp)
    line_num,  \* the number for the next piece
    at,        \* where tokenizer is
    tokens     \* history: the words handed to the index, by place and line number

file == <<text, pos, eof, line_num>>
vars == <<parser, file, at, tokens>>

Chars == {"letter", "other", "newline"}

Init ==
    /\ text \in UNION {[1 .. n -> Chars] : n \in 0 .. MaxText}
    /\ pos = 0 /\ eof = FALSE /\ line_num = 1
    /\ alpha = <<>> /\ index = 0 /\ words = <<>> /\ done = TRUE
    /\ at = "open" /\ tokens = <<>>

\* fopen of the path: it succeeds, or tokenizer reports it and returns.
Open ==
    /\ at = "open"
    /\ at' \in {"read", "failed"}
    /\ UNCHANGED <<parser, file, tokens>>

\* Mutant of PieceEnd: fgets may fill the whole buffer.
PieceEndFull ==
    Min({k \in pos + 1 .. Len(text) :
            k = Len(text) \/ k = pos + max_len \/ text[k] = "newline"})

\* Where fgets(buf, DYN_SIZE, fp) stops: after a newline, with the buffer full
\* but for the NUL, or at the end of the file.
PieceEnd ==
    Min({k \in pos + 1 .. Len(text) :
            k = Len(text) \/ k = pos + max_len - 1 \/ text[k] = "newline"})

\* Mutant of ReadLine: while ((ret = fgets(..)) && !feof(fp)), the other order.
ReadLineFeofLast ==
    /\ at = "read" /\ ~eof /\ pos < Len(text)
    /\ Call([k \in 1 .. PieceEnd - pos |-> text[pos + k] = "letter"])
    /\ pos' = PieceEnd
    /\ eof' = (PieceEnd - pos < max_len - 1 /\ text[PieceEnd] # "newline")
    /\ line_num' = line_num + 1
    /\ at' = IF eof' THEN "closed" ELSE "parse"
    /\ UNCHANGED <<text, tokens>>

\* One piece is read, and parse is called with line_num++.
ReadLine ==
    /\ at = "read" /\ ~eof /\ pos < Len(text)
    /\ Call([k \in 1 .. PieceEnd - pos |-> text[pos + k] = "letter"])
    /\ pos' = PieceEnd
    /\ eof' = (PieceEnd - pos < max_len - 1 /\ text[PieceEnd] # "newline")
    /\ line_num' = line_num + 1
    /\ at' = "parse"
    /\ UNCHANGED <<text, tokens>>

\* Mutant of StrGetLength: a string of max - 1 characters is refused too.
StrGetLengthShort(n, max) == IF n + 1 >= max THEN 0 ELSE n

\* StrGetLength of a string of n characters: 0 when it reaches the bound.
StrGetLength(n, max) == IF n >= max THEN 0 ELSE n

\* The characters StrCopy writes: at the bound it stops without the NUL.
StrCopy(n, max) == IF n >= max THEN max ELSE n + 1

\* The block for the word is large enough for what is copied into it.
CopyFits(n) == StrCopy(n, MAX_WORD_LEN) <= StrGetLength(n, MAX_WORD_LEN) + 1

\* Where the piece in buf starts in the file.
Base == pos - End

\* parse finds a word and hands it to the index.  When the copy does not fit
\* what follows is undefined.
Token ==
    /\ at = "parse" /\ Word
    /\ LET w == words'[Len(words')]
       IN  /\ tokens' = Append(tokens, <<Base + w[1], Base + w[2], line_num - 1>>)
           /\ at' = IF CopyFits(w[2] - w[1]) THEN "parse" ELSE "corrupt"
    /\ UNCHANGED file

\* parse has come to the end of the string.
LineParsed ==
    /\ at = "parse" /\ Return
    /\ UNCHANGED <<file, at, tokens>>

\* Back to the loop's condition.
NextPiece ==
    /\ at = "parse" /\ done
    /\ at' = "read"
    /\ UNCHANGED <<parser, file, tokens>>

\* Mutant of Close: the loop tests feof only.
CloseAtEofOnly ==
    /\ at = "read" /\ eof
    /\ at' = "closed"
    /\ UNCHANGED <<parser, file, tokens>>

\* feof, or fgets has returned NULL: fclose.
Close ==
    /\ at = "read" /\ (eof \/ pos = Len(text))
    /\ at' = "closed"
    /\ UNCHANGED <<parser, file, tokens>>

Next == Open \/ ReadLine \/ Token \/ LineParsed \/ NextPiece \/ Close

Spec == Init /\ [][Next]_vars

\* The thread that reads the documents keeps running.
FairSpec == Spec /\ WF_vars(Next)

-----------------------------------------------------------------------------
TypeOK ==
    /\ pos \in 0 .. Len(text) /\ eof \in BOOLEAN /\ line_num \in Nat \ {0}
    /\ index \in 0 .. End /\ End < max_len /\ done \in BOOLEAN
    /\ words \in Seq((0 .. End) \X (0 .. End)) /\ Len(words) <= End
    /\ at \in {"open", "read", "parse", "closed", "failed", "corrupt"}
    /\ tokens \in Seq((0 .. Len(text)) \X (0 .. Len(text)) \X Nat)

Newlines(p) == {k \in 1 .. p : text[k] = "newline"}

\* How many characters of its line are before position p.
Column(p) == p - Max(Newlines(p) \cup {0})

\* The lines of the document, as the places where they begin and end.
Lines ==
    {l \in (0 .. Len(text)) \X (0 .. Len(text)) :
        /\ l[1] < l[2]
        /\ l[1] = 0 \/ text[l[1]] = "newline"
        /\ l[2] = Len(text) \/ text[l[2]] = "newline"
        /\ \A k \in l[1] + 1 .. l[2] - 1 : text[k] # "newline"}

\* Where a piece begins: with a line, and after every max_len - 1 characters of it.
PieceStarts(p) == {b \in 0 .. p : Column(b) % (max_len - 1) = 0}

(***************************************************************************)
(* The line number recorded for a word is the number of pieces that begin  *)
(* at or before it: one for each line above it and its own, and one more   *)
(* for every DYN_SIZE - 1 characters by which one of these, as far as the  *)
(* word, is longer than the buffer.  So numbers are exact up to the first  *)
(* line that does not fit, the boundary case of a newline that no longer   *)
(* fits included, and only drift upwards after it (server.c:196-198).      *)
(***************************************************************************)
LineNumbers ==
    \A k \in 1 .. Len(tokens) :
        tokens[k][3] = Cardinality(PieceStarts(tokens[k][1]))

\* The words of the document, as the places where they begin and end.
TrueWords ==
    {r \in (0 .. Len(text)) \X (0 .. Len(text)) :
        /\ r[1] < r[2] /\ \A k \in r[1] + 1 .. r[2] : text[k] = "letter"
        /\ r[1] > 0 => text[r[1]] # "letter"
        /\ r[2] < Len(text) => text[r[2] + 1] # "letter"}

\* The words with the lines they are on.
TrueTokens == {<<r[1], r[2], 1 + Cardinality(Newlines(r[1]))>> : r \in TrueWords}

Indexed == {tokens[k] : k \in 1 .. Len(tokens)}

(***************************************************************************)
(* A document whose lines are at most half of the buffer long is indexed   *)
(* completely: each of its words once, in order, with the number of its    *)
(* line.  The relative bounds of the helpers and the cuts of fgets do not  *)
(* bite before that.                                                       *)
(***************************************************************************)
ShortLinesExact ==
    (at = "closed" /\ \A l \in Lines : 2 * (l[2] - l[1]) <= max_len) =>
        /\ Indexed = TrueTokens /\ Len(tokens) = Cardinality(TrueTokens)
        /\ \A k \in 2 .. Len(tokens) : tokens[k - 1][2] < tokens[k][1]

(***************************************************************************)
(* Storing a word never writes past its block unless the document has a    *)
(* word of MAX_WORD_LEN letters, for which StrGetLength answers 0 and      *)
(* StrCopy still copies (server.c:121, 154-156).                           *)
(***************************************************************************)
CopiesFit ==
    (\A r \in TrueWords : r[2] - r[1] < MAX_WORD_LEN) => at # "corrupt"

(***************************************************************************)
(* Reading a document ends: each round of parse's loop moves on although   *)
(* the helpers stop at bounds that are not the end of the string, and each *)
(* fgets at a boundary of the buffer or of the file still makes progress.  *)
(***************************************************************************)
DocumentEnds == <>(at \in {"closed", "failed", "corrupt"})

(***************************************************************************)
(* Every word of a document is indexed, with its line.  Violated by lines  *)
(* longer than half of the buffer.                                         *)
(***************************************************************************)
EveryWordIndexed == at = "closed" => Indexed = TrueTokens
=============================================================================
