----------------------------- MODULE Tokenizer -----------------------------
(***************************************************************************)
(* How parse of server.c cuts the string in buf into words with StrStrip,  *)
(* StrTok and StrSplit of helper.c.  The string is known by which of its   *)
(* characters are letters; positions count from 0 and a NUL follows the    *)
(* last character.  A word is the pair of the position where it starts and *)
(* the one where its NUL is written.                                       *)
(*                                                                         *)
(* All three helpers get a length that is already relative to the current  *)
(* position and compare the absolute position *index with it.              *)
(***************************************************************************)
EXTENDS Naturals, Sequences, FiniteSets, FiniteSetsExt

CONSTANT max_len  \* the third argument of parse (DYN_SIZE)

ASSUME TokenizerAssumption == max_len \in Nat /\ max_len > 1

VARIABLES alpha,  \* alpha[k + 1]: isalpha of character k of buf
          index,  \* position of ptr, and parse's variable index
          words,  \* the words handed to the index in this call, in order
          done    \* parse has returned

parser == <<alpha, index, words, done>>

End == Len(alpha)
IsAlpha(k) == alpha[k + 1]

\* parse(dynlist, buf, max_len, ..) is called.
Call(line) == alpha' = line /\ index' = 0 /\ words' = <<>> /\ done' = FALSE

\* for (; *index < len && start[i] && (isalpha(start[i]) == letters); ...)
Skip(from, len, letters) ==
    Min({k \in from .. End : k = End \/ k >= len \/ IsAlpha(k) # letters})

StrStrip(from, len) == Skip(from, len, FALSE)

StrTok(from, len) == Skip(from, len, TRUE)

\* Mutant of Split: the test against len is left out; len - (end + 1) wraps.
SplitUnchecked(end, len) ==
    StrStrip(end + 1, IF end + 1 > len THEN max_len ELSE len - (end + 1))

\* The position after StrSplit put a NUL at end, or end if that was too far:
\* there parse finds the NUL and stops.
Split(end, len) ==
    IF end + 1 > len THEN end ELSE StrStrip(end + 1, len - (end + 1))

\* Mutant of Word: StrSplit is called also when the word ends the line.
WordSplitsNul ==
    LET start == StrStrip(index, max_len - index)
        len == max_len - start
        end == StrTok(start, len)
    IN  /\ ~done /\ index < End /\ start < End
        /\ words' = Append(words, <<start, end>>)
        /\ index' = IF end = End THEN end + 1 ELSE Split(end, len)
        /\ done' = (index' = end)
        /\ UNCHANGED alpha

\* One round of parse's loop that finds a word, possibly the empty one.
Word ==
    LET start == StrStrip(index, max_len - index)
        len == max_len - start
        end == StrTok(start, len)
    IN  /\ ~done /\ index < End /\ start < End
        /\ words' = Append(words, <<start, end>>)
        /\ index' = IF end = End THEN End ELSE Split(end, len)
        /\ done' = (index' = end)
        /\ UNCHANGED alpha

\* parse returns: *ptr is the NUL of the line, or becomes it in StrStrip.
Return ==
    /\ ~done /\ (index = End \/ StrStrip(index, max_len - index) = End)
    /\ done' = TRUE
    /\ UNCHANGED <<alpha, index, words>>

-----------------------------------------------------------------------------
\* The words of the string: its longest runs of letters.
Runs ==
    {r \in (0 .. End) \X (0 .. End) :
        /\ r[1] < r[2] /\ \A k \in r[1] .. r[2] - 1 : IsAlpha(k)
        /\ r[1] > 0 => ~IsAlpha(r[1] - 1)
        /\ r[2] < End => ~IsAlpha(r[2])}

(***************************************************************************)
(* On a string of any length only the last word parse hands over can be    *)
(* wrong (cut short, or empty): the others are the first words of the      *)
(* string, in order, none missing (helper.c:451-482).                      *)
(***************************************************************************)
OnlyLastWrong ==
    \A k \in 1 .. Len(words) - 1 :
        /\ words[k] \in Runs
        /\ words[k][2] < words[k + 1][1]
        /\ Cardinality({r \in Runs : r[1] < words[k][1]}) = k - 1
=============================================================================
