--------------------------- MODULE DocumentProofs ---------------------------
(***************************************************************************)
(* Proofs about Document and Tokenizer, for documents, buffers and words   *)
(* of any length.                                                          *)
(***************************************************************************)
EXTENDS Document, NatLemmas, FiniteSetTheorems, SequenceTheorems, TLAPS

-----------------------------------------------------------------------------
(* The inductive invariant *)

\* buf holds the characters of the file before pos, a newline only as the last.
PieceInv ==
    /\ alpha \in Seq(BOOLEAN) /\ End < max_len /\ End <= pos
    /\ \A k \in 1 .. End : alpha[k] <=> text[Base + k] = "letter"
    /\ \A k \in Base + 1 .. pos - 1 : text[k] # "newline"
    /\ at = "parse" => End > 0
    /\ pos \in {0, Len(text)} \/ text[pos] = "newline" \/ End = max_len - 1
    /\ eof => pos = Len(text)

\* The words before the last are words of the string, and none is missing between
\* them.  While parse goes on that is also so for the last, and nothing before
\* index is missing.
ParseInv ==
    /\ index \in 0 .. End /\ done \in BOOLEAN /\ words \in Seq((0 .. End) \X (0 .. End))
    /\ Len(words) <= End /\ (~done => Len(words) <= index)
    /\ \A j, k \in 1 .. Len(words) : j < k => words[j] \in Runs /\ words[j][2] < words[k][1]
    /\ \A k \in 1 .. Len(words) : \A r \in Runs :
          r[1] < words[k][1] => \E j \in 1 .. k - 1 : r = words[j]
    /\ ~done =>
          /\ \A k \in 1 .. Len(words) : words[k] \in Runs /\ words[k][2] < index
          /\ \A r \in Runs : r[1] < index => \E j \in 1 .. Len(words) : r = words[j]
          /\ index > 0 => ~IsAlpha(index - 1)

\* line_num counts the pieces, and the next one begins where the buffer or the
\* line ended.
NumberInv ==
    \A b \in 0 .. Len(text) :
        /\ at = "parse" /\ b = Base =>
              Column(b) % (max_len - 1) = 0 /\ line_num = 1 + Cardinality(PieceStarts(b))
        /\ at \in {"open", "read"} /\ b = pos /\ pos < Len(text) =>
              Column(b) % (max_len - 1) = 0 /\ line_num = Cardinality(PieceStarts(b))

\* A copy that did not fit was one of a long word.
CopyInv == at = "corrupt" => \E r \in TrueWords : r[2] - r[1] >= MAX_WORD_LEN

\* What the invariant says whatever the lines are.
CoreInv ==
    /\ TypeOK /\ text \in Seq(Chars) /\ PieceInv /\ ParseInv
    /\ NumberInv /\ LineNumbers /\ CopyInv

Short == \A l \in Lines : 2 * (l[2] - l[1]) <= max_len

\* The words of the document that begin before p.
Seen(p) == {r \in TrueTokens : r[1] < p}

\* As long as all lines are short a piece is a line, and what was handed to the index
\* are the words before the place that was reached, in order.
ShortInv ==
    /\ \A b \in 0 .. Len(text) :
          /\ at = "parse" /\ b = Base =>
                (b = 0 \/ text[b] = "newline") /\ line_num = 2 + Cardinality(Newlines(b))
          /\ at \in {"open", "read"} /\ b = pos /\ pos < Len(text) =>
                (b = 0 \/ text[b] = "newline") /\ line_num = 1 + Cardinality(Newlines(b))
          /\ at # "corrupt" /\ b = (IF at = "parse" /\ ~done THEN Base + index ELSE pos) =>
                Indexed = Seen(b)
    /\ at = "parse" => pos = Len(text) \/ text[pos] = "newline"
    /\ at = "closed" => pos = Len(text)
    /\ \A j, k \in 1 .. Len(tokens) : j < k => tokens[j][2] < tokens[k][1]

DocInv == CoreInv /\ (Short => ShortInv)

-----------------------------------------------------------------------------
(* One round of parse *)

\* Skip stops at the first place where it has to.
LEMMA SkipIs ==
    ASSUME alpha \in Seq(BOOLEAN), NEW from \in 0 .. End, NEW len \in Int, NEW b \in BOOLEAN
    PROVE  /\ Skip(from, len, b) \in from .. End
           /\ \/ Skip(from, len, b) = End \/ Skip(from, len, b) >= len
              \/ IsAlpha(Skip(from, len, b)) # b
           /\ \A j \in from .. Skip(from, len, b) - 1 : j < len /\ IsAlpha(j) = b
  <1> DEFINE S == {k \in from .. End : k = End \/ k >= len \/ IsAlpha(k) # b}
  <1>1. End \in Nat
    BY DEF End
  <1>2. S \in SUBSET Nat /\ End \in S
    BY <1>1
  <1>3. Min(S) \in S /\ \A x \in S : Min(S) <= x
    <2> HIDE DEF S
    <2> QED
      BY <1>2, MinIn
  <1>4. PICK m : m = Min(S)
    OBVIOUS
  <1>5. m \in from .. End /\ (m = End \/ m >= len \/ IsAlpha(m) # b)
    BY <1>3, <1>4
  <1>6. ASSUME NEW j \in from .. m - 1
        PROVE  j < len /\ IsAlpha(j) = b
    <2>1. j \in from .. End /\ j # End /\ ~(m <= j)
      BY <1>1, <1>5
    <2>2. j \notin S
      BY <1>3, <1>4, <2>1
    <2> QED
      BY <2>1, <2>2
  <1>7. Skip(from, len, b) = m
    BY <1>4 DEF Skip
  <1> QED
    BY <1>5, <1>6, <1>7

\* StrStrip passes what is no letter.
LEMMA StripIs ==
    ASSUME alpha \in Seq(BOOLEAN), NEW from \in 0 .. End, NEW len \in Int
    PROVE  \E k \in from .. End :
              /\ StrStrip(from, len) = k
              /\ k = End \/ k >= len \/ IsAlpha(k)
              /\ \A j \in from .. k - 1 : ~IsAlpha(j)
  <1>1. PICK k : k = StrStrip(from, len)
    OBVIOUS
  <1>2. /\ k \in from .. End /\ (k = End \/ k >= len \/ IsAlpha(k) # FALSE)
        /\ \A j \in from .. k - 1 : j < len /\ IsAlpha(j) = FALSE
    BY <1>1, SkipIs DEF StrStrip
  <1>3. End \in Nat /\ \A j \in 0 .. End - 1 : IsAlpha(j) \in BOOLEAN
    BY DEF IsAlpha, End
  <1>4. k = End \/ k >= len \/ IsAlpha(k)
    <2>1. CASE k # End
      <3>1. k \in 0 .. End - 1
        BY <1>2, <1>3, <2>1
      <3>2. IsAlpha(k) \in BOOLEAN
        BY <1>3, <3>1
      <3> QED
        BY <1>2, <3>2
    <2> QED
      BY <2>1
  <1> QED
    BY <1>1, <1>2, <1>4

\* StrTok passes letters.
LEMMA TokIs ==
    ASSUME alpha \in Seq(BOOLEAN), NEW from \in 0 .. End, NEW len \in Int
    PROVE  \E k \in from .. End :
              /\ StrTok(from, len) = k
              /\ k = End \/ k >= len \/ ~IsAlpha(k)
              /\ \A j \in from .. k - 1 : j < len /\ IsAlpha(j)
  <1>1. PICK k : k = StrTok(from, len)
    OBVIOUS
  <1>2. /\ k \in from .. End /\ (k = End \/ k >= len \/ IsAlpha(k) # TRUE)
        /\ \A j \in from .. k - 1 : j < len /\ IsAlpha(j) = TRUE
    BY <1>1, SkipIs DEF StrTok
  <1> QED
    BY <1>1, <1>2

\* What a round finds: a place that is no letter is passed, then letters.  If parse
\* goes on, or the string is at most half as long as the buffer, it is a word of the
\* string.
Found(a, b, i) ==
    /\ a \in index .. End - 1 /\ b \in a .. End /\ i \in b .. End
    /\ \A j \in index .. a - 1 : ~IsAlpha(j)
    /\ \A j \in a .. b - 1 : IsAlpha(j)
    /\ words' = Append(words, <<a, b>>) /\ alpha' = alpha /\ index' = i
    /\ done' \in BOOLEAN
    /\ ~done' => /\ a < b /\ b < End /\ b < i
                 /\ \A j \in b .. i - 1 : ~IsAlpha(j)
    /\ 2 * End <= max_len => /\ a < b /\ (b < End => ~IsAlpha(b))
                             /\ done' => b = End /\ i = End

\* A round of parse's loop finds that.
LEMMA WordIs ==
    ASSUME alpha \in Seq(BOOLEAN), End < max_len, index \in 0 .. End, Word
    PROVE  \E a, b, i \in Nat : Found(a, b, i)
  <1>1. End \in Nat /\ max_len \in Nat
    BY TokenizerAssumption DEF End
  <1>2. max_len - index \in Int
    BY <1>1
  <1>3. PICK a \in index .. End :
           /\ StrStrip(index, max_len - index) = a
           /\ a = End \/ a >= max_len - index \/ IsAlpha(a)
           /\ \A j \in index .. a - 1 : ~IsAlpha(j)
    BY <1>2, StripIs
  <1>4. max_len - a \in Int /\ a \in 0 .. End
    BY <1>1, <1>3
  <1>5. PICK b \in a .. End :
           /\ StrTok(a, max_len - a) = b
           /\ b = End \/ b >= max_len - a \/ ~IsAlpha(b)
           /\ \A j \in a .. b - 1 : j < max_len - a /\ IsAlpha(j)
    BY <1>4, TokIs
  <1>6. /\ index < End /\ a < End /\ words' = Append(words, <<a, b>>) /\ alpha' = alpha
        /\ index' = (IF b = End THEN End ELSE Split(b, max_len - a))
        /\ done' = (index' = b)
    BY <1>3, <1>5 DEF Word
  <1>7. a \in index .. End - 1 /\ b \in 0 .. End
    BY <1>1, <1>3, <1>4, <1>5, <1>6
  <1>8. CASE b = End
    <2>1. index' = b /\ done' = TRUE
      BY <1>6, <1>8
    <2>2. a < b /\ b \in b .. End /\ b \in Nat /\ a \in Nat
      BY <1>1, <1>4, <1>6, <1>7, <1>8
    <2>3. Found(a, b, b)
      BY <1>3, <1>5, <1>6, <1>7, <1>8, <2>1, <2>2 DEF Found
    <2> QED
      BY <2>2, <2>3
  <1>9. CASE b # End /\ b + 1 > max_len - a
    <2>1. index' = b /\ done' = TRUE
      BY <1>6, <1>9 DEF Split
    <2>2. ~(2 * End <= max_len) /\ b \in b .. End /\ b \in Nat /\ a \in Nat
      BY <1>1, <1>4, <1>7, <1>9
    <2>3. Found(a, b, b)
      BY <1>3, <1>5, <1>6, <1>7, <2>1, <2>2 DEF Found
    <2> QED
      BY <2>2, <2>3
  <1>10. CASE b # End /\ b + 1 <= max_len - a
    <2>1. b + 1 \in 0 .. End /\ max_len - a - (b + 1) \in Int
      BY <1>1, <1>4, <1>7, <1>10
    <2>2. PICK i \in b + 1 .. End :
             /\ StrStrip(b + 1, max_len - a - (b + 1)) = i
             /\ \A j \in b + 1 .. i - 1 : ~IsAlpha(j)
      BY <2>1, StripIs
    <2>3. index' = i /\ done' = FALSE
      <3>1. ~(b + 1 > max_len - a)
        BY <1>1, <1>4, <1>7, <1>10
      <3>2. Split(b, max_len - a) = i
        BY <2>2, <3>1 DEF Split
      <3>3. index' = i
        BY <1>6, <1>10, <3>2
      <3>4. i # b
        BY <1>7, <2>2
      <3> QED
        BY <1>6, <3>3, <3>4
    <2>4. ~IsAlpha(b)
      BY <1>1, <1>4, <1>5, <1>7, <1>10
    <2>5. a < b
      BY <1>1, <1>3, <1>5, <1>6, <1>7, <1>10, <2>4
    <2>6. \A j \in b .. i - 1 : ~IsAlpha(j)
      BY <1>7, <2>2, <2>4
    <2>7. b < End /\ b < i /\ i \in b .. End /\ a \in Nat /\ b \in Nat /\ i \in Nat
      BY <1>1, <1>4, <1>7, <1>10, <2>2
    <2>8. Found(a, b, i)
      BY <1>3, <1>5, <1>6, <1>7, <2>3, <2>4, <2>5, <2>6, <2>7 DEF Found
    <2> QED
      BY <2>7, <2>8
  <1> QED
    BY <1>1, <1>4, <1>7, <1>8, <1>9, <1>10

\* What it means to be a word of the string.
LEMMA RunIs ==
    ASSUME alpha \in Seq(BOOLEAN), NEW r \in Runs
    PROVE  /\ r = <<r[1], r[2]>> /\ r[1] \in 0 .. End - 1 /\ r[2] \in 1 .. End /\ r[1] < r[2]
           /\ \A k \in r[1] .. r[2] - 1 : IsAlpha(k)
           /\ IsAlpha(r[1])
           /\ r[1] > 0 => ~IsAlpha(r[1] - 1)
           /\ r[2] < End => ~IsAlpha(r[2])
  <1>1. End \in Nat
    BY DEF End
  <1>2. /\ r \in (0 .. End) \X (0 .. End) /\ r[1] < r[2] /\ \A k \in r[1] .. r[2] - 1 : IsAlpha(k)
        /\ r[1] > 0 => ~IsAlpha(r[1] - 1)
        /\ r[2] < End => ~IsAlpha(r[2])
    BY DEF Runs
  <1>3. r = <<r[1], r[2]>> /\ r[1] \in 0 .. End - 1 /\ r[2] \in 1 .. End
    BY <1>1, <1>2
  <1>4. r[1] \in r[1] .. r[2] - 1
    BY <1>1, <1>2, <1>3
  <1> QED
    BY <1>2, <1>3, <1>4

\* And how a pair of places is one.
LEMMA IsRun ==
    ASSUME NEW a \in 0 .. End, NEW b \in 0 .. End, a < b, \A k \in a .. b - 1 : IsAlpha(k),
           a > 0 => ~IsAlpha(a - 1), b < End => ~IsAlpha(b)
    PROVE  <<a, b>> \in Runs
  BY DEF Runs

\* Two words that begin at the same place are the same; a word does not begin inside
\* of another.
LEMMA RunsApart ==
    ASSUME alpha \in Seq(BOOLEAN), NEW r \in Runs, NEW s \in Runs, r[1] >= s[1], r[1] < s[2]
    PROVE  r = s
  <1>1. End \in Nat
    BY DEF End
  <1>2. /\ r[1] \in 0 .. End - 1 /\ r[2] \in 1 .. End /\ r[1] < r[2]
        /\ \A k \in r[1] .. r[2] - 1 : IsAlpha(k)
        /\ r[1] > 0 => ~IsAlpha(r[1] - 1)
        /\ r[2] < End => ~IsAlpha(r[2])
    BY RunIs
  <1>3. /\ s[1] \in 0 .. End - 1 /\ s[2] \in 1 .. End /\ s[1] < s[2]
        /\ \A k \in s[1] .. s[2] - 1 : IsAlpha(k)
        /\ s[2] < End => ~IsAlpha(s[2])
    BY RunIs
  <1>4. r[1] = s[1]
    <2> SUFFICES ASSUME r[1] # s[1]
                 PROVE  FALSE
      OBVIOUS
    <2>1. r[1] - 1 \in s[1] .. s[2] - 1 /\ r[1] > 0
      BY <1>1, <1>2, <1>3
    <2> QED
      BY <1>2, <1>3, <2>1
  <1>5. ~(r[2] < s[2])
    <2> SUFFICES ASSUME r[2] < s[2]
                 PROVE  FALSE
      OBVIOUS
    <2>1. r[2] \in s[1] .. s[2] - 1 /\ r[2] < End
      BY <1>1, <1>2, <1>3, <1>4
    <2> QED
      BY <1>2, <1>3, <2>1
  <1>6. ~(s[2] < r[2])
    <2> SUFFICES ASSUME s[2] < r[2]
                 PROVE  FALSE
      OBVIOUS
    <2>1. s[2] \in r[1] .. r[2] - 1 /\ s[2] < End
      BY <1>1, <1>2, <1>3, <1>4
    <2> QED
      BY <1>2, <1>3, <2>1
  <1>7. r[2] = s[2]
    BY <1>1, <1>2, <1>3, <1>5, <1>6
  <1> QED
    BY <1>4, <1>7, RunIs

\* One more word.
LEMMA AppendIs ==
    ASSUME NEW S, NEW q \in Seq(S), NEW w \in S
    PROVE  /\ Append(q, w) \in Seq(S) /\ Len(q) \in Nat /\ Len(Append(q, w)) = Len(q) + 1
           /\ \A k \in 1 .. Len(q) : Append(q, w)[k] = q[k]
           /\ Append(q, w)[Len(q) + 1] = w
           /\ \A k \in 1 .. Len(q) + 1 : k \in 1 .. Len(q) \/ k = Len(q) + 1
  OBVIOUS

\* The string stays, and with it its words.
LEMMA SameString ==
    ASSUME alpha' = alpha
    PROVE  Runs' = Runs /\ End' = End /\ \A k : IsAlpha(k)' <=> IsAlpha(k)
  BY DEF Runs, End, IsAlpha

\* A round of parse keeps its invariant.
LEMMA WordKeeps ==
    ASSUME alpha \in Seq(BOOLEAN), End < max_len, ParseInv, Word
    PROVE  ParseInv'
  <1>1. End \in Nat /\ ~done
    BY DEF End, Word
  <1>2. /\ index \in 0 .. End /\ words \in Seq((0 .. End) \X (0 .. End)) /\ Len(words) <= index
        /\ \A j, k \in 1 .. Len(words) : j < k => words[j] \in Runs /\ words[j][2] < words[k][1]
        /\ \A k \in 1 .. Len(words) : \A r \in Runs :
              r[1] < words[k][1] => \E j \in 1 .. k - 1 : r = words[j]
        /\ \A k \in 1 .. Len(words) : words[k] \in Runs /\ words[k][2] < index
        /\ \A r \in Runs : r[1] < index => \E j \in 1 .. Len(words) : r = words[j]
        /\ index > 0 => ~IsAlpha(index - 1)
    BY <1>1 DEF ParseInv
  <1>3. PICK a, b, i \in Nat : Found(a, b, i)
    BY <1>2, WordIs
  <1>4. /\ a \in index .. End - 1 /\ b \in a .. End /\ i \in b .. End
        /\ \A j \in index .. a - 1 : ~IsAlpha(j)
        /\ \A j \in a .. b - 1 : IsAlpha(j)
        /\ words' = Append(words, <<a, b>>) /\ alpha' = alpha
        /\ index' = i /\ done' \in BOOLEAN
        /\ ~done' => /\ a < b /\ b < End /\ b < i
                     /\ \A j \in b .. i - 1 : ~IsAlpha(j)
    BY <1>3 DEF Found
  <1>5. a \in 0 .. End /\ b \in 0 .. End /\ i \in 0 .. End /\ a \in Int /\ index \in Int
    BY <1>1, <1>2, <1>4
  <1>16. PICK q : q = words'
    OBVIOUS
  <1>6. PICK n \in Nat : n = Len(words)
    BY <1>2
  <1>7. /\ q \in Seq((0 .. End) \X (0 .. End)) /\ Len(q) = n + 1
        /\ \A k \in 1 .. n : q[k] = words[k]
        /\ q[n + 1] = <<a, b>>
        /\ \A k \in 1 .. n + 1 : k \in 1 .. n \/ k = n + 1
    <2>1. <<a, b>> \in (0 .. End) \X (0 .. End)
      BY <1>5
    <2> QED
      BY <1>2, <1>4, <1>6, <1>16, <2>1, AppendIs
  <1>8. Runs' = Runs /\ End' = End /\ \A k : IsAlpha(k)' <=> IsAlpha(k)
    BY <1>4, SameString
  <1>9. q[n + 1][1] = a /\ q[n + 1][2] = b
    BY <1>7
  <1>10. n + 1 <= End /\ (~done' => n + 1 <= i)
    BY <1>1, <1>2, <1>4, <1>5, <1>6
  <1>11. ASSUME NEW j \in 1 .. n + 1, NEW k \in 1 .. n + 1, j < k
         PROVE  q[j] \in Runs /\ q[j][2] < q[k][1]
    <2>1. j \in 1 .. n /\ q[j] = words[j] /\ words[j] \in Runs /\ words[j][2] < index
      <3>1. j \in 1 .. n
        BY <1>11
      <3> QED
        BY <1>2, <1>6, <1>7, <3>1
    <2>2. CASE k \in 1 .. n
      BY <1>2, <1>6, <1>7, <1>11, <2>1, <2>2
    <2>3. CASE k = n + 1
      <3>1. words[j][2] \in Int
        BY <2>1, RunIs
      <3> QED
        BY <1>4, <1>5, <1>9, <2>1, <2>3, <3>1
    <2> QED
      BY <1>7, <2>2, <2>3
  <1>12. ASSUME NEW r \in Runs, r[1] < a
         PROVE  \E j \in 1 .. n : r = q[j]
    <2>1. r[1] \in 0 .. End - 1 /\ IsAlpha(r[1])
      BY RunIs
    <2>2. r[1] < index
      BY <1>4, <1>5, <1>12, <2>1
    <2>3. PICK j \in 1 .. n : r = words[j]
      BY <1>2, <1>6, <2>2
    <2> QED
      BY <1>7, <2>3
  <1>13. ASSUME NEW k \in 1 .. n + 1, NEW r \in Runs, r[1] < q[k][1]
         PROVE  \E j \in 1 .. k - 1 : r = q[j]
    <2>1. CASE k \in 1 .. n
      <3>1. PICK j \in 1 .. k - 1 : r = words[j]
        BY <1>2, <1>6, <1>7, <1>13, <2>1
      <3>2. j \in 1 .. n
        BY <2>1
      <3> QED
        BY <1>7, <3>1, <3>2
    <2>2. CASE k = n + 1
      <3>1. (n + 1) - 1 = n
        OBVIOUS
      <3> QED
        BY <1>9, <1>12, <1>13, <2>2, <3>1
    <2> QED
      BY <1>7, <2>1, <2>2
  <1>14. ASSUME ~done'
         PROVE  /\ \A k \in 1 .. n + 1 : q[k] \in Runs /\ q[k][2] < i
                /\ \A r \in Runs : r[1] < i => \E j \in 1 .. n + 1 : r = q[j]
                /\ i > 0 => ~IsAlpha(i - 1)
    <2>1. /\ a < b /\ b < End /\ b < i /\ b \in Int /\ i \in Int
          /\ \A j \in b .. i - 1 : ~IsAlpha(j)
      BY <1>4, <1>5, <1>14
    <2>2. <<a, b>> \in Runs
      <3>1. a > 0 => ~IsAlpha(a - 1)
        <4>1. CASE a = index
          BY <1>2, <4>1
        <4>2. CASE a # index
          <5>1. a - 1 \in index .. a - 1
            BY <1>4, <1>5, <4>2
          <5> QED
            BY <1>4, <5>1
        <4> QED
          BY <4>1, <4>2
      <3>2. ~IsAlpha(b)
        BY <2>1
      <3> QED
        BY <1>4, <1>5, <2>1, <3>1, <3>2, IsRun
    <2>3. ASSUME NEW k \in 1 .. n + 1
          PROVE  q[k] \in Runs /\ q[k][2] < i
      <3>1. CASE k \in 1 .. n
        <4>1. q[k] = words[k] /\ words[k] \in Runs /\ words[k][2] < index
          BY <1>2, <1>6, <1>7, <3>1
        <4>2. words[k][2] \in Int
          BY <4>1, RunIs
        <4> QED
          BY <1>4, <1>5, <2>1, <4>1, <4>2
      <3>2. CASE k = n + 1
        BY <1>7, <1>9, <2>1, <2>2, <3>2
      <3> QED
        BY <1>7, <3>1, <3>2
    <2>4. ASSUME NEW r \in Runs, r[1] < i
          PROVE  \E j \in 1 .. n + 1 : r = q[j]
      <3>1. r[1] \in 0 .. End - 1 /\ IsAlpha(r[1])
        BY RunIs
      <3>2. CASE r[1] < a
        <4>1. PICK j \in 1 .. n : r = q[j]
          BY <1>12, <3>2
        <4> QED
          BY <4>1
      <3>3. CASE r[1] >= a /\ r[1] < b
        <4>1. PICK s \in Runs : s = <<a, b>> /\ s[1] = a /\ s[2] = b
          BY <2>2
        <4>2. r = s
          BY <3>3, <4>1, RunsApart
        <4>3. n + 1 \in 1 .. n + 1 /\ q[n + 1] = <<a, b>>
          BY <1>7
        <4>4. r = q[n + 1]
          BY <4>1, <4>2, <4>3
        <4> QED
          BY <4>3, <4>4
      <3>4. CASE r[1] >= b
        BY <2>1, <2>4, <3>1, <3>4
      <3> QED
        BY <1>5, <2>1, <3>1, <3>2, <3>3, <3>4
    <2>5. ~IsAlpha(i - 1)
      BY <2>1
    <2> QED
      BY <2>3, <2>4, <2>5
  <1>15. /\ (index \in 0 .. End)' /\ (done \in BOOLEAN)' /\ (words \in Seq((0 .. End) \X (0 .. End)))'
         /\ (Len(words) <= End)' /\ (~done => Len(words) <= index)'
    BY <1>4, <1>5, <1>7, <1>8, <1>10, <1>16
  <1>17. (\A j, k \in 1 .. Len(words) : j < k => words[j] \in Runs /\ words[j][2] < words[k][1])'
    BY <1>7, <1>8, <1>11, <1>16
  <1>18. (\A k \in 1 .. Len(words) : \A r \in Runs :
             r[1] < words[k][1] => \E j \in 1 .. k - 1 : r = words[j])'
    BY <1>7, <1>8, <1>13, <1>16
  <1>19. ASSUME ~done'
         PROVE  (/\ \A k \in 1 .. Len(words) : words[k] \in Runs /\ words[k][2] < index
                 /\ \A r \in Runs : r[1] < index => \E j \in 1 .. Len(words) : r = words[j]
                 /\ index > 0 => ~IsAlpha(index - 1))'
    BY <1>4, <1>7, <1>8, <1>14, <1>16, <1>19
  <1> QED
    BY <1>15, <1>17, <1>18, <1>19 DEF ParseInv

\* parse returns and keeps its invariant.
LEMMA ReturnKeeps ==
    ASSUME ParseInv, Return
    PROVE  ParseInv'
  <1>1. UNCHANGED <<alpha, index, words>> /\ done' = TRUE
    BY DEF Return
  <1>2. Runs' = Runs /\ End' = End
    BY <1>1, SameString
  <1> QED
    BY <1>1, <1>2 DEF ParseInv

\* The first words of the string are the ones handed over, and they are as many.
LEMMA CountRuns ==
    ASSUME alpha \in Seq(BOOLEAN), ParseInv, NEW k \in 1 .. Len(words) - 1
    PROVE  Cardinality({r \in Runs : r[1] < words[k][1]}) = k - 1
  <1>1. PICK n \in Nat : n = Len(words)
    BY DEF ParseInv
  <1>2. \A i, j \in 1 .. n : i < j => words[i] \in Runs /\ words[i][2] < words[j][1]
    BY <1>1 DEF ParseInv
  <1>3. k \in 1 .. n /\ k - 1 \in Nat
    BY <1>1
  <1>13. \A r \in Runs : r[1] < words[k][1] => \E j \in 1 .. k - 1 : r = words[j]
    BY <1>1, <1>3 DEF ParseInv
  <1>4. ASSUME NEW i \in 1 .. k - 1
        PROVE  words[i] \in Runs /\ words[i][1] < words[k][1]
    <2>1. i \in 1 .. n /\ i < k /\ k < n /\ n \in 1 .. n
      BY <1>1, <1>3
    <2>2. words[i] \in Runs /\ words[k] \in Runs /\ words[i][2] < words[k][1]
      BY <1>2, <1>3, <2>1
    <2>3. words[i][1] < words[i][2] /\ words[i][1] \in Int /\ words[i][2] \in Int /\ words[k][1] \in Int
      BY <2>2, RunIs
    <2> QED
      BY <2>2, <2>3
  <1>5. ASSUME NEW i \in 1 .. k - 1, NEW j \in 1 .. k - 1, i < j
        PROVE  words[i] # words[j]
    <2>1. i \in 1 .. n /\ j \in 1 .. n
      BY <1>3
    <2>2. words[i] \in Runs /\ words[i][2] < words[j][1]
      BY <1>2, <1>5, <2>1
    <2>3. words[i][1] < words[i][2] /\ words[i][1] \in Int /\ words[i][2] \in Int
      BY <2>2, RunIs
    <2> QED
      BY <2>2, <2>3
  <1> DEFINE R == {r \in Runs : r[1] < words[k][1]}
             f == [i \in 1 .. k - 1 |-> words[i]]
  <1>6. f \in [1 .. k - 1 -> R]
    BY <1>4
  <1>7. \A i, j \in 1 .. k - 1 : f[i] = f[j] => i = j
    <2> TAKE i, j \in 1 .. k - 1
    <2>1. i < j \/ j < i \/ i = j
      BY <1>3
    <2> QED
      BY <1>5, <2>1
  <1>8. \A r \in R : \E i \in 1 .. k - 1 : f[i] = r
    BY <1>13
  <1> HIDE DEF f, R
  <1>9. f \in Bijection(1 .. k - 1, R)
    BY <1>6, <1>7, <1>8 DEF Bijection, Injection, Surjection, IsInjective
  <1>10. ExistsBijection(1 .. k - 1, R)
    BY <1>9 DEF ExistsBijection
  <1>11. IsFiniteSet(1 .. k - 1) /\ Cardinality(1 .. k - 1) = k - 1
    <2>1. PICK m \in Nat : m = k - 1
      BY <1>3
    <2>2. 1 \in Int /\ m \in Int /\ (m - 1) + 1 = m
      OBVIOUS
    <2>3. IsFiniteSet(1 .. m) /\ Cardinality(1 .. m) = IF 1 > m THEN 0 ELSE (m - 1) + 1
      BY <2>2, FS_Interval
    <2>4. Cardinality(1 .. m) = m
      BY <2>2, <2>3
    <2> QED
      BY <2>1, <2>3, <2>4
  <1>12. Cardinality(R) = k - 1
    BY <1>10, <1>11, FS_Bijection
  <1> QED
    BY <1>12 DEF R

\* What parse keeps is what is claimed of it.
LEMMA ParsedRight == alpha \in Seq(BOOLEAN) /\ ParseInv => OnlyLastWrong
  <1> SUFFICES ASSUME alpha \in Seq(BOOLEAN), ParseInv, NEW k \in 1 .. Len(words) - 1
               PROVE  /\ words[k] \in Runs /\ words[k][2] < words[k + 1][1]
                      /\ Cardinality({r \in Runs : r[1] < words[k][1]}) = k - 1
    BY DEF OnlyLastWrong
  <1>1. Len(words) \in Nat
    BY DEF ParseInv
  <1>2. k \in 1 .. Len(words) /\ k + 1 \in 1 .. Len(words) /\ k < k + 1
    BY <1>1
  <1>3. words[k] \in Runs /\ words[k][2] < words[k + 1][1]
    BY <1>2 DEF ParseInv
  <1> QED
    BY <1>3, CountRuns

-----------------------------------------------------------------------------
(* Lines and pieces of the text *)

\* The text stays, and with it its lines and words.
LEMMA SameText ==
    ASSUME text' = text
    PROVE  /\ Lines' = Lines /\ TrueWords' = TrueWords /\ TrueTokens' = TrueTokens
           /\ \A p : Newlines(p)' = Newlines(p) /\ Column(p)' = Column(p)
           /\ \A p : PieceStarts(p)' = PieceStarts(p) /\ Seen(p)' = Seen(p)
           /\ Short' <=> Short
  <1>1. \A p : Newlines(p)' = Newlines(p)
    BY DEF Newlines
  <1>2. \A p : Column(p)' = Column(p)
    BY <1>1 DEF Column
  <1>3. \A p : PieceStarts(p)' = PieceStarts(p)
    BY <1>2 DEF PieceStarts
  <1>4. TrueWords' = TrueWords /\ Lines' = Lines
    BY DEF TrueWords, Lines
  <1>5. TrueTokens' = TrueTokens
    BY <1>1, <1>4 DEF TrueTokens
  <1>6. (\A p : Seen(p)' = Seen(p)) /\ (Short' <=> Short)
    BY <1>4, <1>5 DEF Seen, Short
  <1> QED
    BY <1>1, <1>2, <1>3, <1>4, <1>5, <1>6

\* A set of numbers up to p that is not empty has a greatest one.
LEMMA GreatestNat ==
    ASSUME NEW p \in Nat, NEW S \in SUBSET (0 .. p), S # {}
    PROVE  \E m \in S : \A x \in S : x <= m
  <1> DEFINE D == {p - x : x \in S}
  <1>1. D \in SUBSET Nat /\ D # {}
    <2>1. \A x \in S : p - x \in Nat
      OBVIOUS
    <2>2. PICK z : z \in S
      OBVIOUS
    <2>3. p - z \in D
      BY <2>2
    <2> QED
      BY <2>1, <2>3
  <1>2. PICK d \in D : \A y \in D : d <= y
    <2> HIDE DEF D
    <2> QED
      BY <1>1, LeastNat
  <1>3. PICK m \in S : d = p - m
    BY <1>2
  <1>4. \A x \in S : x <= m
    <2> TAKE x \in S
    <2>1. p - x \in D
      OBVIOUS
    <2>2. p - m <= p - x
      BY <1>2, <1>3, <2>1
    <2> QED
      BY <2>2
  <1> QED
    BY <1>4

\* The column of p when the line begins at n.
LEMMA ColumnIs ==
    ASSUME NEW p \in Nat, NEW n \in 0 .. p, n = 0 \/ text[n] = "newline",
           \A k \in n + 1 .. p : text[k] # "newline"
    PROVE  Column(p) = p - n
  <1> DEFINE S == Newlines(p) \cup {0}
  <1>1. S \in SUBSET Nat /\ n \in S
    BY DEF Newlines
  <1>2. \A x \in S : x <= n
    BY DEF Newlines
  <1> HIDE DEF S
  <1>3. Max(S) = n
    BY <1>1, <1>2, MaxIs
  <1> QED
    BY <1>3 DEF Column, S

\* Every place is on a line.
LEMMA LineBegins ==
    ASSUME NEW p \in Nat
    PROVE  \E n \in 0 .. p :
              /\ n = 0 \/ text[n] = "newline"
              /\ \A k \in n + 1 .. p : text[k] # "newline"
              /\ Column(p) = p - n
  <1> DEFINE S == Newlines(p) \cup {0}
  <1>1. S \in SUBSET (0 .. p) /\ S # {}
    BY DEF Newlines
  <1>2. PICK n \in S : \A x \in S : x <= n
    <2> HIDE DEF S
    <2> QED
      BY <1>1, GreatestNat
  <1>3. n \in 0 .. p /\ (n = 0 \/ text[n] = "newline")
    BY <1>1, <1>2 DEF Newlines
  <1>4. \A k \in n + 1 .. p : text[k] # "newline"
    <2> SUFFICES ASSUME NEW k \in n + 1 .. p, text[k] = "newline"
                 PROVE  FALSE
      OBVIOUS
    <2>1. k \in 1 .. p
      BY <1>3
    <2>2. k \in S
      BY <2>1 DEF Newlines
    <2> QED
      BY <1>2, <1>3, <2>1, <2>2
  <1>5. Column(p) = p - n
    BY <1>3, <1>4, ColumnIs
  <1> QED
    BY <1>3, <1>4, <1>5

\* Columns count up until the next newline.
LEMMA ColumnGrows ==
    ASSUME NEW p \in Nat, NEW w \in Nat, \A k \in p + 1 .. p + w : text[k] # "newline"
    PROVE  Column(p) \in Nat /\ Column(p + w) = Column(p) + w
  <1>1. PICK n \in 0 .. p :
           /\ n = 0 \/ text[n] = "newline"
           /\ \A k \in n + 1 .. p : text[k] # "newline"
           /\ Column(p) = p - n
    BY LineBegins
  <1>2. \A k \in n + 1 .. p + w : text[k] # "newline"
    BY <1>1
  <1>3. p + w \in Nat /\ n \in 0 .. (p + w)
    OBVIOUS
  <1>4. Column(p + w) = (p + w) - n
    BY <1>1, <1>2, <1>3, ColumnIs
  <1> QED
    BY <1>1, <1>4

\* Inside a piece of e characters no other one begins.
LEMMA NoStart ==
    ASSUME NEW b \in Nat, NEW e \in Nat, e <= max_len - 1, Column(b) % (max_len - 1) = 0,
           \A k \in b + 1 .. b + e - 1 : text[k] # "newline", NEW w \in 0 .. e - 1
    PROVE  PieceStarts(b + w) = PieceStarts(b)
  <1>1. max_len - 1 \in Nat \ {0}
    BY TokenizerAssumption
  <1>2. ASSUME NEW v \in 1 .. w
        PROVE  Column(b + v) % (max_len - 1) # 0
    <2>1. Column(b) \in Nat /\ Column(b + v) = Column(b) + v
      BY ColumnGrows
    <2>2. PICK c \in Nat, m \in Nat \ {0} : c = Column(b) /\ m = max_len - 1
      BY <1>1, <2>1
    <2>3. c % m = 0 /\ v \in 1 .. m - 1
      BY <1>1, <2>2
    <2>4. PICK q \in Nat : c = q * m
      <3>1. c \div m \in Nat /\ c = (c \div m) * m + (c % m)
        BY <2>2, DivMod
      <3>2. PICK q \in Nat : q = c \div m
        BY <3>1
      <3>3. c = q * m + 0
        BY <2>3, <3>1, <3>2
      <3>4. q * m \in Nat
        OBVIOUS
      <3> QED
        BY <3>3, <3>4
    <2>5. (c + v) % m = v
      <3>1. c + v \in Nat /\ v \in 0 .. m - 1 /\ c + v = q * m + v
        BY <2>3, <2>4
      <3> QED
        BY <3>1, RestIs
    <2> QED
      BY <2>1, <2>2, <2>3, <2>5
  <1>3. ASSUME NEW x \in 0 .. b + w, Column(x) % (max_len - 1) = 0
        PROVE  x \in 0 .. b
    <2> SUFFICES ASSUME x > b
                 PROVE  FALSE
      OBVIOUS
    <2>1. x - b \in 1 .. w /\ b + (x - b) = x
      OBVIOUS
    <2> QED
      BY <1>2, <1>3, <2>1
  <1>4. 0 .. b \subseteq 0 .. b + w
    OBVIOUS
  <1> QED
    BY <1>3, <1>4 DEF PieceStarts

\* The next piece is one more.
LEMMA NextStart ==
    ASSUME NEW b \in Nat, NEW e \in Nat \ {0}, e <= max_len - 1, Column(b) % (max_len - 1) = 0,
           \A k \in b + 1 .. b + e - 1 : text[k] # "newline", Column(b + e) % (max_len - 1) = 0
    PROVE  Cardinality(PieceStarts(b + e)) = Cardinality(PieceStarts(b)) + 1
  <1>1. e - 1 \in 0 .. e - 1 /\ b + (e - 1) = b + e - 1 /\ b + e \in Nat
    OBVIOUS
  <1>2. PieceStarts(b + e - 1) = PieceStarts(b)
    BY <1>1, NoStart
  <1>3. PieceStarts(b + e) = PieceStarts(b + e - 1) \cup {b + e}
    <2>1. \A x : x \in 0 .. b + e <=> x \in 0 .. b + e - 1 \/ x = b + e
      BY <1>1
    <2> QED
      BY <2>1 DEF PieceStarts
  <1>4. IsFiniteSet(PieceStarts(b)) /\ b + e \notin PieceStarts(b)
    <2>1. IsFiniteSet(0 .. b) /\ PieceStarts(b) \subseteq 0 .. b /\ b + e \notin 0 .. b
      BY FS_Interval DEF PieceStarts
    <2> QED
      BY <2>1, FS_Subset
  <1> QED
    BY <1>2, <1>3, <1>4, FS_AddElement

\* Where fgets stops.
LEMMA PieceEndIs ==
    ASSUME text \in Seq(Chars), pos \in Nat, pos < Len(text)
    PROVE  \E e \in 1 .. max_len - 1 :
              /\ PieceEnd = pos + e /\ pos + e <= Len(text)
              /\ \A k \in pos + 1 .. pos + e - 1 : text[k] # "newline"
              /\ pos + e = Len(text) \/ text[pos + e] = "newline" \/ e = max_len - 1
  <1> DEFINE S == {k \in pos + 1 .. Len(text) :
                      k = Len(text) \/ k = pos + max_len - 1 \/ text[k] = "newline"}
  <1>1. Len(text) \in Nat /\ max_len \in Nat /\ max_len > 1
    BY TokenizerAssumption
  <1>2. S \in SUBSET Nat /\ Len(text) \in S
    BY <1>1
  <1>3. Min(S) \in S /\ \A x \in S : Min(S) <= x
    <2> HIDE DEF S
    <2> QED
      BY <1>2, MinIn
  <1>4. PICK m : m = Min(S)
    OBVIOUS
  <1>5. /\ m \in pos + 1 .. Len(text)
        /\ m = Len(text) \/ m = pos + max_len - 1 \/ text[m] = "newline"
    BY <1>3, <1>4
  <1>6. ASSUME NEW k \in pos + 1 .. m - 1
        PROVE  k # pos + max_len - 1 /\ text[k] # "newline"
    <2>1. k \in pos + 1 .. Len(text) /\ ~(m <= k)
      BY <1>1, <1>5
    <2>2. k \notin S
      BY <1>3, <1>4, <2>1
    <2> QED
      BY <2>1, <2>2
  <1>7. PICK e : e = m - pos
    OBVIOUS
  <1>8. e \in 1 .. max_len - 1 /\ m = pos + e
    <2>1. ~(pos + max_len - 1 \in pos + 1 .. m - 1)
      BY <1>6
    <2> QED
      BY <1>1, <1>5, <1>7, <2>1
  <1>9. PieceEnd = m
    BY <1>4 DEF PieceEnd
  <1> QED
    BY <1>1, <1>5, <1>6, <1>8, <1>9

\* What fgets does: a piece of e characters is in buf.
Read(e) ==
    /\ at = "read" /\ pos < Len(text)
    /\ e \in 1 .. max_len - 1 /\ pos + e <= Len(text)
    /\ \A k \in pos + 1 .. pos + e - 1 : text[k] # "newline"
    /\ pos + e = Len(text) \/ text[pos + e] = "newline" \/ e = max_len - 1
    /\ alpha' \in Seq(BOOLEAN) /\ Len(alpha') = e
    /\ \A k \in 1 .. e : alpha'[k] <=> text[pos + k] = "letter"
    /\ pos' = pos + e /\ text' = text /\ tokens' = tokens
    /\ index' = 0 /\ words' = <<>> /\ done' = FALSE
    /\ line_num' = line_num + 1 /\ at' = "parse"
    /\ eof' \in BOOLEAN /\ (eof' => pos + e = Len(text))

\* A call of fgets does that.
LEMMA ReadIs ==
    ASSUME text \in Seq(Chars), pos \in Nat, ReadLine
    PROVE  \E e \in Nat \ {0} : Read(e)
  <1>1. at = "read" /\ pos < Len(text)
    BY DEF ReadLine
  <1>2. PICK e \in 1 .. max_len - 1 :
              /\ PieceEnd = pos + e /\ pos + e <= Len(text)
              /\ \A k \in pos + 1 .. pos + e - 1 : text[k] # "newline"
              /\ pos + e = Len(text) \/ text[pos + e] = "newline" \/ e = max_len - 1
    BY <1>1, PieceEndIs
  <1>3. max_len \in Nat /\ Len(text) \in Nat /\ PieceEnd - pos = e /\ e \in Nat \ {0}
    BY <1>2, TokenizerAssumption
  <1>4. /\ alpha' = [k \in 1 .. e |-> text[pos + k] = "letter"]
        /\ index' = 0 /\ words' = <<>> /\ done' = FALSE
        /\ pos' = pos + e /\ eof' = (e < max_len - 1 /\ text[pos + e] # "newline")
        /\ line_num' = line_num + 1 /\ at' = "parse" /\ text' = text /\ tokens' = tokens
    BY <1>2, <1>3 DEF ReadLine, Call
  <1>5. alpha' \in Seq(BOOLEAN) /\ Len(alpha') = e
    BY <1>3, <1>4
  <1>6. \A k \in 1 .. e : alpha'[k] <=> text[pos + k] = "letter"
    BY <1>4
  <1>7. eof' \in BOOLEAN /\ (eof' => pos + e = Len(text))
    <2>1. CASE e < max_len - 1 /\ text[pos + e] # "newline"
      <3>1. pos + e = Len(text)
        BY <1>2, <1>3, <2>1
      <3> QED
        BY <1>4, <3>1
    <2>2. CASE ~(e < max_len - 1 /\ text[pos + e] # "newline")
      <3>1. eof' = FALSE
        BY <1>4, <2>2
      <3> QED
        BY <3>1
    <2> QED
      BY <2>1, <2>2
  <1> QED
    BY <1>1, <1>2, <1>3, <1>4, <1>5, <1>6, <1>7 DEF Read

\* The piece in buf begins at b and ends at pos.
LEMMA PieceIs ==
    ASSUME TypeOK, text \in Seq(Chars), PieceInv
    PROVE  \E b \in 0 .. Len(text) :
              /\ Base = b /\ b + End = pos /\ End \in Nat /\ pos \in Nat /\ Len(text) \in Nat
              /\ End <= max_len - 1 /\ pos <= Len(text) /\ max_len \in Nat
  <1>1. pos \in 0 .. Len(text) /\ Len(text) \in Nat
    BY DEF TypeOK
  <1>2. End \in Nat /\ End <= pos /\ End < max_len /\ max_len \in Nat
    BY TokenizerAssumption DEF PieceInv, End
  <1>3. Base = pos - End
    BY DEF Base
  <1> QED
    BY <1>1, <1>2, <1>3

-----------------------------------------------------------------------------
(* The steps of tokenizer, for texts of any lines *)

\* The beginning.
LEMMA InitCore == Init => CoreInv
  <1> SUFFICES ASSUME Init
               PROVE  CoreInv
    OBVIOUS
  <1>1. /\ pos = 0 /\ eof = FALSE /\ line_num = 1 /\ alpha = <<>> /\ index = 0 /\ words = <<>>
        /\ done = TRUE /\ at = "open" /\ tokens = <<>>
    BY DEF Init
  <1>2. text \in Seq(Chars) /\ Len(text) \in Nat
    <2>1. PICK n \in 0 .. MaxText : text \in [1 .. n -> Chars]
      BY DEF Init
    <2>2. n \in Nat
      BY <2>1, DocumentAssumption
    <2> QED
      BY <2>1, <2>2
  <1>3. End = 0 /\ Len(words) = 0 /\ Len(tokens) = 0 /\ Base = 0 /\ 0 < max_len
    <2>1. Len(alpha) = 0 /\ Len(words) = 0 /\ Len(tokens) = 0
      BY <1>1
    <2>2. End = 0 /\ 0 < max_len
      BY <2>1, TokenizerAssumption DEF End
    <2> QED
      BY <1>1, <2>1, <2>2 DEF Base
  <1>4. alpha \in Seq(BOOLEAN) /\ words \in Seq((0 .. End) \X (0 .. End))
        /\ tokens \in Seq((0 .. Len(text)) \X (0 .. Len(text)) \X Nat)
    BY <1>1
  <1>5. TypeOK
    <2>1. /\ pos \in 0 .. Len(text) /\ line_num \in Nat \ {0}
          /\ index \in 0 .. End /\ End < max_len /\ Len(words) <= End
      BY <1>1, <1>2, <1>3
    <2>2. eof \in BOOLEAN /\ done \in BOOLEAN
      BY <1>1, Zenon
    <2>3. at \in {"open", "read", "parse", "closed", "failed", "corrupt"}
      BY <1>1
    <2> QED
      BY <1>4, <2>1, <2>2, <2>3 DEF TypeOK
  <1>6. PieceInv
    BY <1>1, <1>2, <1>3, <1>4 DEF PieceInv
  <1>7. ParseInv
    BY <1>1, <1>3, <1>4 DEF ParseInv
  <1>8. LineNumbers /\ CopyInv
    BY <1>1, <1>3 DEF LineNumbers, CopyInv
  <1>9. Column(0) = 0
    BY ColumnIs
  <1>10. 0 % (max_len - 1) = 0
    BY TokenizerAssumption
  <1>11. Cardinality(PieceStarts(0)) = 1
    <2>1. PieceStarts(0) = {0}
      BY <1>9, <1>10 DEF PieceStarts
    <2> QED
      BY <2>1, FS_Singleton
  <1>12. NumberInv
    BY <1>1, <1>9, <1>10, <1>11 DEF NumberInv
  <1> QED
    BY <1>2, <1>5, <1>6, <1>7, <1>8, <1>12 DEF CoreInv

\* A piece is read.
LEMMA ReadCore ==
    ASSUME CoreInv, NEW e \in Nat \ {0}, Read(e)
    PROVE  CoreInv'
  <1>1. /\ TypeOK /\ text \in Seq(Chars) /\ NumberInv /\ LineNumbers
    BY DEF CoreInv
  <1>2. /\ at = "read" /\ pos < Len(text)
        /\ e \in 1 .. max_len - 1 /\ pos + e <= Len(text)
        /\ \A k \in pos + 1 .. pos + e - 1 : text[k] # "newline"
        /\ pos + e = Len(text) \/ text[pos + e] = "newline" \/ e = max_len - 1
        /\ alpha' \in Seq(BOOLEAN) /\ Len(alpha') = e
        /\ \A k \in 1 .. e : alpha'[k] <=> text[pos + k] = "letter"
        /\ pos' = pos + e /\ text' = text /\ tokens' = tokens
        /\ index' = 0 /\ words' = <<>> /\ done' = FALSE
        /\ line_num' = line_num + 1 /\ at' = "parse"
        /\ eof' \in BOOLEAN /\ (eof' => pos + e = Len(text))
    BY DEF Read
  <1>3. pos \in Nat /\ Len(text) \in Nat /\ max_len \in Nat /\ line_num \in Nat \ {0}
    BY <1>1, TokenizerAssumption DEF TypeOK
  <1>4. End' = e /\ Base' = pos
    BY <1>2, <1>3 DEF End, Base
  <1>5. TypeOK'
    <2>1. tokens' \in Seq((0 .. Len(text')) \X (0 .. Len(text')) \X Nat)
      BY <1>1, <1>2 DEF TypeOK
    <2>2. (words \in Seq((0 .. End) \X (0 .. End)))' /\ Len(words') = 0
      BY <1>2
    <2>3. /\ pos' \in 0 .. Len(text') /\ line_num' \in Nat \ {0}
          /\ index' \in 0 .. End' /\ End' < max_len /\ Len(words') <= End'
      <3>1. index' = 0 /\ pos' = pos + e /\ text' = text /\ line_num' = line_num + 1
        BY <1>2
      <3>2. pos + e <= Len(text) /\ e <= max_len - 1
        BY <1>2, <1>3
      <3> QED
        BY <1>3, <1>4, <2>2, <3>1, <3>2
    <2>4. eof' \in BOOLEAN /\ done' \in BOOLEAN
      BY <1>2, Zenon
    <2>5. at' \in {"open", "read", "parse", "closed", "failed", "corrupt"}
      BY <1>2
    <2> QED
      BY <2>1, <2>2, <2>3, <2>4, <2>5 DEF TypeOK
  <1>6. PieceInv'
    BY <1>2, <1>3, <1>4 DEF PieceInv
  <1>7. ParseInv'
    <2>1. (words \in Seq((0 .. End) \X (0 .. End)))' /\ Len(words') = 0
      BY <1>2
    <2>2. \A r \in Runs' : ~(r[1] < index')
      BY <1>2, <1>4 DEF Runs
    <2>3. /\ (index \in 0 .. End)' /\ (Len(words) <= End)' /\ (Len(words) <= index)'
          /\ ~(index' > 0)
      <3>1. index' = 0
        BY <1>2
      <3> QED
        BY <1>4, <2>1, <3>1
    <2>5. done' \in BOOLEAN
      BY <1>2, Zenon
    <2>4. \A k : k \notin 1 .. Len(words')
      BY <2>1
    <2> QED
      BY <2>1, <2>2, <2>3, <2>4, <2>5 DEF ParseInv
  <1>8. NumberInv'
    <2>1. Column(pos) % (max_len - 1) = 0 /\ line_num = Cardinality(PieceStarts(pos))
      BY <1>1, <1>2, <1>3 DEF NumberInv
    <2>2. \A p : PieceStarts(p)' = PieceStarts(p) /\ Column(p)' = Column(p)
      BY <1>2, SameText
    <2>3. ASSUME NEW b \in 0 .. Len(text), b = pos
          PROVE  (Column(b) % (max_len - 1) = 0)' /\ line_num' = 1 + Cardinality(PieceStarts(b)')
      BY <1>2, <1>3, <2>1, <2>2, <2>3
    <2> QED
      BY <1>2, <1>4, <2>3 DEF NumberInv
  <1>9. LineNumbers'
    <2>1. \A p : PieceStarts(p)' = PieceStarts(p)
      BY <1>2, SameText
    <2> QED
      BY <1>1, <1>2, <2>1 DEF LineNumbers
  <1>10. CopyInv'
    BY <1>2 DEF CopyInv
  <1> QED
    BY <1>1, <1>2, <1>5, <1>6, <1>7, <1>8, <1>9, <1>10 DEF CoreInv

\* Letters are part of a word of the text.
LEMMA Covered ==
    ASSUME text \in Seq(Chars), NEW x \in 0 .. Len(text), NEW y \in 0 .. Len(text), x < y,
           \A k \in x + 1 .. y : text[k] = "letter"
    PROVE  \E r \in TrueWords : r[1] <= x /\ r[2] >= y /\ r[1] \in Nat /\ r[2] \in Nat
  <1>1. Len(text) \in Nat /\ x \in Nat /\ y \in Nat
    OBVIOUS
  <1> DEFINE L == {k \in 0 .. x : k = 0 \/ text[k] # "letter"}
             R == {k \in y .. Len(text) : k = Len(text) \/ text[k + 1] # "letter"}
  <1>2. L \in SUBSET (0 .. x) /\ L # {}
    <2>1. 0 \in L
      OBVIOUS
    <2> QED
      BY <2>1
  <1>3. R \in SUBSET Nat /\ R # {}
    <2>1. Len(text) \in R
      BY <1>1
    <2> QED
      BY <1>1, <2>1
  <1>4. PICK s \in L : \A k \in L : k <= s
    <2> HIDE DEF L
    <2> QED
      BY <1>1, <1>2, GreatestNat
  <1>5. PICK t \in R : \A k \in R : t <= k
    <2> HIDE DEF R
    <2> QED
      BY <1>3, LeastNat
  <1>6. s \in 0 .. x /\ (s > 0 => text[s] # "letter") /\ s \in Nat
    BY <1>1, <1>4
  <1>7. t \in y .. Len(text) /\ (t < Len(text) => text[t + 1] # "letter") /\ t \in Nat
    BY <1>1, <1>5
  <1>8. ASSUME NEW k \in s + 1 .. t
        PROVE  text[k] = "letter"
    <2>1. CASE k <= x
      <3>1. k \in 0 .. x /\ ~(k <= s)
        BY <1>1, <1>6, <2>1
      <3>2. k \notin L
        BY <1>4, <3>1
      <3> QED
        BY <3>1, <3>2
    <2>2. CASE x < k /\ k <= y
      BY <1>1, <1>6, <2>2
    <2>3. CASE y < k
      <3>1. k - 1 \in y .. Len(text) /\ k - 1 # Len(text) /\ ~(t <= k - 1) /\ (k - 1) + 1 = k
        BY <1>1, <1>6, <1>7, <2>3
      <3>2. k - 1 \notin R
        BY <1>5, <3>1
      <3> QED
        BY <3>1, <3>2
    <2> QED
      BY <1>1, <1>6, <2>1, <2>2, <2>3
  <1>9. s < t /\ s \in 0 .. Len(text) /\ t \in 0 .. Len(text)
    BY <1>1, <1>6, <1>7
  <1>10. PICK r : r = <<s, t>>
    OBVIOUS
  <1>11. r[1] = s /\ r[2] = t /\ r \in (0 .. Len(text)) \X (0 .. Len(text))
    BY <1>9, <1>10
  <1>12. r \in TrueWords
    BY <1>6, <1>7, <1>8, <1>9, <1>11 DEF TrueWords
  <1> QED
    BY <1>1, <1>6, <1>7, <1>11, <1>12

\* A word whose copy does not fit is a long one.
LEMMA LongCopy ==
    ASSUME NEW n \in Nat, ~CopyFits(n)
    PROVE  n >= MAX_WORD_LEN
  BY DocumentAssumption DEF CopyFits, StrCopy, StrGetLength

\* A word is found: what tokenizer does with it.
Taken(a, b, i) ==
    /\ at = "parse" /\ Word /\ Found(a, b, i)
    /\ UNCHANGED <<text, pos, eof, line_num>>
    /\ tokens' = Append(tokens, <<Base + a, Base + b, line_num - 1>>)
    /\ at' = IF CopyFits(b - a) THEN "parse" ELSE "corrupt"

\* A round of parse does that.
LEMMA TokenIs ==
    ASSUME CoreInv, Token
    PROVE  \E a, b, i \in Nat : Taken(a, b, i)
  <1>1. /\ alpha \in Seq(BOOLEAN) /\ End < max_len /\ index \in 0 .. End
        /\ words \in Seq((0 .. End) \X (0 .. End))
    BY DEF CoreInv, PieceInv, ParseInv
  <1>2. at = "parse" /\ Word /\ UNCHANGED <<text, pos, eof, line_num>>
    BY DEF Token, file
  <1>3. PICK a, b, i \in Nat : Found(a, b, i)
    BY <1>1, <1>2, WordIs
  <1>4. words' = Append(words, <<a, b>>) /\ <<a, b>> \in (0 .. End) \X (0 .. End)
    <2>1. words' = Append(words, <<a, b>>) /\ a \in index .. End - 1 /\ b \in a .. End /\ End \in Nat
      BY <1>1, <1>3 DEF Found, End
    <2> QED
      BY <1>1, <2>1
  <1>5. PICK w : w = words'[Len(words')]
    OBVIOUS
  <1>6. w = <<a, b>>
    <2>1. Append(words, <<a, b>>)[Len(Append(words, <<a, b>>))] = <<a, b>>
      BY <1>1, <1>4, AppendIs
    <2> QED
      BY <1>4, <1>5, <2>1
  <1>7. w[1] = a /\ w[2] = b
    BY <1>6
  <1>8. /\ tokens' = Append(tokens, <<Base + w[1], Base + w[2], line_num - 1>>)
        /\ at' = IF CopyFits(w[2] - w[1]) THEN "parse" ELSE "corrupt"
    BY <1>5 DEF Token
  <1>9. /\ tokens' = Append(tokens, <<Base + a, Base + b, line_num - 1>>)
        /\ at' = IF CopyFits(b - a) THEN "parse" ELSE "corrupt"
    BY <1>7, <1>8
  <1> QED
    BY <1>2, <1>3, <1>9 DEF Taken

\* A word is found, and the invariant is kept.
LEMMA TokenCore ==
    ASSUME CoreInv, NEW a \in Nat, NEW b \in Nat, NEW i \in Nat, Taken(a, b, i)
    PROVE  CoreInv'
  <1>1. TypeOK /\ text \in Seq(Chars) /\ PieceInv /\ ParseInv /\ NumberInv /\ LineNumbers
    BY DEF CoreInv
  <1>2. /\ at = "parse" /\ Word /\ text' = text /\ pos' = pos /\ eof' = eof /\ line_num' = line_num
        /\ tokens' = Append(tokens, <<Base + a, Base + b, line_num - 1>>)
        /\ at' = IF CopyFits(b - a) THEN "parse" ELSE "corrupt"
    BY DEF Taken
  <1>3. /\ a \in index .. End - 1 /\ b \in a .. End /\ alpha' = alpha
        /\ \A j \in a .. b - 1 : IsAlpha(j)
    BY DEF Taken, Found
  <1>4. PICK d \in 0 .. Len(text) :
           /\ Base = d /\ d + End = pos /\ End \in Nat /\ pos \in Nat /\ Len(text) \in Nat
           /\ End <= max_len - 1 /\ pos <= Len(text) /\ max_len \in Nat
    BY <1>1, PieceIs
  <1>5. alpha \in Seq(BOOLEAN) /\ index \in 0 .. End /\ End < max_len
    BY <1>1, <1>4 DEF PieceInv, ParseInv
  <1>6. /\ a \in 0 .. End - 1 /\ b \in 0 .. End
        /\ d + a \in 0 .. Len(text) /\ d + b \in 0 .. Len(text) /\ d + b <= pos
    BY <1>3, <1>4, <1>5
  <1>7. End' = End /\ Base' = Base
    BY <1>2, <1>3 DEF End, Base
  <1>8. ParseInv'
    BY <1>1, <1>2, <1>5, WordKeeps
  <1>9. PICK n : n = <<d + a, d + b, line_num - 1>>
    OBVIOUS
  <1>10. /\ n[1] = d + a /\ n[2] = d + b /\ n[3] = line_num - 1
         /\ n \in (0 .. Len(text)) \X (0 .. Len(text)) \X Nat
    <2>1. line_num - 1 \in Nat
      BY <1>1 DEF TypeOK
    <2> QED
      BY <1>6, <1>9, <2>1
  <1>11. tokens' = Append(tokens, n)
    BY <1>2, <1>4, <1>9
  <1>12. PICK S : S = (0 .. Len(text)) \X (0 .. Len(text)) \X Nat
    OBVIOUS
  <1>13. /\ tokens' \in Seq(S) /\ Len(tokens) \in Nat /\ Len(tokens') = Len(tokens) + 1
         /\ \A k \in 1 .. Len(tokens) : tokens'[k] = tokens[k]
         /\ tokens'[Len(tokens) + 1] = n
         /\ \A k \in 1 .. Len(tokens) + 1 : k \in 1 .. Len(tokens) \/ k = Len(tokens) + 1
    <2>1. tokens \in Seq(S) /\ n \in S
      BY <1>1, <1>10, <1>12 DEF TypeOK
    <2> QED
      BY <1>11, <2>1, AppendIs
  <1>14. TypeOK'
    <2>1. /\ pos' \in 0 .. Len(text') /\ eof' \in BOOLEAN /\ line_num' \in Nat \ {0}
      BY <1>1, <1>2 DEF TypeOK
    <2>2. (/\ index \in 0 .. End /\ done \in BOOLEAN
           /\ words \in Seq((0 .. End) \X (0 .. End)) /\ Len(words) <= End)'
      BY <1>8 DEF ParseInv
    <2>3. at' \in {"open", "read", "parse", "closed", "failed", "corrupt"}
      BY <1>2
    <2>4. End' < max_len
      BY <1>5, <1>7
    <2>5. (tokens \in Seq((0 .. Len(text)) \X (0 .. Len(text)) \X Nat))'
      BY <1>2, <1>12, <1>13
    <2> QED
      BY <2>1, <2>2, <2>3, <2>4, <2>5 DEF TypeOK
  <1>15. PieceInv'
    BY <1>1, <1>2, <1>3, <1>7 DEF PieceInv
  <1>16. Column(d) % (max_len - 1) = 0 /\ line_num = 1 + Cardinality(PieceStarts(d))
    BY <1>1, <1>2, <1>4 DEF NumberInv
  <1>17. \A p : PieceStarts(p)' = PieceStarts(p) /\ Column(p)' = Column(p)
    BY <1>2, SameText
  <1>18. NumberInv'
    <2> SUFFICES ASSUME NEW c \in 0 .. Len(text), c = Base, at' = "parse"
                 PROVE  (Column(c) % (max_len - 1) = 0)' /\ line_num' = 1 + Cardinality(PieceStarts(c)')
      BY <1>2, <1>7 DEF NumberInv
    <2>1. c = d
      BY <1>4
    <2> QED
      BY <1>2, <1>16, <1>17, <2>1
  <1>19. LineNumbers'
    <2>1. PieceStarts(d + a) = PieceStarts(d)
      <3>1. \A k \in d + 1 .. d + End - 1 : text[k] # "newline"
        BY <1>1, <1>4 DEF PieceInv
      <3>2. d \in Nat /\ a \in 0 .. End - 1
        BY <1>6
      <3> QED
        BY <1>4, <1>16, <3>1, <3>2, NoStart
    <2>2. Cardinality(PieceStarts(d)) \in Nat
      <3>1. IsFiniteSet(0 .. d) /\ PieceStarts(d) \subseteq 0 .. d
        BY <1>4, FS_Interval DEF PieceStarts
      <3> QED
        BY <3>1, FS_Subset, FS_CardinalityType
    <2>3. n[3] = Cardinality(PieceStarts(n[1]))
      <3>1. PICK c \in Nat : c = Cardinality(PieceStarts(d))
        BY <2>2
      <3>2. line_num = 1 + c
        BY <1>16, <3>1
      <3>3. line_num - 1 = c
        BY <3>2
      <3> QED
        BY <1>10, <2>1, <3>1, <3>3
    <2>4. ASSUME NEW k \in 1 .. Len(tokens) + 1
          PROVE  tokens'[k][3] = Cardinality(PieceStarts(tokens'[k][1]))
      <3>1. CASE k \in 1 .. Len(tokens)
        BY <1>1, <1>13, <3>1 DEF LineNumbers
      <3>2. CASE k = Len(tokens) + 1
        BY <1>13, <2>3, <3>2
      <3> QED
        BY <1>13, <3>1, <3>2
    <2> QED
      BY <1>13, <1>17, <2>4 DEF LineNumbers
  <1>20. CopyInv'
    <2> SUFFICES ASSUME at' = "corrupt"
                 PROVE  \E r \in TrueWords' : r[2] - r[1] >= MAX_WORD_LEN
      BY DEF CopyInv
    <2>1. b - a \in Nat /\ ~CopyFits(b - a)
      BY <1>2, <1>3
    <2>2. b - a >= MAX_WORD_LEN /\ MAX_WORD_LEN \in Nat \ {0}
      BY <2>1, LongCopy, DocumentAssumption
    <2>3. \A k \in (d + a) + 1 .. d + b : text[k] = "letter"
      <3> TAKE k \in (d + a) + 1 .. d + b
      <3>1. k - d \in 1 .. End /\ (k - d) - 1 \in a .. b - 1 /\ d + (k - d) = k
            /\ ((k - d) - 1) + 1 = k - d
        BY <1>4, <1>6
      <3>2. alpha[k - d]
        BY <1>3, <3>1 DEF IsAlpha
      <3> QED
        BY <1>1, <1>4, <3>1, <3>2 DEF PieceInv
    <2>4. d + a < d + b
      BY <2>2
    <2>5. PICK r \in TrueWords : r[1] <= d + a /\ r[2] >= d + b /\ r[1] \in Nat /\ r[2] \in Nat
      BY <1>1, <1>6, <2>3, <2>4, Covered
    <2>6. r[2] - r[1] >= MAX_WORD_LEN
      BY <2>2, <2>5
    <2> QED
      BY <1>2, <2>5, <2>6, SameText
  <1> QED
    BY <1>1, <1>2, <1>8, <1>14, <1>15, <1>18, <1>19, <1>20 DEF CoreInv

\* What a step keeps that leaves the file, the piece and the tokens alone.
LEMMA Unread ==
    ASSUME CoreInv, UNCHANGED <<text, pos, eof, line_num, alpha, tokens>>, ParseInv', NumberInv',
           at' \in {"read", "parse", "closed", "failed"}, at' = "parse" => at = "parse"
    PROVE  CoreInv'
  <1>1. TypeOK /\ text \in Seq(Chars) /\ PieceInv /\ LineNumbers
    BY DEF CoreInv
  <1>2. /\ text' = text /\ pos' = pos /\ eof' = eof /\ line_num' = line_num
        /\ alpha' = alpha /\ tokens' = tokens
    OBVIOUS
  <1>3. End' = End /\ Base' = Base
    BY <1>2 DEF End, Base
  <1>4. TypeOK'
    <2>1. (pos \in 0 .. Len(text) /\ eof \in BOOLEAN /\ line_num \in Nat \ {0} /\ End < max_len)'
      BY <1>1, <1>2, <1>3 DEF TypeOK
    <2>2. (/\ index \in 0 .. End /\ done \in BOOLEAN
           /\ words \in Seq((0 .. End) \X (0 .. End)) /\ Len(words) <= End)'
      BY DEF ParseInv
    <2>3. (tokens \in Seq((0 .. Len(text)) \X (0 .. Len(text)) \X Nat))'
      BY <1>1, <1>2 DEF TypeOK
    <2>4. at' \in {"open", "read", "parse", "closed", "failed", "corrupt"}
      OBVIOUS
    <2> QED
      BY <2>1, <2>2, <2>3, <2>4 DEF TypeOK
  <1>5. PieceInv'
    BY <1>1, <1>2, <1>3 DEF PieceInv
  <1>6. LineNumbers'
    <2>1. \A p : PieceStarts(p)' = PieceStarts(p)
      BY <1>2, SameText
    <2> QED
      BY <1>1, <1>2, <2>1 DEF LineNumbers
  <1>7. CopyInv'
    BY DEF CopyInv
  <1> QED
    BY <1>1, <1>2, <1>4, <1>5, <1>6, <1>7 DEF CoreInv

\* parse keeps its invariant as long as it does nothing.
LEMMA ParserStays ==
    ASSUME ParseInv, UNCHANGED parser
    PROVE  ParseInv'
  <1>1. alpha' = alpha /\ index' = index /\ words' = words /\ done' = done
    BY DEF parser
  <1>2. Runs' = Runs /\ End' = End
    BY <1>1, SameString
  <1> QED
    BY <1>1, <1>2 DEF ParseInv, IsAlpha

\* After a piece that is not the last the next one begins.
LEMMA PieceFollows ==
    ASSUME CoreInv, at = "parse", pos < Len(text)
    PROVE  Column(pos) % (max_len - 1) = 0 /\ line_num = Cardinality(PieceStarts(pos))
  <1>1. TypeOK /\ text \in Seq(Chars) /\ PieceInv /\ NumberInv
    BY DEF CoreInv
  <1>2. PICK d \in 0 .. Len(text) :
           /\ Base = d /\ d + End = pos /\ End \in Nat /\ pos \in Nat /\ Len(text) \in Nat
           /\ End <= max_len - 1 /\ pos <= Len(text) /\ max_len \in Nat
    BY <1>1, PieceIs
  <1>3. /\ End > 0 /\ \A k \in d + 1 .. pos - 1 : text[k] # "newline"
        /\ pos \in {0, Len(text)} \/ text[pos] = "newline" \/ End = max_len - 1
    BY <1>1, <1>2 DEF PieceInv
  <1>4. Column(d) % (max_len - 1) = 0 /\ line_num = 1 + Cardinality(PieceStarts(d))
    BY <1>1, <1>2 DEF NumberInv
  <1>5. max_len - 1 \in Nat \ {0} /\ pos # 0
    BY <1>2, <1>3, TokenizerAssumption
  <1>6. Column(pos) % (max_len - 1) = 0
    <2>1. CASE text[pos] = "newline"
      <3>1. pos \in 0 .. pos /\ \A k \in pos + 1 .. pos : text[k] # "newline"
        BY <1>2
      <3>2. Column(pos) = pos - pos
        BY <1>2, <2>1, <3>1, ColumnIs
      <3>3. Column(pos) = 0
        BY <1>2, <3>2
      <3>4. 0 % (max_len - 1) = 0
        BY TokenizerAssumption
      <3> QED
        BY <3>3, <3>4
    <2>2. CASE text[pos] # "newline"
      <3>1. End = max_len - 1
        BY <1>2, <1>3, <1>5, <2>2
      <3>2. \A k \in d + 1 .. d + End : text[k] # "newline"
        BY <1>2, <1>3, <2>2
      <3>3. Column(d) \in Nat /\ Column(d + End) = Column(d) + End
        BY <1>2, <3>2, ColumnGrows
      <3>4. PICK c \in Nat, m \in Nat \ {0} : c = Column(d) /\ m = max_len - 1
        BY <1>5, <3>3
      <3>5. PICK q \in Nat : q = c \div m /\ c = q * m + (c % m)
        BY <3>4, DivMod
      <3>6. c % m = 0 /\ q * m \in Nat
        BY <1>4, <3>4
      <3>7. c + m = (q + 1) * m + 0
        BY <3>4, <3>5, <3>6
      <3>8. (c + m) % m = 0
        <4>1. c + m \in Nat /\ q + 1 \in Nat /\ 0 \in 0 .. m - 1
          OBVIOUS
        <4> QED
          BY <3>7, <4>1, RestIs
      <3> QED
        BY <1>2, <3>1, <3>3, <3>4, <3>8
    <2> QED
      BY <2>1, <2>2
  <1>7. Cardinality(PieceStarts(d + End)) = Cardinality(PieceStarts(d)) + 1
    <2>1. d \in Nat /\ End \in Nat \ {0} /\ d + End - 1 = pos - 1
      BY <1>2, <1>3
    <2> QED
      BY <1>2, <1>3, <1>4, <1>6, <2>1, NextStart
  <1>8. Cardinality(PieceStarts(d)) \in Nat
    <2>1. IsFiniteSet(0 .. d) /\ PieceStarts(d) \subseteq 0 .. d
      BY <1>2, FS_Interval DEF PieceStarts
    <2> QED
      BY <2>1, FS_Subset, FS_CardinalityType
  <1> QED
    BY <1>2, <1>4, <1>6, <1>7, <1>8

\* The document is opened, or not.
LEMMA OpenCore ==
    ASSUME CoreInv, Open
    PROVE  CoreInv'
  <1>1. ParseInv /\ NumberInv
    BY DEF CoreInv
  <1>2. /\ at = "open" /\ at' \in {"read", "failed"} /\ UNCHANGED parser
        /\ UNCHANGED <<text, pos, eof, line_num, alpha, tokens>>
    BY DEF Open, parser, file
  <1>3. ParseInv'
    BY <1>1, <1>2, ParserStays
  <1>4. \A p : PieceStarts(p)' = PieceStarts(p) /\ Column(p)' = Column(p)
    BY <1>2, SameText
  <1>5. NumberInv'
    BY <1>1, <1>2, <1>4 DEF NumberInv
  <1> QED
    BY <1>2, <1>3, <1>5, Unread

\* parse returns.
LEMMA LineParsedCore ==
    ASSUME CoreInv, LineParsed
    PROVE  CoreInv'
  <1>1. ParseInv /\ NumberInv
    BY DEF CoreInv
  <1>2. /\ at = "parse" /\ at' = at /\ Return
        /\ UNCHANGED <<text, pos, eof, line_num, alpha, tokens>>
    BY DEF LineParsed, Return, file
  <1>3. ParseInv'
    BY <1>1, <1>2, ReturnKeeps
  <1>4. \A p : PieceStarts(p)' = PieceStarts(p) /\ Column(p)' = Column(p)
    BY <1>2, SameText
  <1>5. Base' = Base
    BY <1>2 DEF Base, End
  <1>6. NumberInv'
    BY <1>1, <1>2, <1>4, <1>5 DEF NumberInv
  <1> QED
    BY <1>2, <1>3, <1>6, Unread

\* The loop goes on.
LEMMA NextPieceCore ==
    ASSUME CoreInv, NextPiece
    PROVE  CoreInv'
  <1>1. ParseInv
    BY DEF CoreInv
  <1>2. /\ at = "parse" /\ at' = "read" /\ UNCHANGED parser
        /\ UNCHANGED <<text, pos, eof, line_num, alpha, tokens>>
    BY DEF NextPiece, parser, file
  <1>3. ParseInv'
    BY <1>1, <1>2, ParserStays
  <1>4. \A p : PieceStarts(p)' = PieceStarts(p) /\ Column(p)' = Column(p)
    BY <1>2, SameText
  <1>5. NumberInv'
    <2> SUFFICES ASSUME NEW b \in 0 .. Len(text), b = pos, pos < Len(text)
                 PROVE  /\ Column(b)' % (max_len - 1) = 0
                        /\ line_num = Cardinality(PieceStarts(b)')
      BY <1>2 DEF NumberInv
    <2>1. Column(pos) % (max_len - 1) = 0 /\ line_num = Cardinality(PieceStarts(pos))
      BY <1>2, PieceFollows
    <2>2. PieceStarts(b)' = PieceStarts(b) /\ Column(b)' = Column(b)
      BY <1>4
    <2> QED
      BY <2>1, <2>2
  <1> QED
    BY <1>2, <1>3, <1>5, Unread

\* The document is closed.
LEMMA CloseCore ==
    ASSUME CoreInv, Close
    PROVE  CoreInv'
  <1>1. ParseInv
    BY DEF CoreInv
  <1>2. /\ at' = "closed" /\ UNCHANGED parser
        /\ UNCHANGED <<text, pos, eof, line_num, alpha, tokens>>
    BY DEF Close, parser, file
  <1>3. ParseInv'
    BY <1>1, <1>2, ParserStays
  <1>4. NumberInv'
    BY <1>2 DEF NumberInv
  <1> QED
    BY <1>2, <1>3, <1>4, Unread

\* Nothing happens.
LEMMA StutterCore ==
    ASSUME CoreInv, UNCHANGED vars
    PROVE  CoreInv'
  <1>1. /\ UNCHANGED parser /\ alpha' = alpha /\ index' = index /\ words' = words /\ done' = done
        /\ text' = text /\ pos' = pos /\ eof' = eof /\ line_num' = line_num /\ at' = at
        /\ tokens' = tokens
    BY DEF vars, parser, file
  <1>2. /\ TypeOK /\ text \in Seq(Chars) /\ PieceInv /\ ParseInv
        /\ NumberInv /\ LineNumbers /\ CopyInv
    BY DEF CoreInv
  <1>3. ParseInv'
    BY <1>1, <1>2, ParserStays
  <1>4. End' = End /\ Base' = Base
    BY <1>1 DEF End, Base
  <1>5. TypeOK' /\ PieceInv'
    BY <1>1, <1>2, <1>4 DEF TypeOK, PieceInv
  <1>6. /\ TrueWords' = TrueWords
        /\ \A p : PieceStarts(p)' = PieceStarts(p) /\ Column(p)' = Column(p)
    BY <1>1, SameText
  <1>7. NumberInv' /\ LineNumbers' /\ CopyInv'
    BY <1>1, <1>2, <1>4, <1>6 DEF NumberInv, LineNumbers, CopyInv
  <1> QED
    BY <1>1, <1>2, <1>3, <1>5, <1>7 DEF CoreInv

\* Every step keeps what holds for texts of any lines.
LEMMA NextCore ==
    ASSUME CoreInv, [Next]_vars
    PROVE  CoreInv'
  <1>1. CASE Open
    BY <1>1, OpenCore
  <1>2. CASE ReadLine
    <2>1. text \in Seq(Chars) /\ pos \in Nat
      BY DEF CoreInv, TypeOK
    <2>2. PICK e \in Nat \ {0} : Read(e)
      BY <1>2, <2>1, ReadIs
    <2> QED
      BY <2>2, ReadCore
  <1>3. CASE Token
    <2>1. PICK a, b, i \in Nat : Taken(a, b, i)
      BY <1>3, TokenIs
    <2> QED
      BY <2>1, TokenCore
  <1>4. CASE LineParsed
    BY <1>4, LineParsedCore
  <1>5. CASE NextPiece
    BY <1>5, NextPieceCore
  <1>6. CASE Close
    BY <1>6, CloseCore
  <1>7. CASE UNCHANGED vars
    BY <1>7, StutterCore
  <1> QED
    BY <1>1, <1>2, <1>3, <1>4, <1>5, <1>6, <1>7 DEF Next

-----------------------------------------------------------------------------
(* Texts of short lines *)

\* What it means to be a word of the text.
LEMMA TrueWordIs ==
    ASSUME text \in Seq(Chars), NEW r \in TrueWords
    PROVE  /\ r = <<r[1], r[2]>> /\ r[1] \in Nat /\ r[2] \in Nat /\ r[1] < r[2] /\ r[2] <= Len(text)
           /\ \A k \in r[1] + 1 .. r[2] : text[k] = "letter"
           /\ r[1] > 0 => text[r[1]] # "letter"
           /\ r[2] < Len(text) => text[r[2] + 1] # "letter"
  <1>1. Len(text) \in Nat /\ r \in (0 .. Len(text)) \X (0 .. Len(text))
    BY DEF TrueWords
  <1>2. /\ r[1] < r[2] /\ \A k \in r[1] + 1 .. r[2] : text[k] = "letter"
        /\ r[1] > 0 => text[r[1]] # "letter"
        /\ r[2] < Len(text) => text[r[2] + 1] # "letter"
    BY DEF TrueWords
  <1> QED
    BY <1>1, <1>2

\* Words that begin at the same place are the same.
LEMMA SameStart ==
    ASSUME text \in Seq(Chars), NEW r \in TrueWords, NEW s \in TrueWords, r[1] = s[1]
    PROVE  r = s
  <1>1. ASSUME NEW x \in TrueWords, NEW y \in TrueWords, x[1] = y[1], x[2] < y[2]
        PROVE  FALSE
    <2>1. /\ x[1] \in Nat /\ x[2] \in Nat /\ x[1] < x[2]
          /\ x[2] < Len(text) => text[x[2] + 1] # "letter"
      BY TrueWordIs
    <2>2. /\ y[2] \in Nat /\ y[2] <= Len(text)
          /\ \A k \in y[1] + 1 .. y[2] : text[k] = "letter"
      BY TrueWordIs
    <2>3. Len(text) \in Nat
      OBVIOUS
    <2>4. x[2] + 1 \in y[1] + 1 .. y[2] /\ x[2] < Len(text)
      BY <1>1, <2>1, <2>2, <2>3
    <2> QED
      BY <2>1, <2>2, <2>4
  <1>2. r[2] \in Nat /\ s[2] \in Nat /\ r = <<r[1], r[2]>> /\ s = <<s[1], s[2]>>
    BY TrueWordIs
  <1>3. r[2] = s[2]
    <2>1. r[2] < s[2] \/ s[2] < r[2] \/ r[2] = s[2]
      BY <1>2
    <2> QED
      BY <1>1, <2>1
  <1> QED
    BY <1>2, <1>3

\* A token of the text is one of its words with its line.
LEMMA TrueTokenIs ==
    ASSUME NEW t \in TrueTokens
    PROVE  \E r \in TrueWords : /\ t = <<r[1], r[2], 1 + Cardinality(Newlines(r[1]))>>
                                /\ t[1] = r[1] /\ t[2] = r[2]
  <1>1. PICK r \in TrueWords : t = <<r[1], r[2], 1 + Cardinality(Newlines(r[1]))>>
    BY DEF TrueTokens
  <1> QED
    BY <1>1

\* The words before a place that is no letter end before it.
LEMMA SeenBefore ==
    ASSUME text \in Seq(Chars), NEW p \in 0 .. Len(text), p > 0 => text[p] # "letter",
           NEW t \in Seen(p)
    PROVE  t[1] < t[2] /\ t[2] < p /\ t[1] \in Nat /\ t[2] \in Nat
  <1>1. PICK r \in TrueWords : t[1] = r[1] /\ t[2] = r[2]
    BY TrueTokenIs DEF Seen
  <1>2. /\ r[1] \in Nat /\ r[2] \in Nat /\ r[1] < r[2]
        /\ \A k \in r[1] + 1 .. r[2] : text[k] = "letter"
    BY TrueWordIs
  <1>3. r[1] < p /\ p \in Nat
    BY <1>1 DEF Seen
  <1>4. p > 0 /\ ~(r[2] >= p)
    BY <1>2, <1>3
  <1> QED
    BY <1>1, <1>2, <1>3, <1>4

\* Where there are no letters no word begins.
LEMMA NoneSeen ==
    ASSUME text \in Seq(Chars), NEW p \in Nat, NEW q \in Nat, p <= q,
           \A k \in p + 1 .. q : text[k] # "letter"
    PROVE  Seen(q) = Seen(p)
  <1>1. ASSUME NEW t \in TrueTokens, t[1] < q
        PROVE  t[1] < p
    <2>1. PICK r \in TrueWords : t[1] = r[1] /\ t[2] = r[2]
      BY TrueTokenIs
    <2>2. /\ r[1] \in Nat /\ r[2] \in Nat /\ r[1] < r[2]
          /\ \A k \in r[1] + 1 .. r[2] : text[k] = "letter"
      BY TrueWordIs
    <2>3. text[r[1] + 1] = "letter"
      BY <2>2
    <2> QED
      BY <1>1, <2>1, <2>2, <2>3
  <1>2. ASSUME NEW t \in TrueTokens, t[1] < p
        PROVE  t[1] < q
    <2>1. PICK r \in TrueWords : t[1] = r[1] /\ t[2] = r[2]
      BY TrueTokenIs
    <2>2. r[1] \in Nat
      BY TrueWordIs
    <2> QED
      BY <1>2, <2>1, <2>2
  <1> QED
    BY <1>1, <1>2 DEF Seen

\* When nothing but the word n begins between p and q, n is what is added.
LEMMA NextSeen ==
    ASSUME text \in Seq(Chars), NEW p \in Nat, NEW q \in Nat, NEW n \in TrueTokens,
           p <= n[1], n[1] < q,
           \A r \in TrueWords : p <= r[1] /\ r[1] < q => r[1] = n[1]
    PROVE  Seen(q) = Seen(p) \cup {n}
  <1>1. PICK m \in TrueWords : /\ n = <<m[1], m[2], 1 + Cardinality(Newlines(m[1]))>>
                               /\ n[1] = m[1] /\ n[2] = m[2]
    BY TrueTokenIs
  <1>2. ASSUME NEW t \in TrueTokens
        PROVE  t[1] < q <=> t[1] < p \/ t = n
    <2>1. PICK r \in TrueWords : /\ t = <<r[1], r[2], 1 + Cardinality(Newlines(r[1]))>>
                                 /\ t[1] = r[1] /\ t[2] = r[2]
      BY TrueTokenIs
    <2>2. r[1] \in Nat /\ m[1] \in Nat
      BY TrueWordIs
    <2>3. CASE t[1] < p
      BY <1>1, <2>1, <2>2, <2>3
    <2>4. CASE ~(t[1] < p) /\ t[1] < q
      <3>1. r[1] = m[1]
        BY <1>1, <2>1, <2>2, <2>4
      <3>2. r = m
        BY <3>1, SameStart
      <3> QED
        BY <1>1, <2>1, <2>4, <3>2
    <2>5. CASE ~(t[1] < p) /\ ~(t[1] < q)
      BY <2>5
    <2> QED
      BY <2>3, <2>4, <2>5
  <1> QED
    BY <1>2 DEF Seen

\* A line ends somewhere.
LEMMA LineEnds ==
    ASSUME text \in Seq(Chars), Short, NEW p \in Nat, p < Len(text), p = 0 \/ text[p] = "newline"
    PROVE  \E e \in p + 1 .. Len(text) :
              /\ e = Len(text) \/ text[e] = "newline"
              /\ \A k \in p + 1 .. e - 1 : text[k] # "newline"
              /\ 2 * (e - p) <= max_len
  <1> DEFINE S == {k \in p + 1 .. Len(text) : k = Len(text) \/ text[k] = "newline"}
  <1>1. Len(text) \in Nat /\ Len(text) \in S /\ S \in SUBSET Nat
    OBVIOUS
  <1>2. PICK e \in S : \A k \in S : e <= k
    <2> HIDE DEF S
    <2> QED
      BY <1>1, LeastNat
  <1>3. e \in p + 1 .. Len(text) /\ (e = Len(text) \/ text[e] = "newline")
    BY <1>2
  <1>4. \A k \in p + 1 .. e - 1 : text[k] # "newline"
    <2> TAKE k \in p + 1 .. e - 1
    <2>1. k \in p + 1 .. Len(text) /\ ~(e <= k)
      BY <1>1, <1>3
    <2> QED
      BY <1>2, <2>1
  <1>5. PICK l : l = <<p, e>>
    OBVIOUS
  <1>6. l[1] = p /\ l[2] = e /\ l \in (0 .. Len(text)) \X (0 .. Len(text)) /\ p < e
    BY <1>1, <1>3, <1>5
  <1>7. l \in Lines
    BY <1>3, <1>4, <1>6 DEF Lines
  <1>8. 2 * (e - p) <= max_len
    BY <1>6, <1>7 DEF Short
  <1> QED
    BY <1>3, <1>4, <1>8

\* Newlines are as many at the end of a piece without one.
LEMMA SameLine ==
    ASSUME NEW p \in Nat, NEW q \in Nat, p <= q, \A k \in p + 1 .. q : text[k] # "newline"
    PROVE  Newlines(q) = Newlines(p)
  <1>1. \A k \in 1 .. q : k \in 1 .. p \/ k \in p + 1 .. q
    OBVIOUS
  <1>2. \A k \in 1 .. p : k \in 1 .. q
    OBVIOUS
  <1> QED
    BY <1>1, <1>2 DEF Newlines

\* Newlines can be counted.
LEMMA CountLines ==
    ASSUME NEW p \in Nat
    PROVE  IsFiniteSet(Newlines(p)) /\ Cardinality(Newlines(p)) \in Nat
  <1>1. IsFiniteSet(1 .. p) /\ Newlines(p) \subseteq 1 .. p
    BY FS_Interval DEF Newlines
  <1> QED
    BY <1>1, FS_Subset, FS_CardinalityType

\* The next line has one more before it.
LEMMA NextLine ==
    ASSUME NEW p \in Nat, NEW q \in Nat, p < q, text[q] = "newline",
           \A k \in p + 1 .. q - 1 : text[k] # "newline"
    PROVE  /\ Cardinality(Newlines(q)) = Cardinality(Newlines(p)) + 1
           /\ Cardinality(Newlines(p)) \in Nat
  <1>1. Newlines(q) = Newlines(p) \cup {q}
    <2>1. \A k \in 1 .. q : k \in 1 .. p \/ k \in p + 1 .. q - 1 \/ k = q
      OBVIOUS
    <2>2. q \in 1 .. q /\ \A k \in 1 .. p : k \in 1 .. q
      OBVIOUS
    <2> QED
      BY <2>1, <2>2 DEF Newlines
  <1>2. IsFiniteSet(Newlines(p)) /\ Cardinality(Newlines(p)) \in Nat
    BY CountLines
  <1>3. q \notin Newlines(p)
    BY DEF Newlines
  <1> QED
    BY <1>1, <1>2, <1>3, FS_AddElement

\* The beginning: nothing was seen.
LEMMA InitShort ==
    ASSUME Init, CoreInv
    PROVE  ShortInv
  <1>1. pos = 0 /\ at = "open" /\ tokens = <<>> /\ line_num = 1
    BY DEF Init
  <1>2. Len(tokens) = 0 /\ text \in Seq(Chars)
    BY <1>1 DEF CoreInv
  <1>3. Indexed = {}
    BY <1>2 DEF Indexed
  <1>4. Seen(0) = {}
    <2>1. 0 \in 0 .. Len(text)
      BY <1>2
    <2>2. ASSUME NEW t \in Seen(0)
          PROVE  FALSE
      <3>1. t[2] < 0 /\ t[2] \in Nat
        BY <1>2, <2>1, SeenBefore
      <3> QED
        BY <3>1
    <2> QED
      BY <2>2
  <1>5. Cardinality(Newlines(0)) = 0
    <2>1. Newlines(0) = {}
      BY DEF Newlines
    <2> QED
      BY <2>1, FS_EmptySet
  <1> QED
    BY <1>1, <1>2, <1>3, <1>4, <1>5 DEF ShortInv

\* The tokens and the text stay, and so does what was seen.
LEMMA SeenStays ==
    ASSUME text' = text, tokens' = tokens
    PROVE  /\ Indexed' = Indexed /\ \A p : Seen(p)' = Seen(p) /\ Newlines(p)' = Newlines(p)
  <1>1. Indexed' = Indexed
    BY DEF Indexed
  <1> QED
    BY <1>1, SameText

\* A piece is read: it is a line.
LEMMA ReadShort ==
    ASSUME CoreInv, Short, ShortInv, NEW e \in Nat \ {0}, Read(e)
    PROVE  ShortInv'
  <1>1. text \in Seq(Chars) /\ pos \in Nat /\ Len(text) \in Nat /\ line_num \in Nat
        /\ max_len \in Nat /\ max_len > 1
    BY TokenizerAssumption DEF CoreInv, TypeOK
  <1>2. /\ at = "read" /\ pos < Len(text) /\ pos + e <= Len(text)
        /\ \A k \in pos + 1 .. pos + e - 1 : text[k] # "newline"
        /\ pos + e = Len(text) \/ text[pos + e] = "newline" \/ e = max_len - 1
        /\ Len(alpha') = e
        /\ pos' = pos + e /\ text' = text /\ tokens' = tokens
        /\ index' = 0 /\ done' = FALSE
        /\ line_num' = line_num + 1 /\ at' = "parse"
    BY DEF Read
  <1>3. Base' = pos /\ Base' + index' = pos /\ pos \in 0 .. Len(text)
    BY <1>1, <1>2 DEF End, Base
  <1>4. /\ pos = 0 \/ text[pos] = "newline"
        /\ line_num = 1 + Cardinality(Newlines(pos)) /\ Indexed = Seen(pos)
        /\ \A j, k \in 1 .. Len(tokens) : j < k => tokens[j][2] < tokens[k][1]
    BY <1>2, <1>3 DEF ShortInv
  <1>5. PICK f \in pos + 1 .. Len(text) :
              /\ f = Len(text) \/ text[f] = "newline"
              /\ 2 * (f - pos) <= max_len
    BY <1>1, <1>2, <1>4, LineEnds
  <1>6. pos + e = Len(text) \/ text[pos + e] = "newline"
    <2> SUFFICES ASSUME pos + e # Len(text), text[pos + e] # "newline"
                 PROVE  FALSE
      OBVIOUS
    <2>1. e = max_len - 1
      BY <1>2
    <2>2. f # pos + e
      BY <1>5
    <2>3. f > pos + e
      BY <1>1, <1>2, <1>5, <2>2
    <2> QED
      BY <1>1, <1>5, <2>1, <2>3
  <1>7. /\ Indexed' = Indexed /\ \A p : Seen(p)' = Seen(p) /\ Newlines(p)' = Newlines(p)
    BY <1>2, SeenStays
  <1>8. ASSUME NEW b \in 0 .. Len(text), b = pos
        PROVE  /\ b = 0 \/ text'[b] = "newline"
               /\ line_num' = 2 + Cardinality(Newlines(b)') /\ Indexed' = Seen(b)'
    <2>1. Cardinality(Newlines(b)) \in Nat /\ line_num = 1 + Cardinality(Newlines(b))
      BY <1>1, <1>4, <1>8, CountLines
    <2>2. Newlines(b)' = Newlines(b) /\ Seen(b)' = Seen(b)
      BY <1>7
    <2>3. line_num' = 2 + Cardinality(Newlines(b))
      BY <1>2, <2>1
    <2> QED
      BY <1>2, <1>4, <1>7, <1>8, <2>2, <2>3
  <1>9. (at = "parse" => pos = Len(text) \/ text[pos] = "newline")'
    BY <1>2, <1>6
  <1>10. ASSUME NEW b \in 0 .. Len(text)
         PROVE  /\ b = Base' => /\ b = 0 \/ text'[b] = "newline"
                                /\ line_num' = 2 + Cardinality(Newlines(b)')
                /\ b = (IF at' = "parse" /\ ~done' THEN Base' + index' ELSE pos') =>
                      Indexed' = Seen(b)'
    <2>1. (IF at' = "parse" /\ ~done' THEN Base' + index' ELSE pos') = pos
      BY <1>2, <1>3
    <2> QED
      BY <1>3, <1>8, <2>1
  <1> QED
    BY <1>2, <1>4, <1>9, <1>10 DEF ShortInv

\* The piece in buf is a short line.
LEMMA LineInBuf ==
    ASSUME CoreInv, Short, ShortInv, at = "parse"
    PROVE  \E d \in Nat :
              /\ Base = d /\ d + End = pos /\ End \in Nat \ {0} /\ pos \in Nat /\ Len(text) \in Nat
              /\ pos <= Len(text) /\ 2 * End <= max_len
              /\ d = 0 \/ text[d] = "newline"
              /\ line_num = 2 + Cardinality(Newlines(d))
              /\ pos = Len(text) \/ text[pos] = "newline"
              /\ \A k \in d + 1 .. pos - 1 : text[k] # "newline"
              /\ \A k \in 1 .. End : alpha[k] <=> text[d + k] = "letter"
  <1>1. TypeOK /\ text \in Seq(Chars) /\ PieceInv
    BY DEF CoreInv
  <1>2. PICK d \in 0 .. Len(text) :
           /\ Base = d /\ d + End = pos /\ End \in Nat /\ pos \in Nat /\ Len(text) \in Nat
           /\ End <= max_len - 1 /\ pos <= Len(text) /\ max_len \in Nat
    BY <1>1, PieceIs
  <1>3. /\ d \in Nat /\ End \in Nat \ {0}
        /\ \A k \in d + 1 .. pos - 1 : text[k] # "newline"
        /\ \A k \in 1 .. End : alpha[k] <=> text[d + k] = "letter"
    BY <1>1, <1>2 DEF PieceInv
  <1>4. /\ d = 0 \/ text[d] = "newline"
        /\ line_num = 2 + Cardinality(Newlines(d))
        /\ pos = Len(text) \/ text[pos] = "newline"
    BY <1>2 DEF ShortInv
  <1>5. PICK l : l = <<d, pos>>
    OBVIOUS
  <1>6. l[1] = d /\ l[2] = pos /\ l \in (0 .. Len(text)) \X (0 .. Len(text)) /\ d < pos
    BY <1>2, <1>3, <1>5
  <1>7. l \in Lines
    BY <1>3, <1>4, <1>6 DEF Lines
  <1>8. 2 * (pos - d) <= max_len
    BY <1>6, <1>7 DEF Short
  <1>9. pos - d = End
    BY <1>2
  <1> QED
    BY <1>2, <1>3, <1>4, <1>8, <1>9

\* The place that parse has reached follows no letter.
LEMMA NoLetterBefore ==
    ASSUME CoreInv, Short, ShortInv, at = "parse", ~done, NEW p \in Nat, p = Base + index, p > 0
    PROVE  text[p] # "letter"
  <1>1. PICK d \in Nat :
           /\ Base = d /\ End \in Nat \ {0}
           /\ d = 0 \/ text[d] = "newline"
           /\ \A k \in 1 .. End : alpha[k] <=> text[d + k] = "letter"
    BY LineInBuf
  <1>2. index \in 0 .. End /\ (index > 0 => ~IsAlpha(index - 1))
    BY DEF CoreInv, ParseInv
  <1>3. CASE index = 0
    BY <1>1, <1>3
  <1>4. CASE index # 0
    <2>1. index \in 1 .. End /\ index > 0 /\ (index - 1) + 1 = index
      BY <1>1, <1>2, <1>4
    <2>2. ~alpha[index]
      BY <1>2, <2>1 DEF IsAlpha
    <2> QED
      BY <1>1, <2>1, <2>2
  <1> QED
    BY <1>3, <1>4

\* A word that is found on a short line is a word of the text.
LEMMA TakenTrue ==
    ASSUME CoreInv, Short, ShortInv, NEW a \in Nat, NEW b \in Nat, NEW i \in Nat, Taken(a, b, i)
    PROVE  <<Base + a, Base + b, line_num - 1>> \in TrueTokens
  <1>1. text \in Seq(Chars) /\ at = "parse" /\ ~done /\ index \in 0 .. End
    BY DEF CoreInv, ParseInv, Taken, Word
  <1>2. PICK d \in Nat :
              /\ Base = d /\ d + End = pos /\ End \in Nat \ {0} /\ pos \in Nat /\ Len(text) \in Nat
              /\ pos <= Len(text) /\ 2 * End <= max_len
              /\ d = 0 \/ text[d] = "newline"
              /\ line_num = 2 + Cardinality(Newlines(d))
              /\ pos = Len(text) \/ text[pos] = "newline"
              /\ \A k \in d + 1 .. pos - 1 : text[k] # "newline"
              /\ \A k \in 1 .. End : alpha[k] <=> text[d + k] = "letter"
    BY <1>1, LineInBuf
  <1>3. /\ a \in index .. End - 1 /\ b \in a .. End /\ a < b
        /\ \A j \in index .. a - 1 : ~IsAlpha(j)
        /\ \A j \in a .. b - 1 : IsAlpha(j)
        /\ b < End => ~IsAlpha(b)
    BY <1>2 DEF Taken, Found
  <1>4. \A k \in (d + a) + 1 .. d + b : text[k] = "letter"
    <2> TAKE k \in (d + a) + 1 .. d + b
    <2>1. k - d \in 1 .. End /\ (k - d) - 1 \in a .. b - 1 /\ d + (k - d) = k
          /\ ((k - d) - 1) + 1 = k - d
      BY <1>1, <1>2, <1>3
    <2>2. alpha[k - d]
      BY <1>3, <2>1 DEF IsAlpha
    <2> QED
      BY <1>2, <2>1, <2>2
  <1>5. d + a > 0 => text[d + a] # "letter"
    <2>1. CASE a = index
      <3>1. d + a = Base + index /\ d + a \in Nat
        BY <1>2, <2>1
      <3> QED
        BY <1>1, <3>1, NoLetterBefore
    <2>2. CASE a # index
      <3>1. a - 1 \in index .. a - 1 /\ a \in 1 .. End /\ (a - 1) + 1 = a
        BY <1>1, <1>2, <1>3, <2>2
      <3>2. ~alpha[a]
        BY <1>3, <3>1 DEF IsAlpha
      <3> QED
        BY <1>2, <3>1, <3>2
    <2> QED
      BY <2>1, <2>2
  <1>6. d + b < Len(text) => text[(d + b) + 1] # "letter"
    <2>1. CASE b < End
      <3>1. b + 1 \in 1 .. End /\ d + (b + 1) = (d + b) + 1
        BY <1>2, <2>1
      <3>2. ~alpha[b + 1]
        BY <1>3, <2>1 DEF IsAlpha
      <3> QED
        BY <1>2, <3>1, <3>2
    <2>2. CASE ~(b < End)
      <3>1. d + b = pos /\ pos \in (d + a) + 1 .. d + b
        BY <1>1, <1>2, <1>3, <2>2
      <3>2. text[pos] = "letter"
        BY <1>4, <3>1
      <3> QED
        BY <1>2, <3>1, <3>2
    <2> QED
      BY <2>1, <2>2
  <1>7. PICK r : r = <<d + a, d + b>>
    OBVIOUS
  <1>8. d + a \in 0 .. Len(text) /\ d + b \in 0 .. Len(text) /\ d + a < d + b
    <2>1. b <= End /\ a < b
      BY <1>2, <1>3
    <2> QED
      BY <1>2, <2>1
  <1>9. r[1] = d + a /\ r[2] = d + b /\ r \in (0 .. Len(text)) \X (0 .. Len(text)) /\ r[1] < r[2]
    BY <1>7, <1>8
  <1>10. r \in TrueWords
    BY <1>4, <1>5, <1>6, <1>9 DEF TrueWords
  <1>11. Newlines(d + a) = Newlines(d)
    <2>1. d + a <= pos - 1
      BY <1>2, <1>3
    <2>2. d + a \in Nat /\ d <= d + a /\ \A k \in d + 1 .. d + a : text[k] # "newline"
      BY <1>2, <2>1
    <2> QED
      BY <2>2, SameLine
  <1>12. line_num - 1 = 1 + Cardinality(Newlines(r[1]))
    <2>1. PICK c \in Nat : c = Cardinality(Newlines(d))
      BY CountLines
    <2>2. line_num = 2 + c
      BY <1>2, <2>1
    <2>3. line_num - 1 = 1 + c
      BY <2>2
    <2> QED
      BY <1>9, <1>11, <2>1, <2>3
  <1>13. <<r[1], r[2], 1 + Cardinality(Newlines(r[1]))>> \in TrueTokens
    BY <1>10 DEF TrueTokens
  <1> QED
    BY <1>2, <1>9, <1>12, <1>13

\* It is the only one that begins between the old place and the new one.
LEMMA TakenOnly ==
    ASSUME CoreInv, Short, ShortInv, NEW a \in Nat, NEW b \in Nat, NEW i \in Nat, Taken(a, b, i),
           NEW d \in Nat, d = Base, NEW r \in TrueWords, d + index <= r[1], r[1] < d + i
    PROVE  r[1] = d + a
  <1>1. text \in Seq(Chars) /\ at = "parse" /\ ~done /\ index \in 0 .. End
    BY DEF CoreInv, ParseInv, Taken, Word
  <1>2. /\ d + End = pos /\ End \in Nat \ {0} /\ 2 * End <= max_len /\ Len(text) \in Nat
        /\ \A k \in 1 .. End : alpha[k] <=> text[d + k] = "letter"
    BY <1>1, LineInBuf
  <1>3. /\ a \in index .. End - 1 /\ b \in a .. End /\ i \in b .. End /\ a < b
        /\ \A j \in index .. a - 1 : ~IsAlpha(j)
        /\ \A j \in a .. b - 1 : IsAlpha(j)
        /\ done' \in BOOLEAN
        /\ ~done' => \A j \in b .. i - 1 : ~IsAlpha(j)
        /\ done' => b = End /\ i = End
    BY <1>2 DEF Taken, Found
  <1>4. \A j \in b .. i - 1 : ~IsAlpha(j)
    <2>1. CASE done'
      <3>1. \A j : j \notin b .. i - 1
        BY <1>2, <1>3, <2>1
      <3> QED
        BY <3>1
    <2>2. CASE ~done'
      BY <1>3, <2>2
    <2> QED
      BY <2>1, <2>2
  <1>5. /\ r[1] \in Nat /\ r[2] \in Nat /\ r[1] < r[2]
        /\ \A k \in r[1] + 1 .. r[2] : text[k] = "letter"
        /\ r[1] > 0 => text[r[1]] # "letter"
    BY <1>1, TrueWordIs
  <1>6. PICK j \in Nat : r[1] = d + j /\ j \in index .. i - 1
    <2>1. PICK s, x \in Nat : s = r[1] /\ x = index
      BY <1>1, <1>2, <1>5
    <2>2. d + x <= s /\ s < d + i
      BY <2>1
    <2>3. s - d \in Nat /\ s - d \in x .. i - 1 /\ s = d + (s - d)
      BY <2>2
    <2> QED
      BY <2>1, <2>3
  <1>7. IsAlpha(j)
    <2>1. text[d + (j + 1)] = "letter" /\ j + 1 \in 1 .. End
      BY <1>1, <1>2, <1>3, <1>5, <1>6
    <2> QED
      BY <1>2, <2>1 DEF IsAlpha
  <1>8. j \in a .. b - 1
    <2>1. j \in index .. a - 1 \/ j \in a .. b - 1 \/ j \in b .. i - 1
      BY <1>1, <1>2, <1>3, <1>6
    <2> QED
      BY <1>3, <1>4, <1>7, <2>1
  <1>9. j = a
    <2> SUFFICES ASSUME j # a
                 PROVE  FALSE
      OBVIOUS
    <2>1. j - 1 \in a .. b - 1 /\ j \in 1 .. End /\ (j - 1) + 1 = j
      BY <1>1, <1>2, <1>3, <1>8
    <2>2. alpha[j]
      BY <1>3, <2>1 DEF IsAlpha
    <2>3. text[d + j] = "letter" /\ r[1] > 0
      BY <1>2, <1>6, <2>1, <2>2
    <2> QED
      BY <1>5, <1>6, <2>3
  <1> QED
    BY <1>6, <1>9

\* A word is found on a short line.
LEMMA TokenShort ==
    ASSUME CoreInv, Short, ShortInv, NEW a \in Nat, NEW b \in Nat, NEW i \in Nat, Taken(a, b, i)
    PROVE  ShortInv'
  <1>1. /\ text \in Seq(Chars) /\ at = "parse" /\ ~done /\ index \in 0 .. End
        /\ tokens \in Seq((0 .. Len(text)) \X (0 .. Len(text)) \X Nat)
    BY DEF CoreInv, TypeOK, ParseInv, Taken, Word
  <1>2. PICK d \in Nat :
              /\ Base = d /\ d + End = pos /\ End \in Nat \ {0} /\ pos \in Nat /\ Len(text) \in Nat
              /\ pos <= Len(text) /\ 2 * End <= max_len
              /\ d = 0 \/ text[d] = "newline"
              /\ line_num = 2 + Cardinality(Newlines(d))
              /\ pos = Len(text) \/ text[pos] = "newline"
    BY <1>1, LineInBuf
  <1>3. /\ text' = text /\ pos' = pos /\ line_num' = line_num /\ alpha' = alpha /\ index' = i
        /\ tokens' = Append(tokens, <<Base + a, Base + b, line_num - 1>>)
        /\ at' \in {"parse", "corrupt"}
    BY DEF Taken, Found
  <1>4. /\ a \in index .. End - 1 /\ b \in a .. End /\ i \in b .. End /\ a < b
        /\ done' \in BOOLEAN /\ (done' => i = End)
    BY <1>2 DEF Taken, Found
  <1>5. End' = End /\ Base' = d
    BY <1>2, <1>3 DEF End, Base
  <1>6. PICK n : n = <<d + a, d + b, line_num - 1>>
    OBVIOUS
  <1>7. n[1] = d + a /\ n[2] = d + b /\ n \in TrueTokens /\ tokens' = Append(tokens, n)
    BY <1>2, <1>3, <1>6, TakenTrue
  <1>8. PICK S : S = (0 .. Len(text)) \X (0 .. Len(text)) \X Nat
    OBVIOUS
  <1>9. /\ Len(tokens) \in Nat /\ Len(tokens') = Len(tokens) + 1
        /\ \A k \in 1 .. Len(tokens) : tokens'[k] = tokens[k]
        /\ tokens'[Len(tokens) + 1] = n
        /\ \A k \in 1 .. Len(tokens) + 1 : k \in 1 .. Len(tokens) \/ k = Len(tokens) + 1
    <2>1. line_num - 1 \in Nat
      BY DEF CoreInv, TypeOK
    <2>2. d + a \in 0 .. Len(text) /\ d + b \in 0 .. Len(text)
      BY <1>1, <1>2, <1>4
    <2>3. n \in S /\ tokens \in Seq(S)
      BY <1>1, <1>6, <1>8, <2>1, <2>2
    <2> QED
      BY <1>7, <2>3, AppendIs
  <1>10. PICK p \in Nat : p = d + index /\ p \in 0 .. Len(text) /\ p <= d + a /\ d + a < d + i
    BY <1>1, <1>2, <1>4
  <1>11. Indexed = Seen(p)
    BY <1>1, <1>2, <1>10 DEF ShortInv
  <1>12. Seen(d + i) = Seen(p) \cup {n}
    <2>1. \A r \in TrueWords : p <= r[1] /\ r[1] < d + i => r[1] = n[1]
      BY <1>2, <1>7, <1>10, TakenOnly
    <2>2. d + i \in Nat /\ p <= n[1] /\ n[1] < d + i
      BY <1>7, <1>10
    <2> QED
      BY <1>1, <1>7, <2>1, <2>2, NextSeen
  <1>13. Indexed' = Indexed \cup {n}
    <2>1. Indexed' = {tokens'[k] : k \in 1 .. Len(tokens) + 1}
      BY <1>9 DEF Indexed
    <2>2. \A k \in 1 .. Len(tokens) : k \in 1 .. Len(tokens) + 1
      BY <1>9
    <2>3. Len(tokens) + 1 \in 1 .. Len(tokens) + 1
      BY <1>9
    <2> QED
      BY <1>9, <2>1, <2>2, <2>3 DEF Indexed
  <1>14. \A q : Seen(q)' = Seen(q) /\ Newlines(q)' = Newlines(q)
    BY <1>3, SameText
  <1>15. ASSUME NEW c \in 0 .. Len(text)
         PROVE  /\ c = Base' => /\ c = 0 \/ text'[c] = "newline"
                                /\ line_num' = 2 + Cardinality(Newlines(c)')
                /\ at' # "corrupt" /\ c = (IF at' = "parse" /\ ~done' THEN Base' + index' ELSE pos') =>
                      Indexed' = Seen(c)'
    <2>1. Newlines(c)' = Newlines(c) /\ Seen(c)' = Seen(c)
      BY <1>14
    <2>2. c = Base' => /\ c = 0 \/ text'[c] = "newline"
                       /\ line_num' = 2 + Cardinality(Newlines(c)')
      BY <1>2, <1>3, <1>5, <2>1
    <2>3. ASSUME at' # "corrupt", c = (IF at' = "parse" /\ ~done' THEN Base' + index' ELSE pos')
          PROVE  c = d + i
      <3>1. CASE ~done'
        BY <1>3, <1>5, <2>3, <3>1
      <3>2. CASE done'
        BY <1>2, <1>3, <1>4, <2>3, <3>2
      <3> QED
        BY <3>1, <3>2
    <2> QED
      BY <1>11, <1>12, <1>13, <2>1, <2>2, <2>3
  <1>16. ASSUME NEW j \in 1 .. Len(tokens'), NEW k \in 1 .. Len(tokens'), j < k
         PROVE  tokens'[j][2] < tokens'[k][1]
    <2>1. j \in 1 .. Len(tokens)
      BY <1>9, <1>16
    <2>2. CASE k \in 1 .. Len(tokens)
      BY <1>9, <1>16, <2>1, <2>2 DEF ShortInv
    <2>3. CASE k = Len(tokens) + 1
      <3>1. tokens[j] \in Seen(p)
        BY <1>11, <2>1 DEF Indexed
      <3>2. p > 0 => text[p] # "letter"
        BY <1>1, <1>2, <1>10, NoLetterBefore
      <3>3. tokens[j][2] < p /\ tokens[j][2] \in Nat
        BY <1>1, <1>10, <3>1, <3>2, SeenBefore
      <3>4. tokens[j][2] < d + a
        BY <1>10, <3>3
      <3> QED
        BY <1>7, <1>9, <2>1, <2>3, <3>4
    <2> QED
      BY <1>9, <2>2, <2>3
  <1>17. (at = "parse" => pos = Len(text) \/ text[pos] = "newline")'
    BY <1>2, <1>3
  <1> QED
    BY <1>3, <1>15, <1>16, <1>17 DEF ShortInv

\* What a step keeps that leaves the file and the tokens alone.
LEMMA RestShort ==
    ASSUME CoreInv, Short, ShortInv, [Next]_vars, ~ReadLine, ~Token
    PROVE  ShortInv'
  <1>1. TypeOK /\ text \in Seq(Chars) /\ PieceInv /\ ParseInv
    BY DEF CoreInv
  <1>2. /\ text' = text /\ pos' = pos /\ line_num' = line_num
        /\ tokens' = tokens /\ alpha' = alpha /\ index' = index
    BY DEF Next, Open, LineParsed, Return, NextPiece, Close, vars, file, parser
  <1>3. Base' = Base
    BY <1>2 DEF Base, End
  <1>4. /\ Indexed' = Indexed /\ \A p : Seen(p)' = Seen(p) /\ Newlines(p)' = Newlines(p)
    BY <1>2, SeenStays
  <1>5. CASE Open \/ UNCHANGED vars
    BY <1>2, <1>3, <1>4, <1>5 DEF ShortInv, Open, vars, parser
  <1>6. CASE LineParsed
    <2>1. at = "parse" /\ at' = at /\ Return /\ ~done /\ done' = TRUE
      BY <1>6 DEF LineParsed, Return
    <2>2. PICK d \in Nat :
              /\ Base = d /\ d + End = pos /\ End \in Nat \ {0} /\ pos \in Nat /\ Len(text) \in Nat
              /\ pos <= Len(text)
              /\ \A k \in 1 .. End : alpha[k] <=> text[d + k] = "letter"
      BY <2>1, LineInBuf
    <2>3. \A j \in index .. End - 1 : ~IsAlpha(j)
      <3>1. CASE index = End
        BY <2>2, <3>1
      <3>2. CASE StrStrip(index, max_len - index) = End
        <4>1. max_len - index \in Int /\ alpha \in Seq(BOOLEAN) /\ index \in 0 .. End
          BY <1>1, <2>2, TokenizerAssumption DEF PieceInv, ParseInv
        <4> QED
          BY <3>2, <4>1, StripIs
      <3> QED
        BY <2>1, <3>1, <3>2 DEF Return
    <2>4. PICK p \in Nat : p = d + index /\ p \in 0 .. Len(text) /\ p <= pos /\ index \in 0 .. End
      BY <1>1, <2>2 DEF ParseInv
    <2>5. \A k \in p + 1 .. pos : text[k] # "letter"
      <3> TAKE k \in p + 1 .. pos
      <3>1. (k - d) - 1 \in index .. End - 1 /\ k - d \in 1 .. End /\ ((k - d) - 1) + 1 = k - d
            /\ d + (k - d) = k
        BY <2>2, <2>4
      <3>2. ~alpha[k - d]
        BY <2>3, <3>1 DEF IsAlpha
      <3> QED
        BY <2>2, <3>1, <3>2
    <2>6. Indexed = Seen(p)
      BY <2>1, <2>2, <2>4 DEF ShortInv
    <2>7. Seen(pos) = Seen(p)
      BY <1>1, <2>2, <2>4, <2>5, NoneSeen
    <2>8. \A c \in 0 .. Len(text) : c = pos => Indexed' = Seen(c)'
      BY <1>4, <2>6, <2>7
    <2>9. (IF at' = "parse" /\ ~done' THEN Base' + index' ELSE pos') = pos
      BY <1>2, <2>1
    <2>10. \A c \in 0 .. Len(text) : c = Base' =>
              /\ c = 0 \/ text'[c] = "newline"
              /\ line_num' = 2 + Cardinality(Newlines(c)')
      BY <1>2, <1>3, <1>4, <2>1 DEF ShortInv
    <2>11. /\ (at = "parse" => pos = Len(text) \/ text[pos] = "newline")'
           /\ (\A j, k \in 1 .. Len(tokens) : j < k => tokens[j][2] < tokens[k][1])'
      BY <1>2, <2>1 DEF ShortInv
    <2> QED
      BY <1>2, <2>1, <2>8, <2>9, <2>10, <2>11 DEF ShortInv
  <1>7. CASE NextPiece
    <2>1. at = "parse" /\ at' = "read" /\ done
      BY <1>7 DEF NextPiece
    <2>2. PICK d \in Nat :
              /\ Base = d /\ d + End = pos /\ End \in Nat \ {0} /\ pos \in Nat /\ Len(text) \in Nat
              /\ pos <= Len(text)
              /\ line_num = 2 + Cardinality(Newlines(d))
              /\ pos = Len(text) \/ text[pos] = "newline"
              /\ \A k \in d + 1 .. pos - 1 : text[k] # "newline"
      BY <2>1, LineInBuf
    <2>3. ASSUME NEW c \in 0 .. Len(text), c = pos, pos < Len(text)
          PROVE  text'[c] = "newline" /\ line_num' = 1 + Cardinality(Newlines(c)')
      <3>1. text[pos] = "newline" /\ d < pos
        BY <2>2, <2>3
      <3>2. Cardinality(Newlines(pos)) = Cardinality(Newlines(d)) + 1 /\ Cardinality(Newlines(d)) \in Nat
        BY <2>2, <3>1, NextLine
      <3>3. line_num = 1 + Cardinality(Newlines(pos))
        BY <2>2, <3>2
      <3>4. Newlines(c)' = Newlines(c)
        BY <1>4
      <3> QED
        BY <1>2, <2>3, <3>1, <3>3, <3>4
    <2>4. \A c \in 0 .. Len(text) : c = pos => Indexed' = Seen(c)'
      BY <1>4, <2>1 DEF ShortInv
    <2>5. (\A j, k \in 1 .. Len(tokens) : j < k => tokens[j][2] < tokens[k][1])'
      BY <1>2 DEF ShortInv
    <2> QED
      BY <1>2, <2>1, <2>3, <2>4, <2>5 DEF ShortInv
  <1>8. CASE Close
    <2>1. at = "read" /\ at' = "closed" /\ pos = Len(text)
      BY <1>1, <1>8 DEF Close, PieceInv
    <2>2. \A c \in 0 .. Len(text) : c = pos => Indexed' = Seen(c)'
      BY <1>4, <2>1 DEF ShortInv
    <2>3. (\A j, k \in 1 .. Len(tokens) : j < k => tokens[j][2] < tokens[k][1])'
      BY <1>2 DEF ShortInv
    <2> QED
      BY <1>2, <2>1, <2>2, <2>3 DEF ShortInv
  <1> QED
    BY <1>5, <1>6, <1>7, <1>8 DEF Next

\* Every step keeps the invariant.
LEMMA NextKeeps ==
    ASSUME DocInv, [Next]_vars
    PROVE  DocInv'
  <1>1. CoreInv /\ (Short => ShortInv)
    BY DEF DocInv
  <1>2. CoreInv'
    BY <1>1, NextCore
  <1>3. text' = text
    BY DEF Next, Open, ReadLine, Token, LineParsed, NextPiece, Close, vars, file
  <1>4. ASSUME Short
        PROVE  ShortInv'
    <2>1. CASE ReadLine
      <3>1. text \in Seq(Chars) /\ pos \in Nat
        BY <1>1 DEF CoreInv, TypeOK
      <3>2. PICK e \in Nat \ {0} : Read(e)
        BY <2>1, <3>1, ReadIs
      <3> QED
        BY <1>1, <1>4, <3>2, ReadShort
    <2>2. CASE Token
      <3>1. PICK a, b, i \in Nat : Taken(a, b, i)
        BY <1>1, <2>2, TokenIs
      <3> QED
        BY <1>1, <1>4, <3>1, TokenShort
    <2>3. CASE ~ReadLine /\ ~Token
      BY <1>1, <1>4, <2>3, RestShort
    <2> QED
      BY <2>1, <2>2, <2>3
  <1>5. Short' <=> Short
    BY <1>3, SameText
  <1> QED
    BY <1>2, <1>4, <1>5 DEF DocInv

\* When the document is closed all of its words were seen, each once.
LEMMA ClosedExact == DocInv => ShortLinesExact
  <1> SUFFICES ASSUME DocInv, at = "closed", Short
               PROVE  /\ Indexed = TrueTokens /\ Len(tokens) = Cardinality(TrueTokens)
                      /\ \A k \in 2 .. Len(tokens) : tokens[k - 1][2] < tokens[k][1]
    BY DEF ShortLinesExact, Short
  <1>1. CoreInv /\ ShortInv
    BY DEF DocInv
  <1>2. text \in Seq(Chars) /\ Len(text) \in Nat /\ Len(tokens) \in Nat
    BY <1>1 DEF CoreInv, TypeOK
  <1>3. pos = Len(text) /\ Indexed = Seen(Len(text))
    BY <1>1, <1>2 DEF ShortInv
  <1>4. \A j, k \in 1 .. Len(tokens) : j < k => tokens[j][2] < tokens[k][1]
    BY <1>1 DEF ShortInv
  <1>5. ASSUME NEW t \in TrueTokens
        PROVE  t[1] \in Nat /\ t[2] \in Nat /\ t[1] < t[2] /\ t[1] < Len(text)
    <2>1. PICK r \in TrueWords : t[1] = r[1] /\ t[2] = r[2]
      BY TrueTokenIs
    <2>2. r[1] \in Nat /\ r[2] \in Nat /\ r[1] < r[2] /\ r[2] <= Len(text)
      BY <1>2, TrueWordIs
    <2> QED
      BY <1>2, <2>1, <2>2
  <1>6. Indexed = TrueTokens
    BY <1>3, <1>5 DEF Seen
  <1>7. PICK n \in Nat : n = Len(tokens)
    BY <1>2
  <1> DEFINE f == [k \in 1 .. n |-> tokens[k]]
  <1>8. f \in [1 .. n -> TrueTokens] /\ \A t \in TrueTokens : \E k \in 1 .. n : f[k] = t
    BY <1>6, <1>7 DEF Indexed
  <1>9. \A j, k \in 1 .. n : f[j] = f[k] => j = k
    <2>1. ASSUME NEW j \in 1 .. n, NEW k \in 1 .. n, j < k, tokens[j] = tokens[k]
          PROVE  FALSE
      <3>1. tokens[j] \in TrueTokens /\ tokens[j][2] < tokens[j][1]
        BY <1>4, <1>7, <1>8, <2>1
      <3> QED
        BY <1>5, <3>1
    <2> TAKE j, k \in 1 .. n
    <2>2. j < k \/ k < j \/ j = k
      OBVIOUS
    <2> QED
      BY <2>1, <2>2
  <1> HIDE DEF f
  <1>10. ExistsBijection(1 .. n, TrueTokens)
    <2>1. f \in Bijection(1 .. n, TrueTokens)
      BY <1>8, <1>9 DEF Bijection, Injection, Surjection, IsInjective
    <2> QED
      BY <2>1 DEF ExistsBijection
  <1>11. IsFiniteSet(1 .. n) /\ Cardinality(1 .. n) = n
    <2>1. 1 \in Int /\ n \in Int /\ (n - 1) + 1 = n
      OBVIOUS
    <2>2. IsFiniteSet(1 .. n) /\ Cardinality(1 .. n) = IF 1 > n THEN 0 ELSE (n - 1) + 1
      BY <2>1, FS_Interval
    <2> QED
      BY <2>1, <2>2
  <1>12. Cardinality(TrueTokens) = n
    BY <1>10, <1>11, FS_Bijection
  <1>13. \A k \in 2 .. Len(tokens) : tokens[k - 1][2] < tokens[k][1]
    <2> TAKE k \in 2 .. Len(tokens)
    <2>1. k - 1 \in 1 .. Len(tokens) /\ k \in 1 .. Len(tokens) /\ k - 1 < k
      BY <1>2
    <2> QED
      BY <1>4, <2>1
  <1> QED
    BY <1>6, <1>7, <1>12, <1>13

-----------------------------------------------------------------------------
(* The theorems *)

(***************************************************************************)
(* What is known of tokenizer (server.c:174-207) at any time: which piece  *)
(* of the file is in buf, what parse has handed over of it and what the    *)
(* index was given so far.                                                 *)
(***************************************************************************)
THEOREM DocumentCorrect == Spec => []DocInv
  <1>1. Init => DocInv
    <2>1. Init => CoreInv
      BY InitCore
    <2> QED
      BY <2>1, InitShort DEF DocInv
  <1>2. DocInv /\ [Next]_vars => DocInv'
    BY NextKeeps
  <1> QED
    BY <1>1, <1>2, PTL DEF Spec

(***************************************************************************)
(* Positions stay inside the text and the buffer, and parse hands over no  *)
(* more words than the string has characters.                              *)
(***************************************************************************)
THEOREM DocumentTypes == Spec => []TypeOK
  <1>1. DocInv => TypeOK
    BY DEF DocInv, CoreInv
  <1> QED
    BY <1>1, DocumentCorrect, PTL

(***************************************************************************)
(* On strings of any length at most the last word that parse hands over is *)
(* not a word of the string, and none before it is missing                 *)
(* (helper.c:451-482).                                                     *)
(***************************************************************************)
THEOREM WordsRight == Spec => []OnlyLastWrong
  <1>1. DocInv => OnlyLastWrong
    BY ParsedRight DEF DocInv, CoreInv, PieceInv
  <1> QED
    BY <1>1, DocumentCorrect, PTL

(***************************************************************************)
(* The number recorded with a word is the number of pieces up to it,       *)
(* whatever the lengths of the lines (server.c:196-198).                   *)
(***************************************************************************)
THEOREM NumbersRight == Spec => []LineNumbers
  <1>1. DocInv => LineNumbers
    BY DEF DocInv, CoreInv
  <1> QED
    BY <1>1, DocumentCorrect, PTL

(***************************************************************************)
(* A copy of a word leaves its block only if the text has a word of at     *)
(* least MAX_WORD_LEN letters (server.c:121, 154-156).                     *)
(***************************************************************************)
THEOREM CopiesAlwaysFit == Spec => []CopiesFit
  <1>1. DocInv => CopiesFit
    <2> SUFFICES ASSUME DocInv, \A r \in TrueWords : r[2] - r[1] < MAX_WORD_LEN, at = "corrupt"
                 PROVE  FALSE
      BY DEF CopiesFit
    <2>1. text \in Seq(Chars) /\ CopyInv
      BY DEF DocInv, CoreInv
    <2>2. PICK r \in TrueWords : r[2] - r[1] >= MAX_WORD_LEN
      BY <2>1 DEF CopyInv
    <2>3. r[1] \in Nat /\ r[2] \in Nat /\ MAX_WORD_LEN \in Nat
      BY <2>1, TrueWordIs, DocumentAssumption
    <2> QED
      BY <2>2, <2>3
  <1> QED
    BY <1>1, DocumentCorrect, PTL

(***************************************************************************)
(* A text whose lines are at most half of the buffer long is indexed       *)
(* completely, each word once, in order and with its line.                 *)
(***************************************************************************)
THEOREM ShortLinesRight == Spec => []ShortLinesExact
  <1>1. DocInv => ShortLinesExact
    BY ClosedExact
  <1> QED
    BY <1>1, DocumentCorrect, PTL
=============================================================================
