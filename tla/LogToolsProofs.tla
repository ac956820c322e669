---------------------------- MODULE LogToolsProofs ----------------------------
(***************************************************************************)
(* Proofs about LogTools and the operators of CommandOutput it is built    *)
(* of, for texts of any length.  Induction takes a set of numbers instead  *)
(* of a predicate, so that the provers can instantiate it.                 *)
(***************************************************************************)
EXTENDS LogTools, SequenceTheorems, WellFoundedInduction, TLAPS

-------------------------------------------------------------------------------
(* Induction and folds *)

(* What holds of zero, and of a number if of the one before, holds of all. *)
LEMMA Induction ==
  ASSUME NEW N \in Nat, NEW T,
         0 \in T,
         \A n \in 1 .. N : n - 1 \in T => n \in T
  PROVE  \A n \in 0 .. N : n \in T
<1> DEFINE Bad == {n \in 0 .. N : n \notin T}
<1> SUFFICES ASSUME Bad # {}
             PROVE  FALSE
  OBVIOUS
<1>1. Bad \subseteq Nat
  OBVIOUS
<1>2. PICK i \in Bad : \A j \in Bad : ~ (<<j, i>> \in OpToRel(<, Nat))
  BY <1>1, NatLessThanWellFounded, WFMin
<1>3. i \in 1 .. N
  OBVIOUS
<1>4. i - 1 \in Nat /\ i \in Nat /\ i - 1 < i
  BY <1>3
<1>5. <<i - 1, i>> \in OpToRel(<, Nat)
  BY <1>4 DEF OpToRel
<1>6. i - 1 \notin Bad
  BY <1>2, <1>5
<1>7. i - 1 \in T
  BY <1>3, <1>6
<1> QED
  BY <1>3, <1>7

(* The recursion of FoldLeft, which takes the greatest index of a set away *)
(* first.                                                                  *)
Folds(fold, N, base, step) ==
  \A I \in SUBSET (1 .. N) :
    fold[I] = IF I = {} THEN base
              ELSE step[<<fold[I \ {Max(I)}], Max(I)>>]

(* It has a solution, whatever is done in a step.                          *)
LEMMA FoldExists ==
  ASSUME NEW S, NEW base \in S, NEW N \in Nat,
         NEW step \in [S \X (1 .. N) -> S]
  PROVE  \E fold \in [SUBSET (1 .. N) -> S] : Folds(fold, N, base, step)
<1> DEFINE Solves(fold, n) == Folds(fold, n, base, step)
           T == {n \in 0 .. N : \E fold \in [SUBSET (1 .. n) -> S] :
                                  Solves(fold, n)}
<1>1. 0 \in T
  <2> DEFINE fold == [I \in SUBSET (1 .. 0) |-> base]
  <2>1. \A I \in SUBSET (1 .. 0) : I = {}
    OBVIOUS
  <2>2. fold \in [SUBSET (1 .. 0) -> S]
    OBVIOUS
  <2>3. Solves(fold, 0)
    BY <2>1 DEF Folds
  <2>4. 0 \in 0 .. N
    OBVIOUS
  <2> HIDE DEF fold, Solves
  <2> QED
    BY <2>2, <2>3, <2>4
<1>2. ASSUME NEW n \in 1 .. N, n - 1 \in T
      PROVE  n \in T
  <2>1. PICK fold \in [SUBSET (1 .. n - 1) -> S] : Solves(fold, n - 1)
    BY <1>2
  <2> DEFINE more ==
        [I \in SUBSET (1 .. n) |->
           IF n \in I THEN step[<<fold[I \ {n}], n>>] ELSE fold[I]]
  <2>2. \A I \in SUBSET (1 .. n) :
          /\ I \ {n} \in SUBSET (1 .. n - 1)
          /\ n \in I => Max(I) = n
          /\ n \notin I => I \in SUBSET (1 .. n - 1)
    <3> SUFFICES ASSUME NEW I \in SUBSET (1 .. n)
                 PROVE  /\ I \ {n} \in SUBSET (1 .. n - 1)
                        /\ n \in I => Max(I) = n
                        /\ n \notin I => I \in SUBSET (1 .. n - 1)
      OBVIOUS
    <3>1. \A i \in I : i \in Int /\ i <= n /\ (i # n => i \in 1 .. n - 1)
      OBVIOUS
    <3>2. ASSUME n \in I PROVE Max(I) = n
      <4>1. \A j \in I : n >= j
        BY <3>1
      <4>2. Max(I) \in I /\ \A j \in I : Max(I) >= j
        BY <3>2, <4>1 DEF Max
      <4>3. Max(I) \in Int /\ Max(I) <= n /\ Max(I) >= n
        BY <3>1, <3>2, <4>2
      <4> QED
        BY <4>3
    <3> QED
      BY <3>1, <3>2
  <2>3. more \in [SUBSET (1 .. n) -> S]
    <3> SUFFICES ASSUME NEW I \in SUBSET (1 .. n)
                 PROVE  more[I] \in S
      OBVIOUS
    <3>1. CASE n \in I
      <4>1. fold[I \ {n}] \in S
        BY <2>2
      <4>2. step[<<fold[I \ {n}], n>>] \in S
        BY <4>1
      <4> QED
        BY <3>1, <4>2
    <3>2. CASE n \notin I
      BY <2>2, <3>2
    <3> QED
      BY <3>1, <3>2
  <2>4. \A I \in SUBSET (1 .. n - 1) : I \in SUBSET (1 .. n) /\ more[I] = fold[I]
    <3>1. \A I \in SUBSET (1 .. n - 1) : I \in SUBSET (1 .. n) /\ n \notin I
      OBVIOUS
    <3> QED
      BY <3>1
  <2>5. Solves(more, n)
    <3> SUFFICES ASSUME NEW I \in SUBSET (1 .. n)
                 PROVE  more[I] = IF I = {} THEN base
                                  ELSE step[<<more[I \ {Max(I)}], Max(I)>>]
      BY DEF Folds
    <3>1. CASE n \in I
      <4>1. Max(I) = n /\ I # {}
        BY <2>2, <3>1
      <4>2. more[I \ {n}] = fold[I \ {n}]
        BY <2>2, <2>4
      <4>3. more[I] = step[<<fold[I \ {n}], n>>]
        BY <3>1
      <4> HIDE DEF more
      <4> QED
        BY <4>1, <4>2, <4>3
    <3>2. CASE n \notin I
      <4>1. I \in SUBSET (1 .. n - 1)
        BY <2>2, <3>2
      <4>2. I \ {Max(I)} \in SUBSET (1 .. n - 1)
        BY <4>1
      <4>3. fold[I] = IF I = {} THEN base
                      ELSE step[<<fold[I \ {Max(I)}], Max(I)>>]
        BY <2>1, <4>1 DEF Folds
      <4>4. more[I] = fold[I] /\ more[I \ {Max(I)}] = fold[I \ {Max(I)}]
        BY <2>4, <4>1, <4>2
      <4> HIDE DEF more
      <4> QED
        BY <4>3, <4>4, Zenon
    <3> QED
      BY <3>1, <3>2, Zenon
  <2>6. n \in 0 .. N
    OBVIOUS
  <2> HIDE DEF more, Solves
  <2> QED
    BY <2>3, <2>5, <2>6
<1> HIDE DEF T
<1>3. \A n \in 0 .. N : n \in T
  BY <1>1, <1>2, Induction
<1>4. N \in T
  BY <1>3
<1> QED
  BY <1>4 DEF T

(* The indices up to one of them, which is left out.                       *)
LEMMA Indices ==
  ASSUME NEW N \in Nat, NEW n \in 1 .. N
  PROVE  /\ (1 .. n) \in SUBSET (1 .. N) /\ 1 .. n # {}
         /\ (1 .. n) \ {n} = 1 .. (n - 1)
         /\ n \in 0 .. N /\ n - 1 \in 0 .. N
OBVIOUS

(* What Max is of indices, and of the indices up to one of them.           *)
LEMMA MaxOfIndices ==
  ASSUME NEW N \in Nat
  PROVE  /\ \A I \in SUBSET (1 .. N) : I # {} => Max(I) \in I
         /\ \A n \in 1 .. N : Max(1 .. n) = n
<1> DEFINE T == {n \in 0 .. N : \A I \in SUBSET (1 .. n) :
                                  I # {} => Max(I) \in I}
<1>1. \A n \in 0 .. N : \A I \in SUBSET (1 .. n) : n \in I => Max(I) = n
  <2> SUFFICES ASSUME NEW n \in 0 .. N, NEW I \in SUBSET (1 .. n), n \in I
               PROVE  Max(I) = n
    OBVIOUS
  <2>1. \A i \in I : i \in Int /\ i <= n
    OBVIOUS
  <2>2. \A j \in I : n >= j
    BY <2>1
  <2>3. Max(I) \in I /\ \A j \in I : Max(I) >= j
    BY <2>2 DEF Max
  <2>4. Max(I) \in Int /\ Max(I) <= n /\ Max(I) >= n
    BY <2>1, <2>3
  <2> QED
    BY <2>4
<1>2. 0 \in T
  <2>1. 0 \in 0 .. N /\ 1 .. 0 = {}
    OBVIOUS
  <2> QED
    BY <2>1
<1>3. ASSUME NEW n \in 1 .. N, n - 1 \in T
      PROVE  n \in T
  <2> SUFFICES ASSUME NEW I \in SUBSET (1 .. n), I # {}
               PROVE  Max(I) \in I
    OBVIOUS
  <2>1. CASE n \in I
    BY <1>1, <2>1
  <2>2. CASE n \notin I
    <3>1. I \in SUBSET (1 .. n - 1)
      BY <2>2
    <3> QED
      BY <1>3, <3>1
  <2> QED
    BY <2>1, <2>2
<1> HIDE DEF T
<1>4. \A n \in 0 .. N : n \in T
  BY <1>2, <1>3, Induction
<1>5. N \in T
  BY <1>4
<1>6. \A n \in 1 .. N : Max(1 .. n) = n
  <2> TAKE n \in 1 .. N
  <2>1. n \in 0 .. N /\ (1 .. n) \in SUBSET (1 .. n) /\ n \in 1 .. n
    OBVIOUS
  <2> QED
    BY <1>1, <2>1
<1> QED
  BY <1>5, <1>6 DEF T

-------------------------------------------------------------------------------
(* Texts as sequences *)

(* A character takes at least one byte.                                    *)
LEMMA Widths ==
  /\ Newline \in Chars
  /\ \A char \in Chars : Width[char] \in Nat /\ Width[char] >= 1
<1>1. Chars = {"narrow", "wide", "newline"}
  BY DEF Chars, Width
<1>2. Width["narrow"] = 1 /\ Width["wide"] = 2 /\ Width["newline"] = 1
  BY DEF Width
<1> QED
  BY <1>1, <1>2 DEF Newline

(* Bytes adds up from left to right.                                       *)
LEMMA BytesRuns ==
  ASSUME NEW text \in Seq(Chars)
  PROVE  \E sum : /\ sum[0] = 0
                  /\ \A n \in 1 .. Len(text) :
                       sum[n] = sum[n - 1] + Width[text[n]]
                  /\ Bytes(text) = sum[Len(text)]
<1> DEFINE N == Len(text)
           Iterates(fold) ==
             fold = [I \in SUBSET DOMAIN text |->
                       IF I = {} THEN 0
                       ELSE fold[I \ {Max(I)}] + Width[text[Max(I)]]]
           step == [p \in Nat \X (1 .. N) |-> p[1] + Width[text[p[2]]]]
<1>1. N \in Nat /\ DOMAIN text = 1 .. N
  OBVIOUS
<1>2. \A n \in 1 .. N : Width[text[n]] \in Nat
  BY Widths
<1>3. step \in [Nat \X (1 .. N) -> Nat]
  BY <1>2
<1>4. \E fold \in [SUBSET (1 .. N) -> Nat] : Folds(fold, N, 0, step)
  <2> HIDE DEF step, N
  <2>1. 0 \in Nat
    OBVIOUS
  <2> QED
    BY <1>1, <1>3, <2>1, FoldExists, Zenon
<1>5. PICK fold \in [SUBSET (1 .. N) -> Nat] : Folds(fold, N, 0, step)
  BY <1>4
<1>6. \A I \in SUBSET (1 .. N) : I # {} => Max(I) \in 1 .. N
  BY <1>1, MaxOfIndices
<1>7. \A I \in SUBSET (1 .. N) :
        fold[I] = IF I = {} THEN 0
                  ELSE fold[I \ {Max(I)}] + Width[text[Max(I)]]
  <2> SUFFICES ASSUME NEW I \in SUBSET (1 .. N), I # {}
               PROVE  fold[I] = fold[I \ {Max(I)}] + Width[text[Max(I)]]
    BY <1>5 DEF Folds
  <2>1. Max(I) \in 1 .. N /\ fold[I \ {Max(I)}] \in Nat
    BY <1>6
  <2>2. fold[I] = step[<<fold[I \ {Max(I)}], Max(I)>>]
    BY <1>5 DEF Folds
  <2>3. \A a \in Nat, b \in 1 .. N : step[<<a, b>>] = a + Width[text[b]]
    OBVIOUS
  <2> HIDE DEF step
  <2> QED
    BY <2>1, <2>2, <2>3
<1>8. Iterates(fold)
  BY <1>1, <1>7
<1> DEFINE total == CHOOSE it : Iterates(it)
<1>9. Iterates(total)
  <2> HIDE DEF Iterates
  <2> QED
    BY <1>8
<1>10. Bytes(text) = total[DOMAIN text]
  BY Zenon DEF Bytes, FoldLeft, MapThenFoldSet
<1>11. \A I \in SUBSET (1 .. N) :
         total[I] = IF I = {} THEN 0
                    ELSE total[I \ {Max(I)}] + Width[text[Max(I)]]
  <2> HIDE DEF total
  <2> QED
    BY <1>1, <1>9
<1> HIDE DEF total
<1> DEFINE sum == [n \in 0 .. N |-> total[1 .. n]]
<1>12. sum[0] = 0
  <2>1. 1 .. 0 = {} /\ 0 \in 0 .. N
    BY <1>1
  <2> QED
    BY <1>11, <2>1
<1>13. \A n \in 1 .. N : sum[n] = sum[n - 1] + Width[text[n]]
  <2> TAKE n \in 1 .. N
  <2>1. /\ (1 .. n) \in SUBSET (1 .. N) /\ 1 .. n # {}
        /\ (1 .. n) \ {n} = 1 .. (n - 1)
        /\ n \in 0 .. N /\ n - 1 \in 0 .. N
    BY <1>1
  <2>2. Max(1 .. n) = n
    BY <1>1, MaxOfIndices
  <2>3. total[1 .. n] = total[1 .. (n - 1)] + Width[text[n]]
    BY <1>11, <2>1, <2>2
  <2> QED
    BY <2>1, <2>3
<1>14. Bytes(text) = sum[N]
  BY <1>1, <1>10
<1> HIDE DEF sum
<1> QED
  BY <1>12, <1>13, <1>14

(* What Append is, index by index.                                         *)
LEMMA Appended ==
  ASSUME NEW S, NEW seq \in Seq(S), NEW last \in S
  PROVE  /\ Append(seq, last) \in Seq(S)
         /\ Len(Append(seq, last)) = Len(seq) + 1
         /\ Append(seq, last)[Len(seq) + 1] = last
         /\ \A i \in 1 .. Len(seq) : Append(seq, last)[i] = seq[i]
OBVIOUS

(* No text, no bytes; one more character, its bytes more.                  *)
LEMMA BytesOfAppend ==
  /\ Bytes(<<>>) = 0
  /\ \A text \in Seq(Chars) : Bytes(text) \in Nat
  /\ \A text \in Seq(Chars), char \in Chars :
       Bytes(Append(text, char)) = Bytes(text) + Width[char]
<1>1. Bytes(<<>>) = 0
  <2>1. <<>> \in Seq(Chars) /\ Len(<<>>) = 0
    OBVIOUS
  <2> QED
    BY <2>1, BytesRuns
<1>2. ASSUME NEW text \in Seq(Chars)
      PROVE  Bytes(text) \in Nat
  <2>1. PICK sum : /\ sum[0] = 0
                   /\ \A n \in 1 .. Len(text) :
                        sum[n] = sum[n - 1] + Width[text[n]]
                   /\ Bytes(text) = sum[Len(text)]
    BY BytesRuns
  <2> DEFINE T == {n \in 0 .. Len(text) : sum[n] \in Nat}
  <2>2. 0 \in T
    BY <2>1
  <2>3. ASSUME NEW n \in 1 .. Len(text), n - 1 \in T
        PROVE  n \in T
    <3>1. Width[text[n]] \in Nat
      BY Widths
    <3>2. sum[n - 1] \in Nat
      BY <2>3
    <3>3. sum[n] = sum[n - 1] + Width[text[n]]
      BY <2>1
    <3> QED
      BY <3>1, <3>2, <3>3
  <2>4. Len(text) \in Nat /\ Len(text) \in 0 .. Len(text)
    OBVIOUS
  <2> HIDE DEF T
  <2>5. Len(text) \in T
    BY <2>2, <2>3, <2>4, Induction
  <2> QED
    BY <2>1, <2>5 DEF T
<1>3. ASSUME NEW text \in Seq(Chars), NEW char \in Chars
      PROVE  Bytes(Append(text, char)) = Bytes(text) + Width[char]
  <2> DEFINE longer == Append(text, char)
  <2>1. /\ longer \in Seq(Chars) /\ Len(longer) = Len(text) + 1
        /\ longer[Len(text) + 1] = char
        /\ \A i \in 1 .. Len(text) : longer[i] = text[i]
        /\ Len(text) \in Nat
    BY Appended
  <2> HIDE DEF longer
  <2>2. PICK sum : /\ sum[0] = 0
                   /\ \A n \in 1 .. Len(text) :
                        sum[n] = sum[n - 1] + Width[text[n]]
                   /\ Bytes(text) = sum[Len(text)]
    BY BytesRuns
  <2>3. PICK more : /\ more[0] = 0
                    /\ \A n \in 1 .. Len(longer) :
                         more[n] = more[n - 1] + Width[longer[n]]
                    /\ Bytes(longer) = more[Len(longer)]
    BY <2>1, BytesRuns
  <2> DEFINE T == {n \in 0 .. Len(text) : sum[n] = more[n]}
  <2>4. 0 \in T
    BY <2>1, <2>2, <2>3
  <2>5. ASSUME NEW n \in 1 .. Len(text), n - 1 \in T
        PROVE  n \in T
    <3>1. n \in 1 .. Len(longer) /\ longer[n] = text[n]
      BY <2>1
    <3>2. sum[n - 1] = more[n - 1] /\ n \in 0 .. Len(text)
      BY <2>5
    <3>3. sum[n] = more[n]
      BY <2>2, <2>3, <3>1, <3>2
    <3> QED
      BY <3>2, <3>3
  <2> HIDE DEF T
  <2>6. Len(text) \in T
    <3>1. \A n \in 0 .. Len(text) : n \in T
      BY <2>1, <2>4, <2>5, Induction
    <3> QED
      BY <2>1, <3>1
  <2>7. sum[Len(text)] = more[Len(text)]
    BY <2>6 DEF T
  <2>8. more[Len(text) + 1] = more[Len(text)] + Width[char]
    <3>1. /\ Len(text) + 1 \in 1 .. Len(longer)
          /\ Len(text) + 1 - 1 = Len(text)
      BY <2>1
    <3> QED
      BY <2>1, <2>3, <3>1
  <2>9. Bytes(longer) = Bytes(text) + Width[char]
    BY <2>1, <2>2, <2>3, <2>7, <2>8
  <2> QED
    BY <2>9 DEF longer
<1> QED
  BY <1>1, <1>2, <1>3

-------------------------------------------------------------------------------
(* Texts as lines *)

(* The fold in Lines: the lines that are complete, and what follows them.  *)
ReadChar(acc, char) ==
  IF char = Newline
  THEN [done |-> Append(acc.done, acc.line), line |-> <<>>]
  ELSE [acc EXCEPT !.line = Append(@, char)]

Nothing == [done |-> <<>>, line |-> <<>>]

Reading(text) == FoldLeft(ReadChar, Nothing, text)

Readings == [done : Seq(Seq(Chars)), line : Seq(Chars)]

(* A step of reading, field by field.                                      *)
LEMMA ReadOne ==
  ASSUME NEW acc \in Readings, NEW char \in Chars
  PROVE  /\ ReadChar(acc, char) \in Readings
         /\ char = Newline =>
              /\ ReadChar(acc, char).done = Append(acc.done, acc.line)
              /\ ReadChar(acc, char).line = <<>>
         /\ char # Newline =>
              /\ ReadChar(acc, char).done = acc.done
              /\ ReadChar(acc, char).line = Append(acc.line, char)
<1>1. CASE char = Newline
  <2> DEFINE next == [done |-> Append(acc.done, acc.line), line |-> <<>>]
  <2>1. ReadChar(acc, char) = next
    BY <1>1, Zenon DEF ReadChar
  <2>2. acc.done \in Seq(Seq(Chars)) /\ acc.line \in Seq(Chars)
    BY DEF Readings
  <2>3. Append(acc.done, acc.line) \in Seq(Seq(Chars)) /\ <<>> \in Seq(Chars)
    BY <2>2
  <2>4. next \in Readings
    BY <2>3 DEF Readings
  <2>5. next.done = Append(acc.done, acc.line) /\ next.line = <<>>
    BY Zenon
  <2> HIDE DEF next
  <2> QED
    BY <1>1, <2>1, <2>4, <2>5
<1>2. CASE char # Newline
  <2> DEFINE next == [acc EXCEPT !.line = Append(acc.line, char)]
  <2>1. ReadChar(acc, char) = next
    BY <1>2, Zenon DEF ReadChar
  <2>2. acc.done \in Seq(Seq(Chars)) /\ acc.line \in Seq(Chars)
    BY DEF Readings
  <2>3. Append(acc.line, char) \in Seq(Chars)
    BY <2>2
  <2>4. next \in Readings
    BY <2>3 DEF Readings
  <2>5. next.done = acc.done /\ next.line = Append(acc.line, char)
    BY DEF Readings
  <2> HIDE DEF next
  <2> QED
    BY <1>2, <2>1, <2>4, <2>5
<1> QED
  BY <1>1, <1>2

(* Reading goes from left to right.                                        *)
LEMMA ReadingRuns ==
  ASSUME NEW text \in Seq(Chars)
  PROVE  \E read : /\ read[0] = Nothing
                   /\ \A n \in 1 .. Len(text) :
                        read[n] = ReadChar(read[n - 1], text[n])
                   /\ Reading(text) = read[Len(text)]
<1> DEFINE N == Len(text)
           Iterates(fold) ==
             fold = [I \in SUBSET DOMAIN text |->
                       IF I = {} THEN Nothing
                       ELSE ReadChar(fold[I \ {Max(I)}], text[Max(I)])]
           step == [p \in Readings \X (1 .. N) |->
                      ReadChar(p[1], text[p[2]])]
<1>1. N \in Nat /\ DOMAIN text = 1 .. N
  OBVIOUS
<1>2. Nothing \in Readings
  BY DEF Nothing, Readings
<1>3. step \in [Readings \X (1 .. N) -> Readings]
  <2>1. \A n \in 1 .. N : text[n] \in Chars
    OBVIOUS
  <2>2. \A acc \in Readings, n \in 1 .. N : ReadChar(acc, text[n]) \in Readings
    BY <2>1, ReadOne
  <2> QED
    BY <2>2
<1>4. \E fold \in [SUBSET (1 .. N) -> Readings] : Folds(fold, N, Nothing, step)
  <2> HIDE DEF step, N
  <2> QED
    BY <1>1, <1>2, <1>3, FoldExists, Zenon
<1>5. PICK fold \in [SUBSET (1 .. N) -> Readings] : Folds(fold, N, Nothing, step)
  BY <1>4
<1>6. \A I \in SUBSET (1 .. N) : I # {} => Max(I) \in 1 .. N
  BY <1>1, MaxOfIndices
<1>7. \A I \in SUBSET (1 .. N) :
        fold[I] = IF I = {} THEN Nothing
                  ELSE ReadChar(fold[I \ {Max(I)}], text[Max(I)])
  <2> SUFFICES ASSUME NEW I \in SUBSET (1 .. N), I # {}
               PROVE  fold[I] = ReadChar(fold[I \ {Max(I)}], text[Max(I)])
    BY <1>5 DEF Folds
  <2>1. Max(I) \in 1 .. N /\ fold[I \ {Max(I)}] \in Readings
    BY <1>6
  <2>2. fold[I] = step[<<fold[I \ {Max(I)}], Max(I)>>]
    BY <1>5 DEF Folds
  <2>3. \A a \in Readings, b \in 1 .. N :
          step[<<a, b>>] = ReadChar(a, text[b])
    OBVIOUS
  <2> HIDE DEF step
  <2> QED
    BY <2>1, <2>2, <2>3
<1>8. Iterates(fold)
  BY <1>1, <1>7
<1> DEFINE total == CHOOSE it : Iterates(it)
<1>9. Iterates(total)
  <2> HIDE DEF Iterates
  <2> QED
    BY <1>8
<1>10. Reading(text) = total[DOMAIN text]
  BY Zenon DEF Reading, FoldLeft, MapThenFoldSet
<1>11. \A I \in SUBSET (1 .. N) :
         total[I] = IF I = {} THEN Nothing
                    ELSE ReadChar(total[I \ {Max(I)}], text[Max(I)])
  <2> HIDE DEF total
  <2> QED
    BY <1>1, <1>9
<1> HIDE DEF total
<1> DEFINE read == [n \in 0 .. N |-> total[1 .. n]]
<1>12. read[0] = Nothing
  <2>1. 1 .. 0 = {} /\ 0 \in 0 .. N
    BY <1>1
  <2> QED
    BY <1>11, <2>1
<1>13. \A n \in 1 .. N : read[n] = ReadChar(read[n - 1], text[n])
  <2> TAKE n \in 1 .. N
  <2>1. /\ (1 .. n) \in SUBSET (1 .. N) /\ 1 .. n # {}
        /\ (1 .. n) \ {n} = 1 .. (n - 1)
        /\ n \in 0 .. N /\ n - 1 \in 0 .. N
    BY <1>1
  <2>2. Max(1 .. n) = n
    BY <1>1, MaxOfIndices
  <2>3. total[1 .. n] = ReadChar(total[1 .. (n - 1)], text[n])
    BY <1>11, <2>1, <2>2
  <2> QED
    BY <2>1, <2>3
<1>14. Reading(text) = read[N]
  BY <1>1, <1>10
<1> HIDE DEF read
<1> QED
  BY <1>12, <1>13, <1>14

(* The lines of a text, from how it is read.                               *)
LEMMA LinesRead ==
  ASSUME NEW text
  PROVE  Lines(text) = IF Reading(text).line = <<>> THEN Reading(text).done
                       ELSE Append(Reading(text).done, Reading(text).line)
BY Zenon DEF Lines, Reading, ReadChar, Nothing, FoldLeft, MapThenFoldSet

(* The fold in Join.                                                       *)
AddLine(text, line) == text \o <<Newline>> \o line

Joining(first, rest) == FoldLeft(AddLine, first, rest)

(* What joining the lines comes to, but for the fold.                      *)
LEMMA JoinJoins ==
  ASSUME NEW lines
  PROVE  Join(lines) = IF lines = <<>> THEN <<>>
                       ELSE Joining(Head(lines), Tail(lines))
BY Zenon DEF Join, Joining, AddLine, FoldLeft, MapThenFoldSet

(* What is joined is a text.                                               *)
LEMMA AddLineIsText ==
  ASSUME NEW text \in Seq(Chars), NEW line \in Seq(Chars)
  PROVE  AddLine(text, line) \in Seq(Chars)
<1>1. <<Newline>> \in Seq(Chars)
  BY Widths
<1> QED
  BY <1>1 DEF AddLine

(* Joining goes from left to right.                                        *)
LEMMA JoiningRuns ==
  ASSUME NEW first \in Seq(Chars), NEW rest \in Seq(Seq(Chars))
  PROVE  \E text : /\ text[0] = first
                   /\ \A n \in 1 .. Len(rest) :
                        text[n] = AddLine(text[n - 1], rest[n])
                   /\ Joining(first, rest) = text[Len(rest)]
<1> DEFINE N == Len(rest)
           Iterates(fold) ==
             fold = [I \in SUBSET DOMAIN rest |->
                       IF I = {} THEN first
                       ELSE AddLine(fold[I \ {Max(I)}], rest[Max(I)])]
           step == [p \in Seq(Chars) \X (1 .. N) |->
                      AddLine(p[1], rest[p[2]])]
<1>1. N \in Nat /\ DOMAIN rest = 1 .. N
  OBVIOUS
<1>2. first \in Seq(Chars)
  OBVIOUS
<1>3. step \in [Seq(Chars) \X (1 .. N) -> Seq(Chars)]
  <2>1. \A n \in 1 .. N : rest[n] \in Seq(Chars)
    OBVIOUS
  <2>2. \A text \in Seq(Chars), n \in 1 .. N :
          AddLine(text, rest[n]) \in Seq(Chars)
    BY <2>1, AddLineIsText
  <2> QED
    BY <2>2
<1>4. \E fold \in [SUBSET (1 .. N) -> Seq(Chars)] : Folds(fold, N, first, step)
  <2> HIDE DEF step, N
  <2> QED
    BY <1>1, <1>2, <1>3, FoldExists, Zenon
<1>5. PICK fold \in [SUBSET (1 .. N) -> Seq(Chars)] : Folds(fold, N, first, step)
  BY <1>4
<1>6. \A I \in SUBSET (1 .. N) : I # {} => Max(I) \in 1 .. N
  BY <1>1, MaxOfIndices
<1>7. \A I \in SUBSET (1 .. N) :
        fold[I] = IF I = {} THEN first
                  ELSE AddLine(fold[I \ {Max(I)}], rest[Max(I)])
  <2> SUFFICES ASSUME NEW I \in SUBSET (1 .. N), I # {}
               PROVE  fold[I] = AddLine(fold[I \ {Max(I)}], rest[Max(I)])
    BY <1>5 DEF Folds
  <2>1. Max(I) \in 1 .. N /\ fold[I \ {Max(I)}] \in Seq(Chars)
    BY <1>6
  <2>2. fold[I] = step[<<fold[I \ {Max(I)}], Max(I)>>]
    BY <1>5 DEF Folds
  <2>3. \A a \in Seq(Chars), b \in 1 .. N :
          step[<<a, b>>] = AddLine(a, rest[b])
    OBVIOUS
  <2> HIDE DEF step
  <2> QED
    BY <2>1, <2>2, <2>3
<1>8. Iterates(fold)
  BY <1>1, <1>7
<1> DEFINE total == CHOOSE it : Iterates(it)
<1>9. Iterates(total)
  <2> HIDE DEF Iterates
  <2> QED
    BY <1>8
<1>10. Joining(first, rest) = total[DOMAIN rest]
  BY Zenon DEF Joining, FoldLeft, MapThenFoldSet
<1>11. \A I \in SUBSET (1 .. N) :
         total[I] = IF I = {} THEN first
                    ELSE AddLine(total[I \ {Max(I)}], rest[Max(I)])
  <2> HIDE DEF total
  <2> QED
    BY <1>1, <1>9
<1> HIDE DEF total
<1> DEFINE text == [n \in 0 .. N |-> total[1 .. n]]
<1>12. text[0] = first
  <2>1. 1 .. 0 = {} /\ 0 \in 0 .. N
    BY <1>1
  <2> QED
    BY <1>11, <2>1
<1>13. \A n \in 1 .. N : text[n] = AddLine(text[n - 1], rest[n])
  <2> TAKE n \in 1 .. N
  <2>1. /\ (1 .. n) \in SUBSET (1 .. N) /\ 1 .. n # {}
        /\ (1 .. n) \ {n} = 1 .. (n - 1)
        /\ n \in 0 .. N /\ n - 1 \in 0 .. N
    <3> HIDE DEF N, step
    <3> QED
      BY <1>1, Indices
  <2>2. Max(1 .. n) = n
    BY <1>1, MaxOfIndices
  <2>3. total[1 .. n] = AddLine(total[1 .. (n - 1)], rest[n])
    BY <1>11, <2>1, <2>2
  <2> QED
    BY <2>1, <2>3
<1>14. Joining(first, rest) = text[N]
  BY <1>1, <1>10
<1> HIDE DEF text
<1> QED
  BY <1>12, <1>13, <1>14

(* Reading nothing, and one character more.                                *)
LEMMA ReadingOfAppend ==
  /\ Reading(<<>>) = Nothing
  /\ \A text \in Seq(Chars) : Reading(text) \in Readings
  /\ \A text \in Seq(Chars), char \in Chars :
       Reading(Append(text, char)) = ReadChar(Reading(text), char)
<1>1. Reading(<<>>) = Nothing
  <2>1. <<>> \in Seq(Chars) /\ Len(<<>>) = 0
    OBVIOUS
  <2> QED
    BY <2>1, ReadingRuns
<1>2. ASSUME NEW text \in Seq(Chars)
      PROVE  Reading(text) \in Readings
  <2>1. PICK read : /\ read[0] = Nothing
                    /\ \A n \in 1 .. Len(text) :
                         read[n] = ReadChar(read[n - 1], text[n])
                    /\ Reading(text) = read[Len(text)]
    BY ReadingRuns
  <2> DEFINE T == {n \in 0 .. Len(text) : read[n] \in Readings}
  <2>2. 0 \in T
    <3>1. Nothing \in Readings
      BY DEF Nothing, Readings
    <3>2. 0 \in 0 .. Len(text)
      OBVIOUS
    <3> QED
      BY <2>1, <3>1, <3>2
  <2>3. ASSUME NEW n \in 1 .. Len(text), n - 1 \in T
        PROVE  n \in T
    <3>1. text[n] \in Chars
      OBVIOUS
    <3>2. read[n - 1] \in Readings
      BY <2>3
    <3>3. read[n] = ReadChar(read[n - 1], text[n])
      BY <2>1
    <3>4. read[n] \in Readings
      BY <3>1, <3>2, <3>3, ReadOne
    <3> QED
      BY <3>4
  <2>4. Len(text) \in Nat /\ Len(text) \in 0 .. Len(text)
    OBVIOUS
  <2> HIDE DEF T
  <2>5. Len(text) \in T
    BY <2>2, <2>3, <2>4, Induction
  <2>6. read[Len(text)] \in Readings
    BY <2>5 DEF T
  <2> QED
    BY <2>1, <2>6, Zenon
<1>3. ASSUME NEW text \in Seq(Chars), NEW char \in Chars
      PROVE  Reading(Append(text, char))
               = ReadChar(Reading(text), char)
  <2> DEFINE longer == Append(text, char)
  <2>1. /\ longer \in Seq(Chars) /\ Len(longer) = Len(text) + 1
        /\ longer[Len(text) + 1] = char
        /\ \A i \in 1 .. Len(text) : longer[i] = text[i]
        /\ Len(text) \in Nat
    BY Appended
  <2> HIDE DEF longer
  <2>2. PICK read : /\ read[0] = Nothing
                    /\ \A n \in 1 .. Len(text) :
                         read[n] = ReadChar(read[n - 1], text[n])
                    /\ Reading(text) = read[Len(text)]
    BY ReadingRuns
  <2>3. PICK more : /\ more[0] = Nothing
                    /\ \A n \in 1 .. Len(longer) :
                         more[n] = ReadChar(more[n - 1], longer[n])
                    /\ Reading(longer) = more[Len(longer)]
    BY <2>1, ReadingRuns
  <2> DEFINE T == {n \in 0 .. Len(text) : read[n] = more[n]}
  <2>4. 0 \in T
    BY <2>1, <2>2, <2>3
  <2>5. ASSUME NEW n \in 1 .. Len(text), n - 1 \in T
        PROVE  n \in T
    <3>1. n \in 1 .. Len(longer) /\ longer[n] = text[n]
      BY <2>1
    <3>2. read[n - 1] = more[n - 1] /\ n \in 0 .. Len(text)
      BY <2>5
    <3>3. read[n] = more[n]
      BY <2>2, <2>3, <3>1, <3>2
    <3> QED
      BY <3>2, <3>3
  <2> HIDE DEF T
  <2>6. Len(text) \in T
    <3>1. \A n \in 0 .. Len(text) : n \in T
      BY <2>1, <2>4, <2>5, Induction
    <3> QED
      BY <2>1, <3>1
  <2>7. read[Len(text)] = more[Len(text)]
    BY <2>6 DEF T
  <2>8. more[Len(text) + 1] = ReadChar(more[Len(text)], char)
    <3>1. /\ Len(text) + 1 \in 1 .. Len(longer)
          /\ Len(text) + 1 - 1 = Len(text)
      BY <2>1
    <3> QED
      BY <2>1, <2>3, <3>1
  <2>9. Reading(longer) = ReadChar(Reading(text), char)
    BY <2>1, <2>2, <2>3, <2>7, <2>8, Zenon
  <2> QED
    BY <2>9 DEF longer
<1> QED
  BY <1>1, <1>2, <1>3

(* Joining nothing to a line, and one line more.                           *)
LEMMA JoiningOfAppend ==
  /\ \A first \in Seq(Chars) : Joining(first, <<>>) = first
  /\ \A first \in Seq(Chars), rest \in Seq(Seq(Chars)) :
       Joining(first, rest) \in Seq(Chars)
  /\ \A first \in Seq(Chars), rest \in Seq(Seq(Chars)), line \in Seq(Chars) :
       Joining(first, Append(rest, line))
         = AddLine(Joining(first, rest), line)
<1>1. \A first \in Seq(Chars) : Joining(first, <<>>) = first
  <2>1. <<>> \in Seq(Seq(Chars)) /\ Len(<<>>) = 0
    OBVIOUS
  <2> QED
    BY <2>1, JoiningRuns
<1>2. ASSUME NEW first \in Seq(Chars), NEW rest \in Seq(Seq(Chars))
      PROVE  Joining(first, rest) \in Seq(Chars)
  <2>1. PICK text : /\ text[0] = first
                    /\ \A n \in 1 .. Len(rest) :
                         text[n] = AddLine(text[n - 1], rest[n])
                    /\ Joining(first, rest) = text[Len(rest)]
    BY JoiningRuns
  <2> DEFINE T == {n \in 0 .. Len(rest) : text[n] \in Seq(Chars)}
  <2>2. 0 \in T
    BY <2>1
  <2>3. ASSUME NEW n \in 1 .. Len(rest), n - 1 \in T
        PROVE  n \in T
    <3>1. rest[n] \in Seq(Chars)
      OBVIOUS
    <3>2. text[n - 1] \in Seq(Chars)
      BY <2>3
    <3>3. text[n] = AddLine(text[n - 1], rest[n])
      BY <2>1
    <3>4. text[n] \in Seq(Chars)
      BY <3>1, <3>2, <3>3, AddLineIsText
    <3> QED
      BY <3>4
  <2>4. Len(rest) \in Nat /\ Len(rest) \in 0 .. Len(rest)
    OBVIOUS
  <2> HIDE DEF T
  <2>5. Len(rest) \in T
    BY <2>2, <2>3, <2>4, Induction
  <2>6. text[Len(rest)] \in Seq(Chars)
    BY <2>5 DEF T
  <2> QED
    BY <2>1, <2>6, Zenon
<1>3. ASSUME NEW first \in Seq(Chars), NEW rest \in Seq(Seq(Chars)), NEW line \in Seq(Chars)
      PROVE  Joining(first, Append(rest, line))
               = AddLine(Joining(first, rest), line)
  <2> DEFINE longer == Append(rest, line)
  <2>1. /\ longer \in Seq(Seq(Chars)) /\ Len(longer) = Len(rest) + 1
        /\ longer[Len(rest) + 1] = line
        /\ \A i \in 1 .. Len(rest) : longer[i] = rest[i]
        /\ Len(rest) \in Nat
    BY Appended
  <2> HIDE DEF longer
  <2>2. PICK text : /\ text[0] = first
                    /\ \A n \in 1 .. Len(rest) :
                         text[n] = AddLine(text[n - 1], rest[n])
                    /\ Joining(first, rest) = text[Len(rest)]
    BY JoiningRuns
  <2>3. PICK more : /\ more[0] = first
                    /\ \A n \in 1 .. Len(longer) :
                         more[n] = AddLine(more[n - 1], longer[n])
                    /\ Joining(first, longer) = more[Len(longer)]
    BY <2>1, JoiningRuns
  <2> DEFINE T == {n \in 0 .. Len(rest) : text[n] = more[n]}
  <2>4. 0 \in T
    BY <2>1, <2>2, <2>3
  <2>5. ASSUME NEW n \in 1 .. Len(rest), n - 1 \in T
        PROVE  n \in T
    <3>1. n \in 1 .. Len(longer) /\ longer[n] = rest[n]
      BY <2>1
    <3>2. text[n - 1] = more[n - 1] /\ n \in 0 .. Len(rest)
      BY <2>5
    <3>3. text[n] = more[n]
      BY <2>2, <2>3, <3>1, <3>2
    <3> QED
      BY <3>2, <3>3
  <2> HIDE DEF T
  <2>6. Len(rest) \in T
    <3>1. \A n \in 0 .. Len(rest) : n \in T
      BY <2>1, <2>4, <2>5, Induction
    <3> QED
      BY <2>1, <3>1
  <2>7. text[Len(rest)] = more[Len(rest)]
    BY <2>6 DEF T
  <2>8. more[Len(rest) + 1] = AddLine(more[Len(rest)], line)
    <3>1. /\ Len(rest) + 1 \in 1 .. Len(longer)
          /\ Len(rest) + 1 - 1 = Len(rest)
      BY <2>1
    <3> QED
      BY <2>1, <2>3, <3>1
  <2>9. Joining(first, longer) = AddLine(Joining(first, rest), line)
    BY <2>1, <2>2, <2>3, <2>7, <2>8, Zenon
  <2> QED
    BY <2>9 DEF longer
<1> QED
  BY <1>1, <1>2, <1>3

-------------------------------------------------------------------------------
(* Sequences *)

(* What holds of the empty sequence, and of one if of that without its     *)
(* last element, holds of all.                                             *)
LEMMA SeqInduction ==
  ASSUME NEW S, NEW T,
         <<>> \in T,
         \A seq \in Seq(S), last \in S : seq \in T => Append(seq, last) \in T
  PROVE  Seq(S) \subseteq T
<1> SUFFICES ASSUME NEW seq \in Seq(S)
             PROVE  seq \in T
  OBVIOUS
<1> DEFINE U == {n \in 0 .. Len(seq) :
                   \A s \in Seq(S) : Len(s) = n => s \in T}
<1>1. 0 \in U
  <2>1. \A s \in Seq(S) : Len(s) = 0 => s = <<>>
    OBVIOUS
  <2> QED
    BY <2>1
<1>2. ASSUME NEW n \in 1 .. Len(seq), n - 1 \in U
      PROVE  n \in U
  <2> SUFFICES ASSUME NEW s \in Seq(S), Len(s) = n
               PROVE  s \in T
    OBVIOUS
  <2> DEFINE front == SubSeq(s, 1, n - 1)
  <2>1. s[n] \in S
    OBVIOUS
  <2>2. front \in Seq(S) /\ Len(front) = n - 1
    OBVIOUS
  <2>3. s = Append(front, s[n])
    OBVIOUS
  <2>4. front \in T
    BY <1>2, <2>2
  <2> HIDE DEF front
  <2> QED
    BY <2>1, <2>2, <2>3, <2>4, Zenon
<1>3. Len(seq) \in Nat /\ Len(seq) \in 0 .. Len(seq)
  OBVIOUS
<1> HIDE DEF U
<1>4. Len(seq) \in U
  BY <1>1, <1>2, <1>3, Induction
<1> QED
  BY <1>4 DEF U

(* Concatenation and Append.                                               *)
LEMMA ConcatOfAppend ==
  ASSUME NEW S, NEW s \in Seq(S), NEW t \in Seq(S), NEW e \in S
  PROVE  /\ s \o t \in Seq(S)
         /\ s \o <<>> = s
         /\ <<>> \o s = s
         /\ s \o Append(t, e) = Append(s \o t, e)
         /\ s \o <<e>> = Append(s, e)
         /\ Append(s, e) # <<>>
<1>1. s \o t \in Seq(S) /\ s \o <<>> = s /\ <<>> \o s = s
  BY ConcatProperties, ConcatEmptySeq
<1>2. s \o <<e>> = Append(s, e) /\ Append(s, e) # <<>>
  OBVIOUS
<1>3. s \o Append(t, e) = Append(s \o t, e)
  <2>1. t \o <<e>> = Append(t, e) /\ <<e>> \in Seq(S)
    OBVIOUS
  <2>2. (s \o t) \o <<e>> = Append(s \o t, e)
    BY <1>1
  <2>3. (s \o t) \o <<e>> = s \o (t \o <<e>>)
    BY <2>1, ConcatAssociative
  <2> QED
    BY <2>1, <2>2, <2>3
<1> QED
  BY <1>1, <1>2, <1>3

-------------------------------------------------------------------------------
(* Joining and printing lines *)

(* A line is joined to those before it.                                    *)
LEMMA JoinOfAppend ==
  /\ Join(<<>>) = <<>>
  /\ \A lines \in Seq(Seq(Chars)) : Join(lines) \in Seq(Chars)
  /\ \A line \in Seq(Chars) : Join(Append(<<>>, line)) = line
  /\ \A lines \in Seq(Seq(Chars)), line \in Seq(Chars) :
       lines # <<>> =>
         Join(Append(lines, line)) = Join(lines) \o <<Newline>> \o line
<1>1. Join(<<>>) = <<>>
  BY JoinJoins
<1>2. \A lines \in Seq(Seq(Chars)) :
        lines # <<>> =>
          /\ Head(lines) \in Seq(Chars) /\ Tail(lines) \in Seq(Seq(Chars))
          /\ Join(lines) = Joining(Head(lines), Tail(lines))
  <2> TAKE lines \in Seq(Seq(Chars))
  <2> HAVE lines # <<>>
  <2>1. Head(lines) \in Seq(Chars) /\ Tail(lines) \in Seq(Seq(Chars))
    BY HeadTailProperties
  <2> QED
    BY <2>1, JoinJoins
<1>3. \A lines \in Seq(Seq(Chars)) : Join(lines) \in Seq(Chars)
  <2> TAKE lines \in Seq(Seq(Chars))
  <2>1. CASE lines = <<>>
    <3>1. <<>> \in Seq(Chars)
      OBVIOUS
    <3> QED
      BY <1>1, <2>1, <3>1
  <2>2. CASE lines # <<>>
    BY <1>2, <2>2, JoiningOfAppend
  <2> QED
    BY <2>1, <2>2
<1>4. \A line \in Seq(Chars) : Join(Append(<<>>, line)) = line
  <2> TAKE line \in Seq(Chars)
  <2> DEFINE lines == Append(<<>>, line)
  <2>1. lines \in Seq(Seq(Chars)) /\ lines # <<>>
    OBVIOUS
  <2>2. Head(lines) = line /\ Tail(lines) = <<>>
    OBVIOUS
  <2> HIDE DEF lines
  <2>3. Join(lines) = Joining(line, <<>>)
    BY <1>2, <2>1, <2>2
  <2>4. Join(lines) = line
    BY <2>3, JoiningOfAppend
  <2> QED
    BY <2>4 DEF lines
<1>5. \A lines \in Seq(Seq(Chars)), line \in Seq(Chars) :
        lines # <<>> =>
          Join(Append(lines, line)) = Join(lines) \o <<Newline>> \o line
  <2> TAKE lines \in Seq(Seq(Chars)), line \in Seq(Chars)
  <2> HAVE lines # <<>>
  <2> DEFINE more == Append(lines, line)
  <2>1. more \in Seq(Seq(Chars)) /\ more # <<>>
    OBVIOUS
  <2>2. Head(more) = Head(lines) /\ Tail(more) = Append(Tail(lines), line)
    OBVIOUS
  <2> HIDE DEF more
  <2>3. Join(more) = Joining(Head(lines), Append(Tail(lines), line))
    BY <1>2, <2>1, <2>2
  <2>4. Join(more) = AddLine(Join(lines), line)
    <3>1. /\ Head(lines) \in Seq(Chars) /\ Tail(lines) \in Seq(Seq(Chars))
          /\ Join(lines) = Joining(Head(lines), Tail(lines))
      BY <1>2
    <3>2. Joining(Head(lines), Append(Tail(lines), line))
            = AddLine(Joining(Head(lines), Tail(lines)), line)
      BY <3>1, JoiningOfAppend
    <3> QED
      BY <2>3, <3>1, <3>2
  <2> QED
    BY <2>4, Zenon DEF AddLine, more
<1> QED
  BY <1>1, <1>3, <1>4, <1>5

(* Joined, the last line follows the others as they are printed; printed,  *)
(* it is terminated as they are.                                           *)
LEMMA PrintedOfAppend ==
  /\ Printed(<<>>) = <<>>
  /\ \A lines \in Seq(Seq(Chars)) :
       /\ Printed(lines) \in Seq(Chars)
       /\ lines # <<>> => Printed(lines) = Append(Join(lines), Newline)
  /\ \A lines \in Seq(Seq(Chars)), line \in Seq(Chars) :
       /\ Join(Append(lines, line)) = Printed(lines) \o line
       /\ Printed(Append(lines, line)) = Append(Printed(lines) \o line, Newline)
<1>1. Printed(<<>>) = <<>>
  <2>1. Printed(<<>>) = <<>> \o <<>>
    BY JoinOfAppend DEF Printed
  <2>2. <<>> \in Seq(Chars)
    OBVIOUS
  <2> QED
    BY <2>1, <2>2, ConcatEmptySeq
<1>2. \A lines \in Seq(Seq(Chars)) :
        lines # <<>> => Printed(lines) = Append(Join(lines), Newline)
  <2> TAKE lines \in Seq(Seq(Chars))
  <2> HAVE lines # <<>>
  <2>1. Printed(lines) = Join(lines) \o <<Newline>>
    BY DEF Printed
  <2>2. Join(lines) \in Seq(Chars)
    BY JoinOfAppend
  <2> QED
    BY <2>1, <2>2, ConcatOfAppend, Widths
<1>3. \A lines \in Seq(Seq(Chars)) : Printed(lines) \in Seq(Chars)
  <2> TAKE lines \in Seq(Seq(Chars))
  <2>1. CASE lines = <<>>
    <3>1. <<>> \in Seq(Chars)
      OBVIOUS
    <3> QED
      BY <1>1, <2>1, <3>1
  <2>2. CASE lines # <<>>
    <3>1. Join(lines) \in Seq(Chars)
      BY JoinOfAppend
    <3> QED
      BY <1>2, <2>2, <3>1, Appended, Widths
  <2> QED
    BY <2>1, <2>2
<1>4. ASSUME NEW lines \in Seq(Seq(Chars)), NEW line \in Seq(Chars)
      PROVE  Join(Append(lines, line)) = Printed(lines) \o line
  <2>1. CASE lines = <<>>
    <3>1. Join(Append(lines, line)) = line
      BY <2>1, JoinOfAppend
    <3>2. <<>> \o line = line
      BY ConcatEmptySeq
    <3> QED
      BY <1>1, <2>1, <3>1, <3>2
  <2>2. CASE lines # <<>>
    <3>1. Join(Append(lines, line)) = Join(lines) \o <<Newline>> \o line
      BY <2>2, JoinOfAppend
    <3>2. Printed(lines) = Join(lines) \o <<Newline>>
      BY <2>2 DEF Printed
    <3> QED
      BY <3>1, <3>2
  <2> QED
    BY <2>1, <2>2
<1>5. ASSUME NEW lines \in Seq(Seq(Chars)), NEW line \in Seq(Chars)
      PROVE  Printed(Append(lines, line))
               = Append(Printed(lines) \o line, Newline)
  <2>1. Append(lines, line) \in Seq(Seq(Chars)) /\ Append(lines, line) # <<>>
    BY Appended, ConcatOfAppend
  <2> QED
    BY <1>2, <1>4, <2>1
<1> QED
  BY <1>1, <1>2, <1>3, <1>4, <1>5

-------------------------------------------------------------------------------
(* Reading what was printed *)

(* What is in a line: anything but its end.                                *)
Line == Seq(Chars \ {Newline})

(* A line is a text.                                                       *)
LEMMA LineIsText ==
  /\ Line \subseteq Seq(Chars)
  /\ Seq(Line) \subseteq Seq(Seq(Chars))
<1>1. Chars \ {Newline} \subseteq Chars
  OBVIOUS
<1>2. Line \subseteq Seq(Chars)
  BY <1>1, SeqMonotonic DEF Line
<1> QED
  BY <1>2, SeqMonotonic

(* What is printed, and a line begun after it, is read as just that.       *)
LEMMA ReadPrinted ==
  ASSUME NEW lines \in Seq(Line), NEW line \in Line
  PROVE  /\ Reading(Printed(lines) \o line).done = lines
         /\ Reading(Printed(lines) \o line).line = line
<1> DEFINE Reads(d, l) == /\ Reading(Printed(d) \o l).done = d
                          /\ Reading(Printed(d) \o l).line = l
           Begun(d) == {l \in Line : Reads(d, l)}
           Ended == {d \in Seq(Line) : Reads(d, <<>>)}
<1>1. ASSUME NEW d \in Seq(Line), Reads(d, <<>>)
      PROVE  Line \subseteq Begun(d)
  <2>1. <<>> \in Begun(d)
    BY <1>1 DEF Line
  <2>2. ASSUME NEW l \in Line, NEW char \in Chars \ {Newline}, l \in Begun(d)
        PROVE  Append(l, char) \in Begun(d)
    <3> DEFINE text == Printed(d) \o l
    <3>1. /\ Append(l, char) \in Line
          /\ Printed(d) \in Seq(Chars) /\ l \in Seq(Chars)
      BY LineIsText, PrintedOfAppend DEF Line
    <3>2. /\ text \in Seq(Chars)
          /\ Printed(d) \o Append(l, char) = Append(text, char)
      BY <3>1, ConcatOfAppend
    <3>3. Reading(text) \in Readings
      BY <3>2, ReadingOfAppend
    <3>4. Reading(text).done = d /\ Reading(text).line = l
      BY <2>2
    <3> HIDE DEF text
    <3>5. Reading(Append(text, char)) = ReadChar(Reading(text), char)
      BY <3>2, ReadingOfAppend
    <3>6. /\ Reading(Append(text, char)).done = d
          /\ Reading(Append(text, char)).line = Append(l, char)
      BY <3>3, <3>4, <3>5, ReadOne
    <3> QED
      BY <3>1, <3>2, <3>6
  <2> HIDE DEF Begun
  <2> QED
    BY <2>1, <2>2, SeqInduction DEF Line
<1>2. <<>> \in Ended
  <2>1. <<>> \in Seq(Line) /\ <<>> \in Seq(Chars)
    OBVIOUS
  <2>2. Printed(<<>>) \o <<>> = <<>>
    BY <2>1, PrintedOfAppend, ConcatOfAppend
  <2>3. Reading(<<>>).done = <<>> /\ Reading(<<>>).line = <<>>
    BY ReadingOfAppend DEF Nothing
  <2> QED
    BY <2>1, <2>2, <2>3
<1>3. ASSUME NEW d \in Seq(Line), NEW l \in Line, d \in Ended
      PROVE  Append(d, l) \in Ended
  <2> DEFINE text == Printed(d) \o l
  <2>1. /\ Append(d, l) \in Seq(Line) /\ d \in Seq(Seq(Chars))
        /\ Printed(d) \in Seq(Chars) /\ l \in Seq(Chars)
        /\ Append(d, l) \in Seq(Seq(Chars))
    BY LineIsText, PrintedOfAppend, Appended
  <2>2. /\ text \in Seq(Chars)
        /\ Printed(Append(d, l)) = Append(text, Newline)
    BY <2>1, ConcatOfAppend, PrintedOfAppend
  <2>3. Reading(text) \in Readings
    BY <2>2, ReadingOfAppend
  <2>4. Reading(text).done = d /\ Reading(text).line = l
    BY <1>1, <1>3
  <2>5. Printed(Append(d, l)) \o <<>> = Printed(Append(d, l))
    BY <2>1, PrintedOfAppend, ConcatEmptySeq
  <2> HIDE DEF text
  <2>6. Reading(Append(text, Newline)) = ReadChar(Reading(text), Newline)
    BY <2>2, ReadingOfAppend, Widths
  <2>7. /\ Reading(Append(text, Newline)).done = Append(d, l)
        /\ Reading(Append(text, Newline)).line = <<>>
    BY <2>3, <2>4, <2>6, ReadOne, Widths
  <2> QED
    BY <2>1, <2>2, <2>5, <2>7
<1>4. lines \in Ended
  <2> HIDE DEF Ended
  <2> QED
    BY <1>2, <1>3, SeqInduction
<1>5. line \in Begun(lines)
  BY <1>1, <1>4
<1> QED
  BY <1>5

(* Every text is what the reader has found: lines that are complete, as    *)
(* they are printed, and a line begun.                                     *)
LEMMA ReadingSplits ==
  ASSUME NEW text \in Seq(Chars)
  PROVE  /\ Reading(text).done \in Seq(Line)
         /\ Reading(text).line \in Line
         /\ text = Printed(Reading(text).done) \o Reading(text).line
<1> DEFINE Splits(t) == /\ Reading(t).done \in Seq(Line)
                        /\ Reading(t).line \in Line
                        /\ t = Printed(Reading(t).done) \o Reading(t).line
           T == {t \in Seq(Chars) : Splits(t)}
<1>1. <<>> \in T
  <2>1. Reading(<<>>).done = <<>> /\ Reading(<<>>).line = <<>>
    BY ReadingOfAppend DEF Nothing
  <2>2. <<>> \in Seq(Line) /\ <<>> \in Line /\ <<>> \in Seq(Chars)
    BY DEF Line
  <2>3. Printed(<<>>) \o <<>> = <<>>
    BY <2>2, PrintedOfAppend, ConcatOfAppend
  <2> QED
    BY <2>1, <2>2, <2>3
<1>2. ASSUME NEW t \in Seq(Chars), NEW char \in Chars, t \in T
      PROVE  Append(t, char) \in T
  <2> DEFINE d == Reading(t).done
             l == Reading(t).line
             more == Append(t, char)
  <2>1. more \in Seq(Chars) /\ Reading(t) \in Readings
    BY ReadingOfAppend
  <2>2. Reading(more) = ReadChar(Reading(t), char)
    BY ReadingOfAppend
  <2>3. d \in Seq(Line) /\ l \in Line /\ t = Printed(d) \o l
    BY <1>2
  <2> HIDE DEF more
  <2>4. CASE char = Newline
    <3>1. Reading(more).done = Append(d, l) /\ Reading(more).line = <<>>
      BY <2>1, <2>2, <2>4, ReadOne
    <3> HIDE DEF d, l
    <3>2. /\ Append(d, l) \in Seq(Line) /\ <<>> \in Line
          /\ Append(d, l) \in Seq(Seq(Chars))
          /\ d \in Seq(Seq(Chars)) /\ l \in Seq(Chars)
      BY <2>3, LineIsText, Appended DEF Line
    <3>3. Printed(Append(d, l)) = Append(t, Newline)
      BY <2>3, <3>2, PrintedOfAppend
    <3>4. more = Printed(Append(d, l)) \o <<>>
      BY <2>1, <2>4, <3>3, ConcatEmptySeq DEF more
    <3>5. more \in T
      BY <2>1, <3>1, <3>2, <3>4
    <3> QED
      BY <3>5 DEF more
  <2>5. CASE char # Newline
    <3>1. Reading(more).done = d /\ Reading(more).line = Append(l, char)
      BY <2>1, <2>2, <2>5, ReadOne
    <3> HIDE DEF d, l
    <3>2. /\ Append(l, char) \in Line
          /\ Printed(d) \in Seq(Chars) /\ l \in Seq(Chars)
      BY <2>3, <2>5, LineIsText, PrintedOfAppend DEF Line
    <3>3. Printed(d) \o Append(l, char) = Append(Printed(d) \o l, char)
      BY <3>2, ConcatOfAppend
    <3>4. more = Printed(d) \o Append(l, char)
      BY <2>3, <3>3 DEF more
    <3>5. more \in T
      BY <2>1, <2>3, <3>1, <3>2, <3>4
    <3> QED
      BY <3>5 DEF more
  <2> HIDE DEF T
  <2> QED
    BY <2>4, <2>5 DEF more
<1>3. text \in T
  <2> HIDE DEF T
  <2> QED
    BY <1>1, <1>2, SeqInduction
<1> QED
  BY <1>3

(* The lines of what was printed, and of what was joined.                  *)
LEMMA LinesOfPrinted ==
  ASSUME NEW lines \in Seq(Line)
  PROVE  /\ Lines(Printed(lines)) = lines
         /\ \A line \in Line :
              /\ line # <<>> =>
                   Lines(Printed(lines) \o line) = Append(lines, line)
              /\ line = <<>> => Lines(Printed(lines) \o line) = lines
<1>1. lines \in Seq(Seq(Chars)) /\ <<>> \in Line
  BY LineIsText DEF Line
<1>2. Printed(lines) \o <<>> = Printed(lines)
  BY <1>1, PrintedOfAppend, ConcatEmptySeq
<1>3. \A line \in Line :
        /\ line # <<>> => Lines(Printed(lines) \o line) = Append(lines, line)
        /\ line = <<>> => Lines(Printed(lines) \o line) = lines
  <2> TAKE line \in Line
  <2> QED
    BY ReadPrinted, LinesRead
<1> QED
  BY <1>1, <1>2, <1>3

(* A text is its lines, joined, or joined and ended.                       *)
LEMMA TextIsLines ==
  ASSUME NEW text \in Seq(Chars)
  PROVE  /\ Lines(text) \in Seq(Line)
         /\ \/ text = Join(Lines(text))
            \/ text = Append(Join(Lines(text)), Newline) /\ Lines(text) # <<>>
<1> DEFINE d == Reading(text).done
           l == Reading(text).line
<1>1. d \in Seq(Line) /\ l \in Line /\ text = Printed(d) \o l
  BY ReadingSplits
<1>2. Lines(text) = IF l = <<>> THEN d ELSE Append(d, l)
  BY LinesRead
<1> HIDE DEF d, l
<1>3. d \in Seq(Seq(Chars)) /\ l \in Seq(Chars) /\ Printed(d) \in Seq(Chars)
  BY <1>1, LineIsText, PrintedOfAppend
<1>4. CASE l # <<>>
  <2>1. Lines(text) = Append(d, l)
    BY <1>2, <1>4
  <2>2. text = Join(Append(d, l)) /\ Append(d, l) \in Seq(Line)
    BY <1>1, <1>3, PrintedOfAppend, Appended
  <2> QED
    BY <2>1, <2>2
<1>5. CASE l = <<>>
  <2>1. Lines(text) = d /\ text = Printed(d)
    BY <1>1, <1>2, <1>3, <1>5, ConcatEmptySeq
  <2>2. CASE d = <<>>
    BY <1>1, <2>1, <2>2, PrintedOfAppend, JoinOfAppend
  <2>3. CASE d # <<>>
    BY <1>1, <1>3, <2>1, <2>3, PrintedOfAppend
  <2> QED
    BY <2>2, <2>3
<1> QED
  BY <1>4, <1>5

-------------------------------------------------------------------------------
(* Prefixes *)

Prefix(text, n) == SubSeq(text, 1, n)

(* A prefix, and the one that is longer by a character.                    *)
LEMMA PrefixIsText ==
  ASSUME NEW text \in Seq(Chars)
  PROVE  /\ Prefix(text, 0) = <<>>
         /\ Prefix(text, Len(text)) = text
         /\ \A n \in 0 .. Len(text) :
              Prefix(text, n) \in Seq(Chars) /\ Len(Prefix(text, n)) = n
         /\ \A n \in 1 .. Len(text) :
              Prefix(text, n) = Append(Prefix(text, n - 1), text[n])
<1>1. Prefix(text, 0) = <<>> /\ Prefix(text, Len(text)) = text
  BY DEF Prefix
<1>2. ASSUME NEW n \in 0 .. Len(text)
      PROVE  Prefix(text, n) \in Seq(Chars) /\ Len(Prefix(text, n)) = n
  BY DEF Prefix
<1>3. ASSUME NEW n \in 1 .. Len(text)
      PROVE  Prefix(text, n) = Append(Prefix(text, n - 1), text[n])
  BY DEF Prefix
<1> QED
  BY <1>1, <1>2, <1>3

(* A character more makes more bytes, and no fewer lines: it ends the line *)
(* that was begun or is part of one.                                       *)
LEMMA OneMore ==
  ASSUME NEW text \in Seq(Chars), NEW char \in Chars
  PROVE  /\ Bytes(text) <= Bytes(Append(text, char))
         /\ Len(Lines(text)) <= Len(Lines(Append(text, char)))
         /\ Len(Lines(Append(text, char))) = Len(Reading(text).done) + 1
<1> DEFINE more == Append(text, char)
           d == Reading(text).done
           l == Reading(text).line
<1>1. Bytes(text) <= Bytes(more)
  BY BytesOfAppend, Widths
<1>2. more \in Seq(Chars) /\ Reading(text) \in Readings
  BY ReadingOfAppend
<1>3. Reading(more) = ReadChar(Reading(text), char)
  BY ReadingOfAppend
<1>4. d \in Seq(Seq(Chars)) /\ l \in Seq(Chars)
  BY <1>2 DEF Readings
<1>5. Len(Lines(more)) = Len(d) + 1
  <2> HIDE DEF more
  <2>1. CASE char = Newline
    <3>1. Reading(more).done = Append(d, l) /\ Reading(more).line = <<>>
      BY <1>2, <1>3, <2>1, ReadOne
    <3>2. Lines(more) = Append(d, l)
      BY <3>1, LinesRead
    <3> QED
      BY <1>4, <3>2, Appended
  <2>2. CASE char # Newline
    <3>1. Reading(more).done = d /\ Reading(more).line = Append(l, char)
      BY <1>2, <1>3, <2>2, ReadOne
    <3> HIDE DEF d, l
    <3>2. Append(l, char) # <<>> /\ Append(l, char) \in Seq(Chars)
      BY <1>4, ConcatOfAppend, Appended
    <3>3. Lines(more) = Append(d, Append(l, char))
      BY <3>1, <3>2, LinesRead
    <3> QED
      BY <1>4, <3>2, <3>3, Appended
  <2> QED
    BY <2>1, <2>2
<1>6. Len(Lines(text)) <= Len(d) + 1
  <2>1. Lines(text) = IF l = <<>> THEN d ELSE Append(d, l)
    BY LinesRead
  <2> HIDE DEF d, l
  <2>2. Len(Append(d, l)) = Len(d) + 1 /\ Len(d) \in Nat
    BY <1>4, Appended
  <2> QED
    BY <2>1, <2>2
<1> QED
  BY <1>1, <1>5, <1>6

(* A longer prefix has no fewer bytes and no fewer lines.                  *)
LEMMA PrefixGrows ==
  ASSUME NEW text \in Seq(Chars), NEW j \in 0 .. Len(text), NEW i \in 0 .. j
  PROVE  /\ Bytes(Prefix(text, i)) <= Bytes(Prefix(text, j))
         /\ Len(Lines(Prefix(text, i))) <= Len(Lines(Prefix(text, j)))
<1> DEFINE bytes(n) == Bytes(Prefix(text, n))
           count(n) == Len(Lines(Prefix(text, n)))
           T == {n \in 0 .. Len(text) :
                   \A m \in 0 .. n : bytes(m) <= bytes(n) /\ count(m) <= count(n)}
<1>1. \A n \in 0 .. Len(text) : bytes(n) \in Nat /\ count(n) \in Nat
  <2> TAKE n \in 0 .. Len(text)
  <2>1. Prefix(text, n) \in Seq(Chars)
    BY PrefixIsText
  <2>2. Lines(Prefix(text, n)) \in Seq(Line)
    BY <2>1, TextIsLines
  <2> QED
    BY <2>1, <2>2, BytesOfAppend
<1>2. \A n \in 1 .. Len(text) :
        bytes(n - 1) <= bytes(n) /\ count(n - 1) <= count(n)
  <2> TAKE n \in 1 .. Len(text)
  <2>1. /\ Prefix(text, n) = Append(Prefix(text, n - 1), text[n])
        /\ Prefix(text, n - 1) \in Seq(Chars) /\ text[n] \in Chars
    BY PrefixIsText
  <2> QED
    BY <2>1, OneMore
<1> HIDE DEF bytes, count
<1>3. 0 \in T
  BY <1>1
<1>4. ASSUME NEW n \in 1 .. Len(text), n - 1 \in T
      PROVE  n \in T
  <2> SUFFICES ASSUME NEW m \in 0 .. n
               PROVE  bytes(m) <= bytes(n) /\ count(m) <= count(n)
    OBVIOUS
  <2>1. /\ n \in 0 .. Len(text) /\ n - 1 \in 0 .. Len(text)
        /\ m \in 0 .. Len(text)
    OBVIOUS
  <2>2. CASE m = n
    BY <1>1, <2>1, <2>2
  <2>3. CASE m # n
    <3>1. m \in 0 .. n - 1
      BY <2>3
    <3>2. bytes(m) <= bytes(n - 1) /\ count(m) <= count(n - 1)
      BY <1>4, <3>1
    <3>3. bytes(n - 1) <= bytes(n) /\ count(n - 1) <= count(n)
      BY <1>2
    <3>4. /\ bytes(m) \in Nat /\ bytes(n - 1) \in Nat /\ bytes(n) \in Nat
          /\ count(m) \in Nat /\ count(n - 1) \in Nat /\ count(n) \in Nat
      BY <1>1, <2>1
    <3> QED
      BY <3>2, <3>3, <3>4
  <2> QED
    BY <2>2, <2>3
<1> HIDE DEF T
<1>5. \A n \in 0 .. Len(text) : n \in T
  <2>1. Len(text) \in Nat
    OBVIOUS
  <2> QED
    BY <1>3, <1>4, <2>1, Induction
<1>6. j \in T
  BY <1>5
<1> QED
  BY <1>6 DEF T, bytes, count

(* FirstBytes is the longest prefix that has room.                         *)
LEMMA FirstBytesFits ==
  ASSUME NEW text \in Seq(Chars), NEW n \in Nat
  PROVE  \E k \in 0 .. Len(text) :
           /\ FirstBytes(text, n) = Prefix(text, k)
           /\ Bytes(Prefix(text, k)) <= n
           /\ \A j \in k + 1 .. Len(text) : Bytes(Prefix(text, j)) > n
<1> DEFINE N == Len(text)
           Fits(k) == Bytes(Prefix(text, k)) <= n
           Longest(k, m) == Fits(k) /\ \A j \in k + 1 .. m : ~Fits(j)
           T == {m \in 0 .. N : \E k \in 0 .. m : Longest(k, m)}
<1>1. Fits(0)
  <2>1. Bytes(Prefix(text, 0)) = 0
    BY PrefixIsText, BytesOfAppend
  <2> QED
    BY <2>1
<1>2. N \in Nat
  OBVIOUS
<1> HIDE DEF Fits, N
<1>3. 0 \in T
  BY <1>1, <1>2
<1>4. ASSUME NEW m \in 1 .. N, m - 1 \in T
      PROVE  m \in T
  <2>1. CASE Fits(m)
    BY <2>1
  <2>2. CASE ~Fits(m)
    <3>1. PICK k \in 0 .. m - 1 : Longest(k, m - 1)
      BY <1>4
    <3>2. \A j \in k + 1 .. m : j = m \/ j \in k + 1 .. m - 1
      BY <1>2
    <3>3. Longest(k, m) /\ k \in 0 .. m
      BY <2>2, <3>1, <3>2
    <3> QED
      BY <3>3
  <2> QED
    BY <2>1, <2>2
<1> DEFINE cut == CHOOSE i \in 0 .. N : Longest(i, N)
<1>5. \E k \in 0 .. N : Longest(k, N)
  <2> HIDE DEF T
  <2>1. \A m \in 0 .. N : m \in T
    BY <1>2, <1>3, <1>4, Induction
  <2>2. N \in T
    BY <1>2, <2>1
  <2> HIDE DEF Longest
  <2> QED
    BY <2>2 DEF T
<1>6. cut \in 0 .. N /\ Longest(cut, N)
  <2> HIDE DEF Longest
  <2> QED
    BY <1>5
<1>7. FirstBytes(text, n) = Prefix(text, cut)
  BY Zenon DEF FirstBytes, Prefix, Fits, N
<1> HIDE DEF cut
<1>8. \A j \in cut + 1 .. N : Bytes(Prefix(text, j)) > n
  <2> TAKE j \in cut + 1 .. N
  <2>1. ~ (Bytes(Prefix(text, j)) <= n)
    BY <1>6 DEF Fits
  <2>2. j \in 0 .. N
    BY <1>2, <1>6
  <2>3. Bytes(Prefix(text, j)) \in Nat
    BY <2>2, PrefixIsText, BytesOfAppend DEF N
  <2> QED
    BY <2>1, <2>3
<1> QED
  BY <1>6, <1>7, <1>8 DEF Fits, N

(* Bytes of texts that follow one another add up.                          *)
LEMMA BytesOfConcat ==
  ASSUME NEW s \in Seq(Chars), NEW t \in Seq(Chars)
  PROVE  Bytes(s \o t) = Bytes(s) + Bytes(t)
<1> DEFINE T == {u \in Seq(Chars) : Bytes(s \o u) = Bytes(s) + Bytes(u)}
<1>1. <<>> \in T
  <2>1. s \o <<>> = s /\ <<>> \in Seq(Chars)
    BY ConcatEmptySeq
  <2>2. Bytes(<<>>) = 0 /\ Bytes(s) \in Nat
    BY BytesOfAppend
  <2> QED
    BY <2>1, <2>2
<1>2. ASSUME NEW u \in Seq(Chars), NEW char \in Chars, u \in T
      PROVE  Append(u, char) \in T
  <2>1. /\ s \o Append(u, char) = Append(s \o u, char)
        /\ s \o u \in Seq(Chars) /\ Append(u, char) \in Seq(Chars)
    BY ConcatOfAppend
  <2>2. Bytes(Append(s \o u, char)) = Bytes(s \o u) + Width[char]
    BY <2>1, BytesOfAppend
  <2>3. Bytes(Append(u, char)) = Bytes(u) + Width[char]
    BY BytesOfAppend
  <2>4. Bytes(s \o u) = Bytes(s) + Bytes(u)
    BY <1>2
  <2>5. Bytes(s) \in Nat /\ Bytes(u) \in Nat /\ Width[char] \in Nat
    BY BytesOfAppend, Widths
  <2>6. Bytes(s \o Append(u, char)) = Bytes(s) + Bytes(Append(u, char))
    BY <2>1, <2>2, <2>3, <2>4, <2>5
  <2> QED
    BY <2>1, <2>6
<1>3. t \in T
  <2> HIDE DEF T
  <2> QED
    BY <1>1, <1>2, SeqInduction
<1> QED
  BY <1>3

(* Lines from one to another, one more, and none.                          *)
LEMMA SomeLines ==
  ASSUME NEW S, NEW lines \in Seq(S), NEW n \in 0 .. Len(lines)
  PROVE  /\ \A k \in 1 .. n + 1 :
              /\ SubSeq(lines, k, n) \in Seq(S)
              /\ Len(SubSeq(lines, k, n)) = n - k + 1
         /\ SubSeq(lines, n + 1, n) = <<>>
         /\ n = Len(lines) => SubSeq(lines, 1, n) = lines
         /\ n > 0 => \A k \in 1 .. n :
                       SubSeq(lines, k, n)
                         = Append(SubSeq(lines, k, n - 1), lines[n])
<1>1. ASSUME NEW k \in 1 .. n + 1
      PROVE  /\ SubSeq(lines, k, n) \in Seq(S)
             /\ Len(SubSeq(lines, k, n)) = n - k + 1
  OBVIOUS
<1>2. SubSeq(lines, n + 1, n) = <<>>
  OBVIOUS
<1>3. n = Len(lines) => SubSeq(lines, 1, n) = lines
  OBVIOUS
<1>4. ASSUME n > 0, NEW k \in 1 .. n
      PROVE  SubSeq(lines, k, n) = Append(SubSeq(lines, k, n - 1), lines[n])
  BY <1>4
<1> QED
  BY <1>1, <1>2, <1>3, <1>4

(* The last of some lines, joined, are no longer than all of them.         *)
LEMMA JoinOfLast ==
  ASSUME NEW lines \in Seq(Line), NEW k \in 1 .. Len(lines) + 1
  PROVE  Bytes(Join(SubSeq(lines, k, Len(lines)))) <= Bytes(Join(lines))
<1> DEFINE N == Len(lines)
           size(i, n) == Bytes(Printed(SubSeq(lines, i, n)))
           T == {n \in 0 .. N : \A i \in 1 .. n + 1 : size(i, n) <= size(1, n)}
<1>1. N \in Nat
  OBVIOUS
<1>2. \A n \in 0 .. N : \A i \in 1 .. n + 1 :
        /\ SubSeq(lines, i, n) \in Seq(Line)
        /\ SubSeq(lines, i, n) \in Seq(Seq(Chars))
        /\ size(i, n) \in Nat
  <2> TAKE n \in 0 .. N
  <2> TAKE i \in 1 .. n + 1
  <2>1. SubSeq(lines, i, n) \in Seq(Line)
    BY SomeLines
  <2>2. SubSeq(lines, i, n) \in Seq(Seq(Chars))
    BY <2>1, LineIsText
  <2>3. Printed(SubSeq(lines, i, n)) \in Seq(Chars)
    BY <2>2, PrintedOfAppend
  <2> QED
    BY <2>1, <2>2, <2>3, BytesOfAppend
<1>3. \A n \in 1 .. N : \A i \in 1 .. n :
        size(i, n) = size(i, n - 1) + Bytes(lines[n]) + Width[Newline]
  <2> TAKE n \in 1 .. N
  <2> TAKE i \in 1 .. n
  <2>1. n \in 0 .. N /\ n - 1 \in 0 .. N /\ i \in 1 .. (n - 1) + 1
    BY <1>1
  <2>2. SubSeq(lines, i, n) = Append(SubSeq(lines, i, n - 1), lines[n])
    BY <2>1, SomeLines
  <2>3. lines[n] \in Seq(Chars)
    BY LineIsText
  <2> DEFINE front == SubSeq(lines, i, n - 1)
  <2>4. front \in Seq(Seq(Chars))
    BY <1>2, <2>1
  <2> HIDE DEF front
  <2>5. /\ Printed(Append(front, lines[n]))
             = Append(Printed(front) \o lines[n], Newline)
        /\ Printed(front) \in Seq(Chars)
    BY <2>3, <2>4, PrintedOfAppend
  <2>6. Printed(front) \o lines[n] \in Seq(Chars)
    BY <2>3, <2>5, ConcatOfAppend, Widths
  <2>7. Bytes(Printed(front) \o lines[n])
          = Bytes(Printed(front)) + Bytes(lines[n])
    BY <2>3, <2>5, BytesOfConcat
  <2>8. Bytes(Printed(Append(front, lines[n])))
          = Bytes(Printed(front)) + Bytes(lines[n]) + Width[Newline]
    BY <2>5, <2>6, <2>7, BytesOfAppend, Widths
  <2> QED
    BY <2>2, <2>8 DEF front
<1>4. \A n \in 0 .. N : size(n + 1, n) = 0
  <2> TAKE n \in 0 .. N
  <2>1. SubSeq(lines, n + 1, n) = <<>>
    BY SomeLines
  <2> QED
    BY <2>1, PrintedOfAppend, BytesOfAppend
<1>5. \A n \in 1 .. N : Bytes(lines[n]) \in Nat /\ Width[Newline] \in Nat
  BY LineIsText, BytesOfAppend, Widths
<1> HIDE DEF size
<1>6. 0 \in T
  <2>1. \A i \in 1 .. 0 + 1 : i = 1
    OBVIOUS
  <2>2. 0 \in 0 .. N /\ 1 \in 1 .. 0 + 1
    BY <1>1
  <2>3. size(1, 0) \in Nat
    BY <1>2, <2>2
  <2> HIDE DEF N
  <2> QED
    BY <2>1, <2>2, <2>3
<1>7. ASSUME NEW n \in 1 .. N, n - 1 \in T
      PROVE  n \in T
  <2>1. n \in 0 .. N /\ n - 1 \in 0 .. N
    BY <1>1
  <2> SUFFICES ASSUME NEW i \in 1 .. n + 1
               PROVE  size(i, n) <= size(1, n)
    BY <2>1
  <2>2. CASE i = n + 1
    <3>1. size(1, n) \in Nat
      BY <1>2, <2>1
    <3> QED
      BY <1>4, <2>1, <2>2, <3>1
  <2>3. CASE i # n + 1
    <3>1. i \in 1 .. n /\ i \in 1 .. (n - 1) + 1 /\ 1 \in 1 .. n
          /\ 1 \in 1 .. (n - 1) + 1
      BY <1>1, <2>3
    <3>2. size(i, n - 1) <= size(1, n - 1)
      BY <1>7, <3>1
    <3>3. size(i, n - 1) \in Nat /\ size(1, n - 1) \in Nat
      BY <1>2, <2>1, <3>1
    <3>4. /\ size(i, n) = size(i, n - 1) + Bytes(lines[n]) + Width[Newline]
          /\ size(1, n) = size(1, n - 1) + Bytes(lines[n]) + Width[Newline]
      BY <1>3, <3>1
    <3>5. Bytes(lines[n]) \in Nat /\ Width[Newline] \in Nat
      BY <1>5
    <3> QED
      BY <3>2, <3>3, <3>4, <3>5
  <2> QED
    BY <2>2, <2>3
<1>8. N \in T
  <2> HIDE DEF T, N
  <2>1. \A n \in 0 .. N : n \in T
    BY <1>1, <1>6, <1>7, Induction
  <2> QED
    BY <1>1, <2>1
<1>9. size(k, N) <= size(1, N)
  BY <1>8
<1> DEFINE last == SubSeq(lines, k, N)
<1>10. last \in Seq(Seq(Chars)) /\ lines \in Seq(Seq(Chars))
  BY <1>1, <1>2, LineIsText
<1>11. Bytes(Printed(last)) <= Bytes(Printed(lines))
  <2>1. SubSeq(lines, 1, N) = lines
    OBVIOUS
  <2> HIDE DEF N
  <2> QED
    BY <1>9, <2>1 DEF size
<1> HIDE DEF last
<1>12. CASE last = <<>>
  <2>1. Bytes(Join(last)) = 0
    BY <1>12, JoinOfAppend, BytesOfAppend
  <2>2. Bytes(Join(lines)) \in Nat
    BY <1>10, JoinOfAppend, BytesOfAppend
  <2> QED
    BY <2>1, <2>2 DEF last
<1>13. CASE last # <<>>
  <2>1. lines # <<>>
    <3> SUFFICES ASSUME lines = <<>>
                 PROVE  FALSE
      OBVIOUS
    <3>1. N = 0 /\ k = 1
      OBVIOUS
    <3>2. last = <<>>
      BY <3>1, SomeLines DEF last
    <3> QED
      BY <1>13, <3>2
  <2>2. \A ls \in Seq(Seq(Chars)) :
          ls # <<>> => /\ Bytes(Printed(ls)) = Bytes(Join(ls)) + Width[Newline]
                       /\ Bytes(Join(ls)) \in Nat
    <3> TAKE ls \in Seq(Seq(Chars))
    <3> HAVE ls # <<>>
    <3>1. Printed(ls) = Append(Join(ls), Newline) /\ Join(ls) \in Seq(Chars)
      BY PrintedOfAppend, JoinOfAppend
    <3> QED
      BY <3>1, BytesOfAppend, Widths
  <2>3. /\ Bytes(Printed(last)) = Bytes(Join(last)) + Width[Newline]
        /\ Bytes(Printed(lines)) = Bytes(Join(lines)) + Width[Newline]
        /\ Bytes(Join(last)) \in Nat /\ Bytes(Join(lines)) \in Nat
    BY <1>10, <1>13, <2>1, <2>2
  <2>4. Bytes(Join(last)) <= Bytes(Join(lines))
    BY <1>11, <2>3, Widths
  <2> QED
    BY <2>4 DEF last
<1> QED
  BY <1>12, <1>13

(* Joined lines are read as those lines, unless the last is empty.         *)
LEMMA LinesOfJoined ==
  ASSUME NEW lines \in Seq(Line)
  PROVE  /\ Len(Lines(Join(lines))) <= Len(lines)
         /\ (\A i \in 1 .. Len(lines) : lines[i] # <<>>) =>
              Lines(Join(lines)) = lines
<1>1. CASE lines = <<>>
  <2>1. Join(lines) = Printed(lines)
    BY <1>1, JoinOfAppend, PrintedOfAppend
  <2>2. Lines(Join(lines)) = lines
    BY <2>1, LinesOfPrinted
  <2> QED
    BY <2>2
<1>2. CASE lines # <<>>
  <2> DEFINE n == Len(lines)
             front == SubSeq(lines, 1, n - 1)
  <2>1. n \in 1 .. n /\ n \in 0 .. n /\ n > 0
    BY <1>2
  <2>2. lines = Append(front, lines[n])
    BY <2>1, SomeLines
  <2>3. front \in Seq(Line) /\ lines[n] \in Line /\ Len(front) = n - 1
    <3>1. n - 1 \in 0 .. Len(lines) /\ 1 \in 1 .. (n - 1) + 1
      BY <2>1
    <3>2. front \in Seq(Line) /\ Len(front) = (n - 1) - 1 + 1
      BY <3>1, SomeLines
    <3>3. lines[n] \in Line
      BY <2>1
    <3> QED
      BY <2>1, <3>2, <3>3
  <2> HIDE DEF front
  <2>4. Join(lines) = Printed(front) \o lines[n]
    BY <2>2, <2>3, LineIsText, PrintedOfAppend
  <2>5. /\ lines[n] # <<>> => Lines(Join(lines)) = lines
        /\ lines[n] = <<>> => Lines(Join(lines)) = front
    <3>1. \A line \in Line :
            /\ line # <<>> => Lines(Printed(front) \o line) = Append(front, line)
            /\ line = <<>> => Lines(Printed(front) \o line) = front
      BY <2>3, LinesOfPrinted
    <3>2. /\ lines[n] # <<>> =>
               Lines(Printed(front) \o lines[n]) = Append(front, lines[n])
          /\ lines[n] = <<>> => Lines(Printed(front) \o lines[n]) = front
      BY <2>3, <3>1, Zenon
    <3> QED
      BY <2>2, <2>4, <3>2, Zenon
  <2> QED
    BY <2>1, <2>3, <2>5
<1> QED
  BY <1>1, <1>2

(* The first lines are printed first.                                      *)
LEMMA PrintedFirst ==
  ASSUME NEW lines \in Seq(Line), NEW m \in 0 .. Len(lines)
  PROVE  \E rest \in Seq(Chars) :
           Printed(lines) = Printed(SubSeq(lines, 1, m)) \o rest
<1> DEFINE N == Len(lines) - m
           first == Printed(SubSeq(lines, 1, m))
           T == {n \in 0 .. N : \E rest \in Seq(Chars) :
                   Printed(SubSeq(lines, 1, m + n)) = first \o rest}
<1>1. N \in Nat /\ m + N = Len(lines) /\ N \in 0 .. N
  OBVIOUS
<1>2. \A n \in 0 .. N : /\ SubSeq(lines, 1, m + n) \in Seq(Line)
                        /\ SubSeq(lines, 1, m + n) \in Seq(Seq(Chars))
                        /\ Printed(SubSeq(lines, 1, m + n)) \in Seq(Chars)
  <2> TAKE n \in 0 .. N
  <2>1. m + n \in 0 .. Len(lines) /\ 1 \in 1 .. (m + n) + 1
    OBVIOUS
  <2>2. SubSeq(lines, 1, m + n) \in Seq(Line)
    BY <2>1, SomeLines
  <2> QED
    BY <2>2, LineIsText, PrintedOfAppend
<1>3. first \in Seq(Chars)
  <2>1. 0 \in 0 .. N /\ m + 0 = m
    OBVIOUS
  <2> QED
    BY <1>2, <2>1
<1>4. 0 \in T
  <2>1. first \o <<>> = first /\ <<>> \in Seq(Chars) /\ m + 0 = m
    BY <1>3, ConcatEmptySeq
  <2>2. Printed(SubSeq(lines, 1, m + 0)) = first \o <<>>
    BY <2>1
  <2>3. \E rest \in Seq(Chars) :
          Printed(SubSeq(lines, 1, m + 0)) = first \o rest
    BY <2>1, <2>2
  <2> HIDE DEF first
  <2> QED
    BY <1>1, <2>3
<1>5. ASSUME NEW n \in 1 .. N, n - 1 \in T
      PROVE  n \in T
  <2> DEFINE front == SubSeq(lines, 1, m + (n - 1))
             line == lines[m + n]
  <2>1. PICK rest \in Seq(Chars) : Printed(front) = first \o rest
    BY <1>5
  <2>2. /\ n - 1 \in 0 .. N /\ n \in 0 .. N /\ m + n \in 0 .. Len(lines)
        /\ m + n > 0 /\ 1 \in 1 .. m + n /\ m + n - 1 = m + (n - 1)
        /\ m + n \in 1 .. Len(lines)
    BY <1>1
  <2>3. SubSeq(lines, 1, m + n) = Append(front, line)
    BY <2>2, SomeLines
  <2>4. line \in Seq(Chars)
    BY <2>2, LineIsText
  <2>5. front \in Seq(Seq(Chars)) /\ Printed(front) \in Seq(Chars)
    BY <1>2, <2>2
  <2> HIDE DEF front, line, first
  <2>6. Printed(SubSeq(lines, 1, m + n))
          = Append(Printed(front) \o line, Newline)
    BY <2>3, <2>4, <2>5, PrintedOfAppend
  <2>7. Printed(front) \o line = first \o (rest \o line)
    BY <1>3, <2>1, <2>4, ConcatAssociative
  <2> DEFINE more == rest \o line
  <2>8. more \in Seq(Chars)
    BY <2>4
  <2> HIDE DEF more
  <2>9. /\ Append(first \o more, Newline) = first \o Append(more, Newline)
        /\ Append(more, Newline) \in Seq(Chars)
    <3>1. ASSUME NEW char \in Chars
          PROVE  /\ Append(first \o more, char) = first \o Append(more, char)
                 /\ Append(more, char) \in Seq(Chars)
      <4>1. Append(more, char) \in Seq(Chars)
        BY <2>8
      <4>2. first \o Append(more, char) = Append(first \o more, char)
        BY <1>3, <2>8, ConcatOfAppend
      <4> QED
        BY <4>1, <4>2
    <3> QED
      BY <3>1, Widths
  <2> QED
    BY <2>2, <2>6, <2>7, <2>9 DEF more
<1> HIDE DEF T, N
<1>6. \A n \in 0 .. N : n \in T
  BY <1>1, <1>4, <1>5, Induction
<1>7. N \in T
  BY <1>1, <1>6
<1>8. PICK rest \in Seq(Chars) : Printed(SubSeq(lines, 1, m + N)) = first \o rest
  BY <1>7 DEF T
<1>9. SubSeq(lines, 1, m + N) = lines
  BY <1>1
<1> QED
  BY <1>8, <1>9

-------------------------------------------------------------------------------
(* What is cut of what was printed *)

(* The lines of a log are not empty.                                       *)
Log(lines) == lines \in Seq(Line) /\ \A i \in 1 .. Len(lines) : lines[i] # <<>>

(* TruncateText keeps the longest prefix of the first lines for which there *)
(* is room, and says so if that is not all.                                 *)
LEMMA Truncates ==
  ASSUME NEW lines, Log(lines)
  PROVE  LET first == FirstLines(lines, MaxLines)
             trimmed == Join(first)
             out == TruncateText(Printed(lines))
         IN \E k \in 0 .. Len(trimmed) :
              /\ out.text = Prefix(trimmed, k)
              /\ Bytes(Prefix(trimmed, k)) <= MaxBytes
              /\ \A j \in k + 1 .. Len(trimmed) :
                   Bytes(Prefix(trimmed, j)) > MaxBytes
              /\ out.truncated =
                   (Len(lines) > MaxLines \/ Bytes(trimmed) > MaxBytes)
<1> DEFINE first == FirstLines(lines, MaxLines)
           trimmed == Join(first)
           out == TruncateText(Printed(lines))
<1>1. lines \in Seq(Line)
  BY DEF Log
<1>2. Lines(Printed(lines)) = lines
  BY <1>1, LinesOfPrinted
<1>3. /\ out.text = FirstBytes(trimmed, MaxBytes)
      /\ out.truncated = (Len(lines) > MaxLines \/ Bytes(trimmed) > MaxBytes)
  BY <1>2, Zenon DEF TruncateText
<1>4. first \in Seq(Line)
  BY <1>1, LimitsAssumption DEF FirstLines
<1>5. trimmed \in Seq(Chars)
  BY <1>4, LineIsText, JoinOfAppend
<1>6. MaxBytes \in Nat
  BY LimitsAssumption
<1> HIDE DEF out, trimmed
<1>7. PICK k \in 0 .. Len(trimmed) :
        /\ FirstBytes(trimmed, MaxBytes) = Prefix(trimmed, k)
        /\ Bytes(Prefix(trimmed, k)) <= MaxBytes
        /\ \A j \in k + 1 .. Len(trimmed) : Bytes(Prefix(trimmed, j)) > MaxBytes
  BY <1>5, <1>6, FirstBytesFits
<1>8. \E i \in 0 .. Len(trimmed) :
        /\ out.text = Prefix(trimmed, i)
        /\ Bytes(Prefix(trimmed, i)) <= MaxBytes
        /\ \A j \in i + 1 .. Len(trimmed) : Bytes(Prefix(trimmed, j)) > MaxBytes
        /\ out.truncated =
             (Len(lines) > MaxLines \/ Bytes(trimmed) > MaxBytes)
  BY <1>3, <1>7, Zenon
<1> QED
  BY <1>8, Zenon DEF out, trimmed, first

(* What begins with a text and a character, and goes on as the rest does.  *)
BeginsAs(whole, text, char, rest) ==
  /\ Len(whole) = Len(text) + 1 + Len(rest)
  /\ \A j \in 0 .. Len(text) : Prefix(whole, j) = Prefix(text, j)
  /\ Prefix(whole, Len(text) + 1) = Append(text, char)
  /\ rest # <<>> => /\ rest[1] \in Chars
                    /\ Prefix(whole, Len(text) + 2)
                         = Append(Append(text, char), rest[1])

(* Its prefixes are those of the text, and then one by one what follows.   *)
LEMMA PrefixOfConcat ==
  ASSUME NEW text \in Seq(Chars), NEW char \in Chars, NEW rest \in Seq(Chars)
  PROVE  BeginsAs(Append(text, char) \o rest, text, char, rest)
<1> DEFINE whole == Append(text, char) \o rest
<1>0. whole = Append(text, char) \o rest
  OBVIOUS
<1> HIDE DEF whole
<1> DEFINE begun == Append(text, char)
<1>1. /\ begun \in Seq(Chars) /\ Len(begun) = Len(text) + 1
      /\ begun[Len(text) + 1] = char
      /\ \A i \in 1 .. Len(text) : begun[i] = text[i]
      /\ Len(text) \in Nat
  BY Appended
<1> HIDE DEF begun
<1>2. /\ whole \in Seq(Chars) /\ Len(whole) = Len(begun) + Len(rest)
      /\ \A i \in 1 .. Len(begun) + Len(rest) :
           whole[i] = IF i <= Len(begun) THEN begun[i] ELSE rest[i - Len(begun)]
  BY <1>0, <1>1, ConcatProperties DEF begun
<1>3. Len(whole) = Len(text) + 1 + Len(rest)
  BY <1>1, <1>2
<1>4. \A i \in 1 .. Len(text) : whole[i] = text[i]
  BY <1>1, <1>2
<1>5. whole[Len(text) + 1] = char
  BY <1>1, <1>2
<1>6. ASSUME NEW j \in 0 .. Len(text)
      PROVE  Prefix(whole, j) = Prefix(text, j)
  <2>1. j \in 0 .. Len(whole) /\ Len(whole) \in Nat
    BY <1>1, <1>3
  <2>2. /\ Prefix(whole, j) \in Seq(Chars) /\ Len(Prefix(whole, j)) = j
        /\ Prefix(text, j) \in Seq(Chars) /\ Len(Prefix(text, j)) = j
    BY <1>2, <2>1, PrefixIsText
  <2>3. \A i \in 1 .. j : Prefix(whole, j)[i] = Prefix(text, j)[i]
    <3> TAKE i \in 1 .. j
    <3>1. Prefix(whole, j)[i] = whole[i] /\ Prefix(text, j)[i] = text[i]
      BY <1>2, <2>1 DEF Prefix
    <3>2. i \in 1 .. Len(text)
      OBVIOUS
    <3> QED
      BY <1>4, <3>1, <3>2
  <2> QED
    BY <2>2, <2>3, SeqEqual
<1>7. Prefix(whole, Len(text)) = text
  BY <1>1, <1>6, PrefixIsText
<1>8. Prefix(whole, Len(text) + 1) = Append(text, char)
  <2> DEFINE n == Len(text) + 1
  <2>1. n \in 1 .. Len(whole) /\ n - 1 = Len(text)
    BY <1>1, <1>3
  <2>2. whole[n] = char
    BY <1>5
  <2> HIDE DEF n
  <2>3. Prefix(whole, n) = Append(Prefix(whole, n - 1), whole[n])
    BY <1>2, <2>1, PrefixIsText
  <2>4. Prefix(whole, n) = Append(text, char)
    BY <1>7, <2>1, <2>2, <2>3
  <2> QED
    BY <2>4 DEF n
<1>9. ASSUME rest # <<>>
      PROVE  /\ rest[1] \in Chars
             /\ Prefix(whole, Len(text) + 2)
                  = Append(Append(text, char), rest[1])
  <2>1. Len(rest) \in Nat /\ Len(rest) >= 1 /\ rest[1] \in Chars
    BY <1>9
  <2> DEFINE n == Len(text) + 2
  <2>2. n \in 1 .. Len(whole) /\ n - 1 = Len(text) + 1
    BY <1>1, <1>3, <2>1
  <2>3. whole[n] = rest[1]
    BY <1>1, <1>2, <2>1
  <2> HIDE DEF n
  <2>4. Prefix(whole, n) = Append(Prefix(whole, n - 1), whole[n])
    BY <1>2, <2>2, PrefixIsText
  <2>5. Prefix(whole, n) = Append(Append(text, char), rest[1])
    BY <1>8, <2>2, <2>3, <2>4
  <2> QED
    BY <2>1, <2>5 DEF n
<1>10. BeginsAs(whole, text, char, rest)
  BY <1>3, <1>6, <1>8, <1>9, Zenon DEF BeginsAs
<1> QED
  BY <1>10 DEF whole

(* What a prefix of some lines looks like to the reader.                   *)
LEMMA LinesOfPrefix ==
  ASSUME NEW lines \in Seq(Line), NEW k \in 0 .. Len(Join(lines))
  PROVE  Len(Lines(Prefix(Join(lines), k))) <= Len(lines)
<1> DEFINE text == Join(lines)
<1>1. text \in Seq(Chars) /\ Len(text) \in Nat
  BY LineIsText, JoinOfAppend
<1>2. Len(Lines(text)) <= Len(lines)
  BY LinesOfJoined
<1>3. k \in 0 .. Len(text) /\ Len(text) \in 0 .. Len(text)
  BY <1>1
<1> HIDE DEF text
<1>4. Len(Lines(Prefix(text, k))) <= Len(Lines(Prefix(text, Len(text))))
  BY <1>1, <1>3, PrefixGrows
<1>5. Prefix(text, Len(text)) = text /\ Prefix(text, k) \in Seq(Chars)
  BY <1>1, <1>3, PrefixIsText
<1>6. Lines(text) \in Seq(Line) /\ Lines(Prefix(text, k)) \in Seq(Line)
  BY <1>1, <1>5, TextIsLines
<1>7. Len(Lines(Prefix(text, k))) <= Len(lines)
  BY <1>2, <1>4, <1>5, <1>6
<1> QED
  BY <1>7 DEF text

(* Lines that are not all of them were limited; all of them are the lines. *)
LEMMA FirstLinesAre ==
  ASSUME NEW lines, Log(lines)
  PROVE  LET first == FirstLines(lines, MaxLines)
             m == IF MaxLines < Len(lines) THEN MaxLines ELSE Len(lines)
         IN /\ m \in 0 .. Len(lines)
            /\ first = SubSeq(lines, 1, m)
            /\ Log(first)
            /\ Len(first) = m /\ Len(first) <= MaxLines
            /\ Len(lines) <= MaxLines => first = lines
            /\ lines # <<>> => first # <<>>
<1> DEFINE first == FirstLines(lines, MaxLines)
           m == IF MaxLines < Len(lines) THEN MaxLines ELSE Len(lines)
<1>1. lines \in Seq(Line) /\ \A i \in 1 .. Len(lines) : lines[i] # <<>>
  BY DEF Log
<1>2. m \in 0 .. Len(lines) /\ m <= MaxLines /\ MaxLines \in Nat \ {0}
  BY <1>1, LimitsAssumption
<1>3. first = SubSeq(lines, 1, m)
  BY Zenon DEF FirstLines
<1>4. Len(lines) <= MaxLines => m = Len(lines)
  BY <1>1, <1>2
<1>5. lines # <<>> => m > 0
  BY <1>1, <1>2
<1> HIDE DEF first, m
<1>6. first \in Seq(Line) /\ Len(first) = m
  <2>1. 1 \in 1 .. m + 1 /\ m - 1 + 1 = m
    BY <1>2
  <2> QED
    BY <1>1, <1>2, <1>3, <2>1, SomeLines
<1>7. \A i \in 1 .. m : first[i] = lines[i]
  BY <1>1, <1>2, <1>3
<1>8. Log(first)
  BY <1>1, <1>2, <1>6, <1>7 DEF Log
<1>9. Len(lines) <= MaxLines => first = lines
  BY <1>1, <1>3, <1>4
<1>10. lines # <<>> => first # <<>>
  BY <1>2, <1>5, <1>6
<1>11. /\ m \in 0 .. Len(lines) /\ first = SubSeq(lines, 1, m) /\ Log(first)
       /\ Len(first) = m /\ Len(first) <= MaxLines
       /\ Len(lines) <= MaxLines => first = lines
       /\ lines # <<>> => first # <<>>
  BY <1>2, <1>3, <1>6, <1>8, <1>9, <1>10
<1> QED
  BY <1>11, Zenon DEF first, m

(* What is left of the output keeps both limits.  If it is not said to be  *)
(* cut, it is all there was; a prefix that is longer exceeds a limit, or   *)
(* has only the end of the last line in addition.                          *)
LEMMA WhatIsLeft ==
  ASSUME NEW lines, Log(lines)
  PROVE  LET whole == Printed(lines)
             out == TruncateText(whole)
             cut == Len(out.text)
         IN /\ whole \in Seq(Chars) /\ out.text \in Seq(Chars)
            /\ out.truncated \in BOOLEAN
            /\ Bytes(out.text) <= MaxBytes
            /\ Len(Lines(out.text)) <= MaxLines
            /\ Len(Lines(out.text)) <= Len(lines)
            /\ ~out.truncated => Lines(out.text) = lines
            /\ out.text = Prefix(whole, cut) /\ cut \in 0 .. Len(whole)
            /\ \A j \in cut + 1 .. Len(whole) :
                 \/ Bytes(Prefix(whole, j)) > MaxBytes
                 \/ Len(Lines(Prefix(whole, j))) > MaxLines
                 \/ /\ Prefix(whole, j) = Append(out.text, Newline)
                    /\ Join(Lines(out.text)) = out.text
<1> DEFINE whole == Printed(lines)
           out == TruncateText(whole)
           cut == Len(out.text)
           first == FirstLines(lines, MaxLines)
           trimmed == Join(first)
           m == IF MaxLines < Len(lines) THEN MaxLines ELSE Len(lines)
<1>1. lines \in Seq(Line)
  BY DEF Log
<1>2. /\ m \in 0 .. Len(lines)
      /\ first = SubSeq(lines, 1, m)
      /\ Log(first)
      /\ Len(first) = m /\ Len(first) <= MaxLines
      /\ Len(lines) <= MaxLines => first = lines
      /\ lines # <<>> => first # <<>>
  BY FirstLinesAre, Zenon
<1>3. PICK k \in 0 .. Len(trimmed) :
        /\ out.text = Prefix(trimmed, k)
        /\ Bytes(Prefix(trimmed, k)) <= MaxBytes
        /\ \A j \in k + 1 .. Len(trimmed) : Bytes(Prefix(trimmed, j)) > MaxBytes
        /\ out.truncated = (Len(lines) > MaxLines \/ Bytes(trimmed) > MaxBytes)
  BY Truncates, Zenon
<1>4. first \in Seq(Line) /\ first \in Seq(Seq(Chars))
  BY <1>2, LineIsText DEF Log
<1>5. trimmed \in Seq(Chars) /\ Len(trimmed) \in Nat
  BY <1>4, JoinOfAppend
<1>6. whole \in Seq(Chars)
  BY <1>1, LineIsText, PrintedOfAppend
<1>7. Len(Lines(Prefix(trimmed, k))) <= Len(first)
  BY <1>4, LinesOfPrefix
<1>8. Lines(trimmed) = first
  BY <1>2, <1>4, LinesOfJoined DEF Log
<1> HIDE DEF whole, out, first, trimmed
<1>9. out.text \in Seq(Chars) /\ cut = k
  BY <1>3, <1>5, PrefixIsText
<1>10. /\ Len(Lines(out.text)) \in Nat
       /\ Len(lines) \in Nat /\ Len(first) \in Nat /\ MaxLines \in Nat
       /\ Len(first) <= Len(lines)
  <2>1. Lines(out.text) \in Seq(Line)
    BY <1>9, TextIsLines
  <2> QED
    BY <1>1, <1>2, <1>4, <2>1, LimitsAssumption
<1> HIDE DEF m, cut
<1>11. Len(Lines(out.text)) <= MaxLines /\ Len(Lines(out.text)) <= Len(lines)
  BY <1>2, <1>3, <1>7, <1>10
<1>12. out.truncated \in BOOLEAN
  BY <1>3
<1>13. Prefix(trimmed, Len(trimmed)) = trimmed
  BY <1>5, PrefixIsText
<1>14. ASSUME ~out.truncated
       PROVE  Lines(out.text) = lines
  <2>1. ~ (Len(lines) > MaxLines) /\ ~ (Bytes(trimmed) > MaxBytes)
    BY <1>3, <1>14
  <2>2. first = lines
    BY <1>2, <1>10, <2>1
  <2>3. k = Len(trimmed)
    <3> SUFFICES ASSUME k # Len(trimmed)
                 PROVE  FALSE
      OBVIOUS
    <3>1. Len(trimmed) \in k + 1 .. Len(trimmed)
      BY <1>5
    <3> QED
      BY <1>3, <1>13, <2>1, <3>1
  <2> QED
    BY <1>3, <1>8, <1>13, <2>2, <2>3
<1>15. CASE lines = <<>>
  <2>1. whole = <<>>
    BY <1>15, PrintedOfAppend DEF whole
  <2>2. first = <<>>
    BY <1>2, <1>4, <1>15
  <2>3. trimmed = <<>>
    BY <2>2, JoinOfAppend DEF trimmed
  <2>4. cut = 0 /\ out.text = <<>>
    BY <1>3, <1>9, <2>3, PrefixIsText
  <2>5. Len(whole) = 0
    BY <2>1
  <2>6. out.text = Prefix(whole, cut) /\ cut \in 0 .. Len(whole)
    <3>1. cut \in 0 .. Len(whole)
      BY <2>4, <2>5
    <3>2. Len(Prefix(whole, cut)) = cut /\ Prefix(whole, cut) \in Seq(Chars)
      BY <1>6, <3>1, PrefixIsText
    <3>3. Prefix(whole, cut) = <<>>
      BY <2>4, <3>2
    <3> QED
      BY <2>4, <3>1, <3>3
  <2>7. cut + 1 .. Len(whole) = {}
    BY <2>4, <2>5
  <2> HIDE DEF cut
  <2>8. /\ whole \in Seq(Chars) /\ out.text \in Seq(Chars)
        /\ out.truncated \in BOOLEAN
        /\ Bytes(out.text) <= MaxBytes
        /\ Len(Lines(out.text)) <= MaxLines
        /\ Len(Lines(out.text)) <= Len(lines)
        /\ ~out.truncated => Lines(out.text) = lines
        /\ out.text = Prefix(whole, cut) /\ cut \in 0 .. Len(whole)
        /\ \A j \in cut + 1 .. Len(whole) :
             \/ Bytes(Prefix(whole, j)) > MaxBytes
             \/ Len(Lines(Prefix(whole, j))) > MaxLines
             \/ /\ Prefix(whole, j) = Append(out.text, Newline)
                /\ Join(Lines(out.text)) = out.text
    BY <1>3, <1>6, <1>9, <1>11, <1>12, <1>14, <2>6, <2>7
  <2> QED
    BY <2>8, Zenon DEF whole, out, cut
<1>16. CASE lines # <<>>
  <2>1. Printed(first) = Append(trimmed, Newline)
    BY <1>2, <1>4, <1>16, PrintedOfAppend DEF trimmed
  <2>2. PICK rest \in Seq(Chars) : whole = Append(trimmed, Newline) \o rest
    BY <1>1, <1>2, <2>1, PrintedFirst DEF whole
  <2>3. /\ Len(whole) = Len(trimmed) + 1 + Len(rest) /\ Len(rest) \in Nat
        /\ \A j \in 0 .. Len(trimmed) : Prefix(whole, j) = Prefix(trimmed, j)
        /\ Prefix(whole, Len(trimmed) + 1) = Append(trimmed, Newline)
        /\ rest # <<>> => /\ rest[1] \in Chars
                          /\ Prefix(whole, Len(trimmed) + 2)
                               = Append(Append(trimmed, Newline), rest[1])
    <3>1. \A char \in Chars :
            BeginsAs(Append(trimmed, char) \o rest, trimmed, char, rest)
      BY <1>5, PrefixOfConcat, Zenon
    <3>2. BeginsAs(whole, trimmed, Newline, rest)
      BY <2>2, <3>1, Widths, Zenon
    <3>3. Len(rest) \in Nat
      OBVIOUS
    <3> QED
      BY <3>2, <3>3, Zenon DEF BeginsAs
  <2>4. out.text = Prefix(whole, cut) /\ cut \in 0 .. Len(whole)
    BY <1>3, <1>5, <1>9, <2>3
  <2>5. ASSUME NEW j \in cut + 1 .. Len(whole), j <= Len(trimmed)
        PROVE  Bytes(Prefix(whole, j)) > MaxBytes
    <3>1. j \in 0 .. Len(trimmed) /\ j \in k + 1 .. Len(trimmed)
      BY <1>5, <1>9, <2>3, <2>5
    <3> QED
      BY <1>3, <2>3, <3>1
  <2>6. ASSUME NEW j \in cut + 1 .. Len(whole), j = Len(trimmed) + 1
        PROVE  \/ Bytes(Prefix(whole, j)) > MaxBytes
               \/ /\ Prefix(whole, j) = Append(out.text, Newline)
                  /\ Join(Lines(out.text)) = out.text
    <3>1. CASE k = Len(trimmed)
      <4>1. out.text = trimmed
        BY <1>3, <1>13, <3>1
      <4>2. Join(Lines(out.text)) = out.text
        BY <1>8, <4>1 DEF trimmed
      <4> QED
        BY <2>3, <2>6, <4>1, <4>2
    <3>2. CASE k # Len(trimmed)
      <4>1. Len(trimmed) \in k + 1 .. Len(trimmed)
        BY <1>5, <3>2
      <4>2. Bytes(trimmed) > MaxBytes
        BY <1>3, <1>13, <4>1
      <4>3. Bytes(trimmed) <= Bytes(Append(trimmed, Newline))
        BY <1>5, OneMore, Widths
      <4>4. Append(trimmed, Newline) \in Seq(Chars)
        BY <1>5, Widths, Appended
      <4>5. /\ Bytes(trimmed) \in Nat /\ Bytes(Append(trimmed, Newline)) \in Nat
            /\ MaxBytes \in Nat
        BY <1>5, <4>4, BytesOfAppend, LimitsAssumption
      <4>6. Bytes(Append(trimmed, Newline)) > MaxBytes
        BY <4>2, <4>3, <4>5
      <4> QED
        BY <2>3, <2>6, <4>6
    <3> QED
      BY <3>1, <3>2
  <2>7. ASSUME NEW j \in cut + 1 .. Len(whole), j >= Len(trimmed) + 2
        PROVE  Len(Lines(Prefix(whole, j))) > MaxLines
    <3>1. rest # <<>> /\ Len(rest) >= 1
      <4>1. Len(rest) >= 1
        BY <1>5, <2>3, <2>7
      <4> QED
        BY <4>1
    <3>2. first # lines
      <4> SUFFICES ASSUME first = lines
                   PROVE  FALSE
        OBVIOUS
      <4>1. whole = Append(trimmed, Newline)
        BY <2>1 DEF whole
      <4>2. Len(whole) = Len(trimmed) + 1
        BY <1>5, <4>1, Appended, Widths
      <4> QED
        BY <1>5, <2>3, <3>1, <4>2
    <3>3. Len(first) = MaxLines
      BY <1>2, <1>10, <3>2 DEF m
    <3> DEFINE i == Len(trimmed) + 2
               ended == Append(trimmed, Newline)
    <3>4. ended \in Seq(Chars) /\ Reading(ended).done = first
      <4>1. Printed(first) \in Seq(Chars) /\ <<>> \in Line
        BY <1>4, PrintedOfAppend DEF Line
      <4>2. Printed(first) \o <<>> = Printed(first)
        BY <4>1, ConcatEmptySeq
      <4>3. Reading(Printed(first) \o <<>>).done = first
        BY <1>4, <4>1, ReadPrinted
      <4> QED
        BY <2>1, <4>1, <4>2, <4>3
    <3>5. Prefix(whole, i) = Append(ended, rest[1]) /\ rest[1] \in Chars
      BY <2>3, <3>1
    <3>6. i \in 0 .. j /\ j \in 0 .. Len(whole)
      BY <1>5, <1>9, <2>3, <2>7
    <3> HIDE DEF i, ended
    <3>7. Len(Lines(Prefix(whole, i))) = MaxLines + 1
      BY <3>3, <3>4, <3>5, OneMore
    <3>8. Len(Lines(Prefix(whole, i))) <= Len(Lines(Prefix(whole, j)))
      BY <1>6, <3>6, PrefixGrows
    <3>9. Lines(Prefix(whole, j)) \in Seq(Line)
      BY <1>6, <3>6, PrefixIsText, TextIsLines
    <3> QED
      BY <1>10, <3>7, <3>8, <3>9
  <2>8. ASSUME NEW j \in cut + 1 .. Len(whole)
        PROVE  \/ Bytes(Prefix(whole, j)) > MaxBytes
               \/ Len(Lines(Prefix(whole, j))) > MaxLines
               \/ /\ Prefix(whole, j) = Append(out.text, Newline)
                  /\ Join(Lines(out.text)) = out.text
    <3>1. j \in Int
      BY <1>9
    <3>2. j <= Len(trimmed) \/ j = Len(trimmed) + 1 \/ j >= Len(trimmed) + 2
      BY <1>5, <3>1
    <3> QED
      BY <2>5, <2>6, <2>7, <3>2
  <2> HIDE DEF cut
  <2>9. /\ whole \in Seq(Chars) /\ out.text \in Seq(Chars)
        /\ out.truncated \in BOOLEAN
        /\ Bytes(out.text) <= MaxBytes
        /\ Len(Lines(out.text)) <= MaxLines
        /\ Len(Lines(out.text)) <= Len(lines)
        /\ ~out.truncated => Lines(out.text) = lines
        /\ out.text = Prefix(whole, cut) /\ cut \in 0 .. Len(whole)
        /\ \A j \in cut + 1 .. Len(whole) :
             \/ Bytes(Prefix(whole, j)) > MaxBytes
             \/ Len(Lines(Prefix(whole, j))) > MaxLines
             \/ /\ Prefix(whole, j) = Append(out.text, Newline)
                /\ Join(Lines(out.text)) = out.text
    BY <1>3, <1>6, <1>9, <1>11, <1>12, <1>14, <2>4, <2>8
  <2> QED
    BY <2>9, Zenon DEF whole, out, cut
<1> QED
  BY <1>15, <1>16

-------------------------------------------------------------------------------
(* What a tool answers with *)

Results == [ok : BOOLEAN, stdout : Seq(Chars), stderr : Seq(Chars),
            truncated : BOOLEAN, returned_bytes : 0 .. 2 * MaxBytes,
            returned_lines : 0 .. 2 * MaxLines]

Result(ok, text, err, truncated, bytes, count) ==
  [ok |-> ok, stdout |-> text, stderr |-> err, truncated |-> truncated,
   returned_bytes |-> bytes, returned_lines |-> count]

Within(text) == Len(Lines(text)) <= MaxLines /\ Bytes(text) <= MaxBytes

(* What may be shown of these lines, n being wanted, as cut or not.        *)
Shown(lines, n, text, cut) ==
  /\ text \in Seq(Chars)
  /\ Within(text)
  /\ ~cut => Lines(text) = LastLines(lines, n)
  /\ Len(lines) <= n => AsMuchAsFits(lines, text)

(* What may be reported of the two streams.                                *)
Counted(text, err, bytes, count, selects) ==
  \/ /\ count = Len(Lines(text)) + Len(Lines(err))
     /\ bytes = Bytes(text) + Bytes(err)
  \/ /\ selects
     /\ count = Len(Lines(text))
     /\ bytes >= Bytes(text) + Bytes(err)

(* What may be answered if a command prints these lines and these errors,  *)
(* n lines being wanted.                                                   *)
Honest(lines, errors, n, selects, result) ==
  /\ result \in Results
  /\ Within(result.stdout) /\ Within(result.stderr)
  /\ Counted(result.stdout, result.stderr, result.returned_bytes,
             result.returned_lines, selects)
  /\ ~result.truncated => /\ Lines(result.stdout) = LastLines(lines, n)
                          /\ Lines(result.stderr) = errors
  /\ Len(lines) <= n => AsMuchAsFits(lines, result.stdout)
  /\ AsMuchAsFits(errors, result.stderr)

(* Every text but the empty one has bytes.                                 *)
LEMMA SomeBytes ==
  ASSUME NEW text \in Seq(Chars)
  PROVE  /\ Bytes(text) \in Nat /\ Bytes(<<>>) = 0
         /\ text # <<>> => Bytes(text) >= 1
<1>1. Bytes(text) \in Nat /\ Bytes(<<>>) = 0
  BY BytesOfAppend
<1>2. ASSUME text # <<>>
      PROVE  Bytes(text) >= 1
  <2>1. PICK start \in Seq(Chars), char \in Chars : text = Append(start, char)
    <3> DEFINE start == SubSeq(text, 1, Len(text) - 1)
    <3>1. /\ start \in Seq(Chars) /\ text[Len(text)] \in Chars
          /\ text = Append(start, text[Len(text)])
      BY <1>2
    <3> QED
      BY <3>1, Zenon
  <2>2. Bytes(start) \in Nat
    BY BytesOfAppend
  <2>3. Bytes(text) = Bytes(start) + Width[char]
    BY <2>1, BytesOfAppend, Zenon
  <2>4. Width[char] \in Nat /\ Width[char] >= 1
    BY Widths
  <2> QED
    BY <2>2, <2>3, <2>4
<1> QED
  BY <1>1, <1>2

(* The last n lines are the lines from some one on, and all of them if     *)
(* there are no more than n.                                               *)
LEMMA LastLinesAre ==
  ASSUME NEW lines \in Seq(Line), NEW n \in Nat
  PROVE  /\ LastLines(lines, n) \in Seq(Line)
         /\ Len(LastLines(lines, n)) <= Len(lines)
         /\ Bytes(Join(LastLines(lines, n))) <= Bytes(Join(lines))
         /\ Len(lines) <= n => LastLines(lines, n) = lines
         /\ Log(lines) => Log(LastLines(lines, n))
<1> DEFINE k == IF n < Len(lines) THEN Len(lines) - n + 1 ELSE 1
           last == LastLines(lines, n)
<1>1. k \in 1 .. Len(lines) + 1 /\ Len(lines) \in Nat
  OBVIOUS
<1>2. Len(lines) <= n => k = 1
  BY <1>1
<1>3. last = SubSeq(lines, k, Len(lines))
  BY Zenon DEF LastLines
<1> HIDE DEF k, last
<1>4. /\ SubSeq(lines, k, Len(lines)) \in Seq(Line)
      /\ Len(SubSeq(lines, k, Len(lines))) = Len(lines) - k + 1
      /\ SubSeq(lines, 1, Len(lines)) = lines
  <2>1. Len(lines) \in 0 .. Len(lines)
    BY <1>1
  <2> QED
    BY <1>1, <2>1, SomeLines
<1>5. Bytes(Join(SubSeq(lines, k, Len(lines)))) <= Bytes(Join(lines))
  BY <1>1, JoinOfLast
<1>6. ASSUME Log(lines)
      PROVE  Log(last)
  <2>1. \A i \in 1 .. Len(lines) - k + 1 :
          /\ k + i - 1 \in 1 .. Len(lines)
          /\ SubSeq(lines, k, Len(lines))[i] = lines[k + i - 1]
    BY <1>1
  <2> QED
    BY <1>3, <1>4, <1>6, <2>1 DEF Log
<1>7. /\ last \in Seq(Line) /\ Len(last) <= Len(lines)
      /\ Bytes(Join(last)) <= Bytes(Join(lines))
      /\ Len(lines) <= n => last = lines
      /\ Log(lines) => Log(last)
  BY <1>1, <1>2, <1>3, <1>4, <1>5, <1>6
<1> QED
  BY <1>7, Zenon DEF last

(* It is enough that both texts, and what is reported, are as they should  *)
(* be.                                                                     *)
LEMMA ResultIsHonest ==
  ASSUME NEW lines, NEW errors, Log(errors), NEW n, NEW selects \in BOOLEAN,
         NEW ok \in BOOLEAN, NEW text, NEW err,
         NEW cutOut \in BOOLEAN, NEW cutErr \in BOOLEAN,
         NEW bytes \in 0 .. 2 * MaxBytes, NEW count,
         Shown(lines, n, text, cutOut),
         Shown(errors, Len(errors), err, cutErr),
         Counted(text, err, bytes, count, selects)
  PROVE  Honest(lines, errors, n, selects,
                Result(ok, text, err, cutOut \/ cutErr, bytes, count))
<1> DEFINE result == Result(ok, text, err, cutOut \/ cutErr, bytes, count)
<1>1. /\ result.ok = ok /\ result.stdout = text /\ result.stderr = err
      /\ result.truncated = (cutOut \/ cutErr)
      /\ result.returned_bytes = bytes /\ result.returned_lines = count
  BY DEF Result
<1>2. /\ text \in Seq(Chars) /\ err \in Seq(Chars)
      /\ Within(text) /\ Within(err)
      /\ Len(lines) <= n => AsMuchAsFits(lines, text)
      /\ ~cutOut => Lines(text) = LastLines(lines, n)
  BY Zenon DEF Shown
<1>3. /\ ~cutErr => Lines(err) = errors
      /\ AsMuchAsFits(errors, err)
  <2>1. errors \in Seq(Line) /\ Len(errors) \in Nat /\ Len(errors) <= Len(errors)
    BY DEF Log
  <2>2. LastLines(errors, Len(errors)) = errors
    BY <2>1, LastLinesAre
  <2> QED
    BY <2>1, <2>2, Zenon DEF Shown
<1>4. count \in 0 .. 2 * MaxLines
  <2>1. Len(Lines(text)) \in Nat /\ Len(Lines(err)) \in Nat
    BY <1>2, TextIsLines
  <2>2. Len(Lines(text)) <= MaxLines /\ Len(Lines(err)) <= MaxLines
    BY <1>2 DEF Within
  <2>3. count = Len(Lines(text)) + Len(Lines(err)) \/ count = Len(Lines(text))
    BY DEF Counted
  <2> QED
    BY <2>1, <2>2, <2>3, LimitsAssumption
<1>5. (cutOut \/ cutErr) \in BOOLEAN
  OBVIOUS
<1>6. result \in Results
  <2> DEFINE either == cutOut \/ cutErr
  <2>1. either \in BOOLEAN
    BY <1>5
  <2> HIDE DEF either
  <2>2. Result(ok, text, err, either, bytes, count) \in Results
    BY <1>2, <1>4, <2>1 DEF Result, Results
  <2> QED
    BY <2>2, Zenon DEF either
<1> HIDE DEF result
<1>7. Honest(lines, errors, n, selects, result)
  BY <1>1, <1>2, <1>3, <1>6, Zenon DEF Honest
<1> QED
  BY <1>7, Zenon DEF result

(* The whole output, if no more lines are printed than were wanted.        *)
LEMMA OutputShown ==
  ASSUME NEW lines, Log(lines), NEW n \in Nat, Len(lines) <= n
  PROVE  LET out == TruncateText(Printed(lines))
         IN /\ Shown(lines, n, out.text, out.truncated)
            /\ out.truncated \in BOOLEAN
            /\ Bytes(out.text) \in Nat /\ Bytes(out.text) <= MaxBytes
<1> DEFINE whole == Printed(lines)
           out == TruncateText(whole)
           cut == Len(out.text)
<1>1. /\ out.text \in Seq(Chars) /\ out.truncated \in BOOLEAN
      /\ Bytes(out.text) <= MaxBytes
      /\ Len(Lines(out.text)) <= MaxLines
      /\ ~out.truncated => Lines(out.text) = lines
      /\ out.text = Prefix(whole, cut)
      /\ \A j \in cut + 1 .. Len(whole) :
           \/ Bytes(Prefix(whole, j)) > MaxBytes
           \/ Len(Lines(Prefix(whole, j))) > MaxLines
           \/ /\ Prefix(whole, j) = Append(out.text, Newline)
              /\ Join(Lines(out.text)) = out.text
  BY WhatIsLeft, Zenon
<1>2. AsMuchAsFits(lines, out.text)
  BY <1>1, Zenon DEF AsMuchAsFits, Prefix
<1>3. LastLines(lines, n) = lines
  BY LastLinesAre DEF Log
<1> HIDE DEF out
<1>4. Within(out.text)
  BY <1>1, Zenon DEF Within
<1>5. Bytes(out.text) \in Nat
  BY <1>1, BytesOfAppend
<1>6. Shown(lines, n, out.text, out.truncated)
  BY <1>1, <1>2, <1>3, <1>4, Zenon DEF Shown
<1>7. /\ Shown(lines, n, out.text, out.truncated)
      /\ out.truncated \in BOOLEAN
      /\ Bytes(out.text) \in Nat /\ Bytes(out.text) <= MaxBytes
  BY <1>1, <1>5, <1>6, Zenon
<1> QED
  BY <1>7, Zenon DEF out, whole

(* All that is printed on standard error is wanted.                        *)
LEMMA ErrorsShown ==
  ASSUME NEW errors, Log(errors)
  PROVE  LET err == TruncateText(Printed(errors))
         IN /\ Shown(errors, Len(errors), err.text, err.truncated)
            /\ err.truncated \in BOOLEAN
            /\ Bytes(err.text) \in Nat /\ Bytes(err.text) <= MaxBytes
<1>1. Len(errors) \in Nat /\ Len(errors) <= Len(errors)
  BY DEF Log
<1> QED
  BY <1>1, OutputShown, Zenon

(* What _command_payload makes of an output of no more lines than wanted.  *)
LEMMA PayloadIsHonest ==
  ASSUME NEW lines, Log(lines), NEW errors, Log(errors), NEW n \in Nat,
         Len(lines) <= n, NEW ok \in BOOLEAN, NEW selects \in BOOLEAN
  PROVE  Honest(lines, errors, n, selects, Payload(lines, errors, ok))
<1> DEFINE out == TruncateText(Printed(lines))
           err == TruncateText(Printed(errors))
           bytes == Bytes(out.text) + Bytes(err.text)
           count == Len(Lines(out.text)) + Len(Lines(err.text))
<1>1. /\ Shown(lines, n, out.text, out.truncated)
      /\ out.truncated \in BOOLEAN
      /\ Bytes(out.text) \in Nat /\ Bytes(out.text) <= MaxBytes
  BY OutputShown, Zenon
<1>2. /\ Shown(errors, Len(errors), err.text, err.truncated)
      /\ err.truncated \in BOOLEAN
      /\ Bytes(err.text) \in Nat /\ Bytes(err.text) <= MaxBytes
  BY ErrorsShown, Zenon
<1>3. Payload(lines, errors, ok)
        = Result(ok, out.text, err.text, out.truncated \/ err.truncated,
                 bytes, count)
  BY Zenon DEF Payload, CommandPayload, Result
<1> HIDE DEF out, err
<1>4. bytes \in 0 .. 2 * MaxBytes
  BY <1>1, <1>2, LimitsAssumption
<1>5. Counted(out.text, err.text, bytes, count, selects)
  BY Zenon DEF Counted
<1> HIDE DEF bytes, count
<1>6. Honest(lines, errors, n, selects,
             Result(ok, out.text, err.text, out.truncated \/ err.truncated,
                    bytes, count))
  BY <1>1, <1>2, <1>4, <1>5, ResultIsHonest, SMT
<1> QED
  BY <1>3, <1>6, Zenon

(* Its last lines, if more may be printed than were wanted.                *)
LEMMA SelectionShown ==
  ASSUME NEW lines, Log(lines), NEW n \in Nat
  PROVE  LET out == TruncateText(Printed(lines))
             selected == Join(LastLines(Lines(out.text), n))
         IN /\ Shown(lines, n, selected, out.truncated)
            /\ out.truncated \in BOOLEAN
            /\ Bytes(selected) <= Bytes(out.text)
            /\ Bytes(out.text) <= MaxBytes /\ Bytes(out.text) \in Nat
            /\ out.text = <<>> => selected = <<>>
<1> DEFINE whole == Printed(lines)
           out == TruncateText(whole)
           text == out.text
           cut == Len(text)
           left == Lines(text)
           last == LastLines(left, n)
           selected == Join(last)
<1>1. /\ whole \in Seq(Chars) /\ text \in Seq(Chars)
      /\ out.truncated \in BOOLEAN
      /\ Bytes(text) <= MaxBytes
      /\ Len(left) <= MaxLines
      /\ Len(left) <= Len(lines)
      /\ ~out.truncated => left = lines
      /\ text = Prefix(whole, cut) /\ cut \in 0 .. Len(whole)
      /\ \A j \in cut + 1 .. Len(whole) :
           \/ Bytes(Prefix(whole, j)) > MaxBytes
           \/ Len(Lines(Prefix(whole, j))) > MaxLines
           \/ /\ Prefix(whole, j) = Append(text, Newline)
              /\ Join(left) = text
  BY WhatIsLeft, Zenon
<1>2. left \in Seq(Line) /\ Len(left) \in Nat
  BY <1>1, TextIsLines
<1>3. text = Join(left) \/ text = Append(Join(left), Newline)
  BY <1>1, TextIsLines, Zenon
<1> HIDE DEF left
<1>4. /\ last \in Seq(Line) /\ Len(last) <= Len(left)
      /\ Bytes(Join(last)) <= Bytes(Join(left))
      /\ Len(left) <= n => last = left
      /\ Log(left) => Log(last)
  BY <1>2, LastLinesAre, Zenon
<1> HIDE DEF out, whole, text, last, cut
<1>5. /\ Join(left) \in Seq(Chars) /\ selected \in Seq(Chars)
      /\ Bytes(Join(left)) \in Nat /\ Bytes(selected) \in Nat
      /\ Bytes(text) \in Nat /\ MaxBytes \in Nat /\ MaxLines \in Nat
  <2>1. left \in Seq(Seq(Chars)) /\ last \in Seq(Seq(Chars))
    BY <1>2, <1>4, LineIsText
  <2>2. Join(left) \in Seq(Chars) /\ selected \in Seq(Chars)
    BY <2>1, JoinOfAppend
  <2> QED
    BY <1>1, <2>2, BytesOfAppend, LimitsAssumption
<1>6. Bytes(Join(left)) <= Bytes(text)
  <2>1. \A char \in Chars : Bytes(Join(left)) <= Bytes(Append(Join(left), char))
    BY <1>5, OneMore
  <2>2. Bytes(Join(left)) <= Bytes(Append(Join(left), Newline))
    BY <2>1, Widths
  <2>3. CASE text = Join(left)
    BY <1>5, <2>3
  <2>4. CASE text = Append(Join(left), Newline)
    BY <2>2, <2>4, Zenon
  <2> QED
    BY <1>3, <2>3, <2>4, Zenon
<1>7. Within(selected)
  <2>1. Len(Lines(selected)) <= Len(last)
    BY <1>4, LinesOfJoined
  <2>2. Len(Lines(selected)) \in Nat /\ Len(last) \in Nat
    BY <1>4, <1>5, TextIsLines
  <2>3. Len(Lines(selected)) <= MaxLines
    BY <1>1, <1>2, <1>4, <1>5, <2>1, <2>2
  <2>4. Bytes(selected) <= MaxBytes
    BY <1>1, <1>4, <1>5, <1>6
  <2> QED
    BY <2>3, <2>4 DEF Within
<1>8. ASSUME ~out.truncated
      PROVE  Lines(selected) = LastLines(lines, n)
  <2>1. left = lines
    BY <1>1, <1>8
  <2>2. Log(last)
    BY <1>4, <2>1
  <2>3. Lines(selected) = last
    BY <2>2, LinesOfJoined DEF Log
  <2> QED
    BY <2>1, <2>3 DEF last
<1>9. ASSUME Len(lines) <= n
      PROVE  AsMuchAsFits(lines, selected)
  <2>1. selected = Join(left)
    <3>1. Len(lines) \in Nat
      BY DEF Log
    <3>2. Len(left) <= n
      BY <1>1, <1>2, <1>9, <3>1
    <3> QED
      BY <1>4, <3>2
  <2> HIDE DEF selected
  <2>2. CASE text = selected
    <3>1. selected = Prefix(whole, Len(selected))
      BY <1>1, <2>2 DEF cut
    <3>2. \A j \in Len(selected) + 1 .. Len(whole) :
            \/ Bytes(Prefix(whole, j)) > MaxBytes
            \/ Len(Lines(Prefix(whole, j))) > MaxLines
            \/ Prefix(whole, j) = Append(selected, Newline)
      BY <1>1, <2>2 DEF cut
    <3> QED
      BY <3>1, <3>2, Zenon DEF AsMuchAsFits, Prefix, whole
  <2>3. CASE text = Append(selected, Newline)
    <3> DEFINE short == Len(selected)
    <3>1. /\ Len(text) = short + 1 /\ short \in Nat
          /\ text[short + 1] = Newline
          /\ \A i \in 1 .. short : text[i] = selected[i]
      BY <1>5, <2>3, Appended, Widths
    <3>2. cut = short + 1 /\ short \in 0 .. Len(whole)
      BY <1>1, <3>1 DEF cut
    <3>3. text # selected
      BY <3>1
    <3>4. selected = Prefix(whole, short)
      <4>1. Prefix(whole, short) \in Seq(Chars) /\ Len(Prefix(whole, short)) = short
        BY <1>1, <3>2, PrefixIsText
      <4>2. \A i \in 1 .. short : Prefix(whole, short)[i] = selected[i]
        <5> TAKE i \in 1 .. short
        <5>1. /\ Prefix(whole, short)[i] = whole[i]
              /\ Prefix(whole, cut)[i] = whole[i]
          BY <1>1, <3>2 DEF Prefix
        <5> QED
          BY <1>1, <3>1, <5>1
      <4> QED
        BY <1>5, <4>1, <4>2, SeqEqual
    <3>5. ASSUME NEW j \in short + 1 .. Len(whole)
          PROVE  \/ Bytes(Prefix(whole, j)) > MaxBytes
                 \/ Len(Lines(Prefix(whole, j))) > MaxLines
                 \/ Prefix(whole, j) = Append(selected, Newline)
      <4>1. CASE j = cut
        BY <1>1, <2>3, <4>1
      <4>2. CASE j # cut
        <5>1. j \in cut + 1 .. Len(whole)
          BY <1>1, <3>1, <3>2, <4>2
        <5> QED
          BY <1>1, <2>1, <3>3, <5>1
      <4> QED
        BY <4>1, <4>2
    <3> QED
      BY <3>4, <3>5, Zenon DEF AsMuchAsFits, Prefix, whole
  <2> QED
    BY <1>3, <2>1, <2>2, <2>3
<1>10. Bytes(selected) <= Bytes(text)
  BY <1>4, <1>5, <1>6
<1>11. ASSUME text = <<>>
       PROVE  selected = <<>>
  <2>1. Join(left) = <<>>
    <3>1. Append(Join(left), Newline) # <<>>
      BY <1>5
    <3> QED
      BY <1>3, <1>11, <3>1
  <2>2. Bytes(selected) <= Bytes(<<>>)
    BY <1>10, <1>11
  <2>3. CASE selected = <<>>
    BY <2>3
  <2>4. CASE selected # <<>>
    <3>1. Bytes(selected) >= 1 /\ Bytes(<<>>) = 0
      BY <1>5, <2>4, SomeBytes
    <3> QED
      BY <1>5, <2>2, <3>1
  <2> QED
    BY <2>3, <2>4
<1> HIDE DEF selected
<1>12. Shown(lines, n, selected, out.truncated)
  BY <1>5, <1>7, <1>8, <1>9, Zenon DEF Shown
<1>13. /\ Shown(lines, n, selected, out.truncated)
       /\ out.truncated \in BOOLEAN
       /\ Bytes(selected) <= Bytes(text)
       /\ Bytes(text) <= MaxBytes /\ Bytes(text) \in Nat
       /\ text = <<>> => selected = <<>>
  BY <1>1, <1>5, <1>10, <1>11, <1>12, Zenon
<1> QED
  BY <1>13, Zenon DEF selected, last, left, text, out, whole

-------------------------------------------------------------------------------
(* The tools *)

(* A log has lines that are not empty and do not contain the end of one.   *)
LEMMA LogsAreLogs ==
  \A lines \in Logs : Log(lines) /\ Len(lines) \in Nat
<1> SUFFICES ASSUME NEW n \in 0 .. MaxLog, NEW lines \in [1 .. n -> LogLines]
             PROVE  Log(lines) /\ Len(lines) \in Nat
  BY Zenon DEF Logs
<1>1. n \in Nat
  BY LogAssumption
<1>2. \A line \in LogLines : line # <<>> /\ line \in Line
  BY LogAssumption, Zenon DEF Line
<1>3. lines \in Seq(Line) /\ Len(lines) = n
  <2>1. \A i \in 1 .. n : lines[i] \in Line
    BY <1>2
  <2>2. lines = [i \in 1 .. n |-> lines[i]]
    OBVIOUS
  <2> QED
    BY <1>1, <2>1, <2>2
<1> QED
  BY <1>1, <1>2, <1>3 DEF Log

(* No lines are a log.                                                     *)
LEMMA NoLines == <<>> \in Logs /\ <<>> \in Seq(Line) /\ Log(<<>>)
<1>1. <<>> \in [1 .. 0 -> LogLines]
  OBVIOUS
<1>2. 0 \in 0 .. MaxLog
  BY LogAssumption
<1> QED
  BY <1>1, <1>2, LogsAreLogs DEF Logs, Log

(* What the call has to answer with before a command has been run.         *)
Unspoken == CommandPayload(<<>>, <<>>, FALSE)

(* Type correctness; until the end nothing has been printed and the answer *)
(* is the one the call begins with, since a call that finds nothing to run *)
(* gives that one; and in the end the answer is honest.                    *)
IInv ==
  /\ TypeOK
  /\ ~Answered => printed = <<>> /\ complained = <<>> /\ answer = Unspoken
  /\ Answered => Honest(printed, complained, wanted, Selects, answer)

(* The result a call begins with is honest, whatever is wanted.            *)
LEMMA UnspokenIsHonest ==
  ASSUME NEW n \in Nat, NEW selects \in BOOLEAN
  PROVE  Honest(<<>>, <<>>, n, selects, Unspoken)
<1>1. Printed(<<>>) = <<>>
  BY PrintedOfAppend
<1>2. Len(<<>>) <= n /\ FALSE \in BOOLEAN
  OBVIOUS
<1>3. Honest(<<>>, <<>>, n, selects, Payload(<<>>, <<>>, FALSE))
  BY <1>2, NoLines, PayloadIsHonest
<1> QED
  BY <1>1, <1>3, Zenon DEF Unspoken, Payload

(* A result from which the last lines are selected, if there are any.      *)
LEMMA SelectionIsHonest ==
  ASSUME NEW lines, Log(lines), NEW errors, Log(errors), wanted \in Nat,
         NEW ok \in BOOLEAN
  PROVE  Honest(lines, errors, wanted, TRUE,
                SelectLast(Payload(lines, errors, ok)))
<1> DEFINE out == TruncateText(Printed(lines))
           err == TruncateText(Printed(errors))
           selected == Join(LastLines(Lines(out.text), wanted))
           bytes == Bytes(out.text) + Bytes(err.text)
           before == Len(Lines(out.text)) + Len(Lines(err.text))
           after == Len(Lines(selected))
           either == out.truncated \/ err.truncated
           payload == Result(ok, out.text, err.text, either, bytes, before)
<1>1. /\ Shown(lines, wanted, selected, out.truncated)
      /\ out.truncated \in BOOLEAN
      /\ Bytes(selected) <= Bytes(out.text)
      /\ Bytes(out.text) <= MaxBytes /\ Bytes(out.text) \in Nat
      /\ out.text = <<>> => selected = <<>>
  BY SelectionShown, Zenon
<1>2. /\ Shown(errors, Len(errors), err.text, err.truncated)
      /\ err.truncated \in BOOLEAN
      /\ Bytes(err.text) \in Nat /\ Bytes(err.text) <= MaxBytes
  BY ErrorsShown, Zenon
<1>3. Payload(lines, errors, ok) = payload
  BY Zenon DEF Payload, CommandPayload, Result
<1>4. payload.stdout = out.text
  BY DEF Result
<1>5. SelectLast(payload)
        = IF out.text = <<>> THEN payload
          ELSE [payload EXCEPT !.stdout = selected, !.returned_lines = after]
  BY <1>4, Zenon DEF SelectLast
<1>6. bytes \in 0 .. 2 * MaxBytes
  <2> HIDE DEF out, err
  <2> QED
    BY <1>1, <1>2, LimitsAssumption
<1>7. Bytes(selected) \in Nat
  <2>1. selected \in Seq(Chars)
    BY <1>1, Zenon DEF Shown
  <2> HIDE DEF selected
  <2> QED
    BY <2>1, BytesOfAppend
<1> HIDE DEF selected, out, err, before
<1>8. CASE out.text = <<>>
  <2>1. selected = out.text
    BY <1>1, <1>8
  <2>2. Counted(selected, err.text, bytes, before, TRUE)
    BY <2>1, Zenon DEF Counted, before
  <2> HIDE DEF bytes
  <2>3. Honest(lines, errors, wanted, TRUE,
               Result(ok, selected, err.text, out.truncated \/ err.truncated,
                      bytes, before))
    BY <1>1, <1>2, <1>6, <2>2, ResultIsHonest, Zenon
  <2>4. SelectLast(Payload(lines, errors, ok))
          = Result(ok, selected, err.text, out.truncated \/ err.truncated,
                   bytes, before)
    BY <1>3, <1>5, <1>8, <2>1, Zenon
  <2> QED
    BY <2>3, <2>4, Zenon
<1>9. CASE out.text # <<>>
  <2>1. Counted(selected, err.text, bytes, after, TRUE)
    <3>1. bytes >= Bytes(selected) + Bytes(err.text)
      BY <1>1, <1>2, <1>7
    <3> QED
      BY <3>1 DEF Counted
  <2> HIDE DEF bytes, after
  <2>2. Honest(lines, errors, wanted, TRUE,
               Result(ok, selected, err.text, out.truncated \/ err.truncated,
                      bytes, after))
    BY <1>1, <1>2, <1>6, <2>1, ResultIsHonest, Zenon
  <2>3. [payload EXCEPT !.stdout = selected, !.returned_lines = after]
          = Result(ok, selected, err.text, either, bytes, after)
    <3> HIDE DEF either
    <3> DEFINE half == Result(ok, selected, err.text, either, bytes, before)
    <3>1. [payload EXCEPT !.stdout = selected] = half
      BY DEF Result
    <3>2. [half EXCEPT !.returned_lines = after]
            = Result(ok, selected, err.text, either, bytes, after)
      BY DEF Result
    <3>3. [payload EXCEPT !.stdout = selected, !.returned_lines = after]
            = [[payload EXCEPT !.stdout = selected]
                 EXCEPT !.returned_lines = after]
      BY Zenon
    <3> QED
      BY <3>1, <3>2, <3>3, Zenon
  <2>4. SelectLast(Payload(lines, errors, ok))
          = Result(ok, selected, err.text, out.truncated \/ err.truncated,
                   bytes, after)
    BY <1>3, <1>5, <1>9, <2>3, Zenon
  <2> QED
    BY <2>2, <2>4, Zenon
<1> QED
  BY <1>8, <1>9

(* The invariant holds of every state that can be reached.                 *)
THEOREM Invariance == Spec => []IInv
<1>1. Init => IInv
  <2> SUFFICES ASSUME Init
               PROVE  IInv
    OBVIOUS
  <2>1. /\ pc = "idle" /\ command = "none" /\ wanted = 0 /\ printed = <<>>
        /\ complained = <<>>
    BY DEF Init
  <2>2. answer = Unspoken
    BY Zenon DEF Init, Unspoken
  <2>3. answer \in Results
    BY <2>2, UnspokenIsHonest, Zenon DEF Honest
  <2>4. wanted \in 0 .. MaxRequest
    BY <2>1, LogAssumption
  <2>5. TypeOK
    BY <2>1, <2>3, <2>4, NoLines DEF TypeOK, Results
  <2>6. ~Answered
    BY <2>1 DEF Answered
  <2> QED
    BY <2>1, <2>2, <2>5, <2>6, Zenon DEF IInv
<1>2. IInv /\ [Next]_vars => IInv'
  <2> SUFFICES ASSUME IInv, [Next]_vars
               PROVE  IInv'
    OBVIOUS
  <2>1. TypeOK /\ wanted \in Nat /\ answer \in Results
    BY LogAssumption DEF IInv, TypeOK, Results
  <2>0. ASSUME NEW errors \in Complaints
        PROVE  errors \in Logs /\ Log(errors)
    BY <2>0, ComplaintsAssumption, LogsAreLogs
  <2>2. ASSUME NEW lines \in Logs, NEW errors \in Complaints, NEW result,
               Honest(lines, errors, wanted, Selects, result),
               Give(lines, errors, result)
        PROVE  IInv'
    <3>1. /\ pc' = "answered" /\ printed' = lines /\ answer' = result
          /\ complained' = errors /\ command' = command /\ wanted' = wanted
      BY <2>2 DEF Give
    <3>6. Selects' = Selects
      BY <3>1 DEF Selects
    <3>2. result \in Results
      BY <2>2, Zenon DEF Honest
    <3>3. TypeOK'
      BY <2>0, <2>1, <2>2, <3>1, <3>2 DEF TypeOK, Results
    <3>4. Honest(printed', complained', wanted', Selects', answer')
      BY <2>2, <3>1, <3>6, Zenon
    <3>5. Answered'
      BY <3>1 DEF Answered
    <3> QED
      BY <3>3, <3>4, <3>5, Zenon DEF IInv, Answered
  <2>3. ASSUME NEW n \in Requests, Call(n)
        PROVE  IInv'
    <3>1. /\ pc = "idle" /\ printed' = printed /\ answer' = answer
          /\ complained' = complained /\ wanted' = Clamp(n)
          /\ \/ pc' = "run" /\ command' \in {"journalctl", "tail", "dmesg"}
             \/ pc' = "answered" /\ command' = command
      BY <2>3 DEF Call
    <3>2. wanted' \in 0 .. MaxRequest
      BY <3>1, LogAssumption DEF Clamp
    <3>3. TypeOK'
      BY <2>1, <3>1, <3>2 DEF TypeOK
    <3>4. printed' = <<>> /\ complained' = <<>> /\ answer' = Unspoken
      BY <3>1 DEF IInv, Answered
    <3>5. wanted' \in Nat
      BY <3>2, LogAssumption
    <3>7. Selects' \in BOOLEAN
      BY DEF Selects
    <3>6. Honest(printed', complained', wanted', Selects', answer')
      BY <3>4, <3>5, <3>7, UnspokenIsHonest, Zenon
    <3> QED
      BY <3>3, <3>4, <3>6, Zenon DEF IInv
  <2>4. ASSUME Journal
        PROVE  IInv'
    <3>1. PICK lines \in Tails, errors \in Complaints, ok \in BOOLEAN :
                 Give(lines, errors, Payload(lines, errors, ok))
      BY <2>4, Zenon DEF Journal
    <3>2. lines \in Logs /\ Len(lines) <= wanted
      BY Zenon DEF Tails
    <3>4. Selects \in BOOLEAN
      BY DEF Selects
    <3>3. Honest(lines, errors, wanted, Selects, Payload(lines, errors, ok))
      BY <2>0, <2>1, <3>2, <3>4, LogsAreLogs, PayloadIsHonest, Zenon
    <3> QED
      BY <2>2, <3>1, <3>2, <3>3, Zenon
  <2>5. ASSUME Dedicated
        PROVE  IInv'
    <3>1. CASE \E lines \in Tails, errors \in Complaints :
                 Give(lines, errors, Payload(lines, errors, TRUE))
      <4>1. PICK lines \in Tails, errors \in Complaints :
                   Give(lines, errors, Payload(lines, errors, TRUE))
        BY <3>1, Zenon
      <4>2. lines \in Logs /\ Len(lines) <= wanted
        BY Zenon DEF Tails
      <4>5. Selects \in BOOLEAN
        BY DEF Selects
      <4>3. TRUE \in BOOLEAN
        OBVIOUS
      <4>4. Honest(lines, errors, wanted, Selects, Payload(lines, errors, TRUE))
        BY <2>0, <2>1, <4>2, <4>3, <4>5, LogsAreLogs, PayloadIsHonest, Zenon
      <4> QED
        BY <2>2, <4>1, <4>2, <4>4, Zenon
    <3>2. CASE /\ command' = "grep"
               /\ UNCHANGED <<pc, wanted, printed, complained, answer>>
      <4>1. /\ command' = "grep" /\ pc' = pc /\ wanted' = wanted
            /\ printed' = printed /\ complained' = complained
            /\ answer' = answer
        BY <3>2
      <4>2. TypeOK'
        BY <2>1, <4>1 DEF TypeOK
      <4>3. ~Answered
        BY <2>5 DEF Dedicated, Running, Answered
      <4>4. ~Answered'
        BY <4>1, <4>3 DEF Answered
      <4>5. printed' = <<>> /\ complained' = <<>> /\ answer' = Unspoken
        BY <4>1, <4>3 DEF IInv
      <4> QED
        BY <4>2, <4>4, <4>5, Zenon DEF IInv, Unspoken
    <3> QED
      BY <2>5, <3>1, <3>2, Zenon DEF Dedicated
  <2>6. ASSUME Whole
        PROVE  IInv'
    <3>1. PICK lines \in Logs, errors \in Complaints, ok \in BOOLEAN :
                 Give(lines, errors, SelectLast(Payload(lines, errors, ok)))
      BY <2>6, Zenon DEF Whole
    <3>2. Selects
      BY <2>6 DEF Whole, Running, Selects
    <3>3. Honest(lines, errors, wanted, TRUE,
                 SelectLast(Payload(lines, errors, ok)))
      BY <2>0, <2>1, LogsAreLogs, SelectionIsHonest, Zenon
    <3>4. Honest(lines, errors, wanted, Selects,
                 SelectLast(Payload(lines, errors, ok)))
      BY <3>2, <3>3, Zenon DEF Honest, Counted
    <3> QED
      BY <2>2, <3>1, <3>4, Zenon
  <2>7. CASE UNCHANGED vars
    <3>1. /\ pc' = pc /\ command' = command /\ wanted' = wanted
          /\ printed' = printed /\ complained' = complained
          /\ answer' = answer
      BY <2>7 DEF vars
    <3>2. TypeOK'
      BY <2>1, <3>1 DEF TypeOK
    <3>3. Answered' = Answered /\ Selects' = Selects
      BY <3>1 DEF Answered, Selects
    <3>4. ~Answered => printed' = <<>> /\ complained' = <<>> /\ answer' = Unspoken
      BY <3>1 DEF IInv
    <3>5. Answered => Honest(printed', complained', wanted', Selects', answer')
      BY <3>1, <3>3, Zenon DEF IInv
    <3> QED
      BY <3>2, <3>3, <3>4, <3>5, Zenon DEF IInv
  <2> QED
    BY <2>3, <2>4, <2>5, <2>6, <2>7, Zenon DEF Next
<1> QED
  BY <1>1, <1>2, PTL DEF Spec

(* Every variable holds the kind of value the code keeps in it.            *)
THEOREM TypeCorrect == Spec => []TypeOK
<1>1. IInv => TypeOK
  BY DEF IInv
<1> QED
  BY <1>1, Invariance, PTL

(* Each stream of an answer, whatever was cut or selected, keeps the       *)
(* limits, and the numbers of lines and bytes that are reported are those  *)
(* of both streams or, after a selection, the lines of standard output and *)
(* bytes that include what is no longer shown.                             *)
THEOREM LimitsKept == Spec => []WithinLimits
<1>1. IInv => WithinLimits
  BY Zenon DEF IInv, Honest, Within, Counted, WithinLimits
<1> QED
  BY <1>1, Invariance, PTL

(* An answer that is not flagged as truncated consists of the last lines   *)
(* of the log, as many as were wanted or as there are, and of all that was *)
(* printed on standard error.                                              *)
THEOREM OmissionsFlagged == Spec => []OmissionIsFlagged
<1>1. IInv => OmissionIsFlagged
  BY Zenon DEF IInv, Honest, OmissionIsFlagged
<1> QED
  BY <1>1, Invariance, PTL

(* Standard error, and an output from which nothing was selected, is       *)
(* answered from its beginning, and anything longer would have exceeded a  *)
(* limit.                                                                  *)
THEOREM CutsTight == Spec => []CutIsTight
<1>1. IInv => CutIsTight
  BY Zenon DEF IInv, Honest, CutIsTight
<1> QED
  BY <1>1, Invariance, PTL

===============================================================================
