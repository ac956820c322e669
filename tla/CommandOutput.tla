----------------------------- MODULE CommandOutput -----------------------------
(***************************************************************************)
(* What a tool returns of the output of a command: _command_payload of     *)
(* hyrule_mcp/executor.py and truncate_text of hyrule_mcp/sanitize.py.     *)
(* A text is a sequence of characters; what tells them apart is how many   *)
(* bytes they take in UTF-8 and whether they end a line.  Secrets are      *)
(* redacted before anything is measured: texts here are redacted texts.    *)
(***************************************************************************)
EXTENDS Integers, Sequences, SequencesExt

CONSTANTS
  MaxLines,   \* settings.raw_output_line_limit
  MaxBytes    \* settings.raw_output_byte_limit

ASSUME LimitsAssumption == MaxLines \in Nat \ {0} /\ MaxBytes \in Nat \ {0}

Newline == "newline"

(* Characters of one and of two bytes, and the end of a line.              *)
Width == [narrow |-> 1, wide |-> 2, newline |-> 1]

Chars == DOMAIN Width

Bytes(text) == FoldLeft(LAMBDA sum, char : sum + Width[char], 0, text)

(* str.splitlines: the last line need not be terminated.                   *)
Lines(text) ==
  LET Read(acc, char) ==
        IF char = Newline
        THEN [done |-> Append(acc.done, acc.line), line |-> <<>>]
        ELSE [acc EXCEPT !.line = Append(@, char)]
      end == FoldLeft(Read, [done |-> <<>>, line |-> <<>>], text)
  IN IF end.line = <<>> THEN end.done ELSE Append(end.done, end.line)

(* "\n".join(lines)                                                        *)
Join(lines) ==
  IF lines = <<>> THEN <<>>
  ELSE FoldLeft(LAMBDA text, line : text \o <<Newline>> \o line,
                Head(lines), Tail(lines))

(* lines[:n] and lines[-n:]                                                *)
FirstLines(lines, n) ==
  SubSeq(lines, 1, IF n < Len(lines) THEN n ELSE Len(lines))

LastLines(lines, n) ==
  SubSeq(lines, IF n < Len(lines) THEN Len(lines) - n + 1 ELSE 1, Len(lines))

FirstBytesRoundedUp(text, n) ==
  LET Fits(k) == k = 0 \/ Bytes(SubSeq(text, 1, k - 1)) < n
      k == CHOOSE i \in 0 .. Len(text) :
             Fits(i) /\ \A j \in i + 1 .. Len(text) : ~Fits(j)
  IN SubSeq(text, 1, k)

FirstBytesStrict(text, n) ==
  LET Fits(k) == k = 0 \/ Bytes(SubSeq(text, 1, k)) < n
      k == CHOOSE i \in 0 .. Len(text) :
             Fits(i) /\ \A j \in i + 1 .. Len(text) : ~Fits(j)
  IN SubSeq(text, 1, k)

(* The first n bytes, decoded: a character cut in two is dropped.          *)
FirstBytes(text, n) ==
  LET Fits(k) == Bytes(SubSeq(text, 1, k)) <= n
      k == CHOOSE i \in 0 .. Len(text) :
             Fits(i) /\ \A j \in i + 1 .. Len(text) : ~Fits(j)
  IN SubSeq(text, 1, k)

TruncateTextFlagsLast(text) ==
  LET lines == Lines(text)
      trimmed == Join(FirstLines(lines, MaxLines))
  IN [text |-> FirstBytes(trimmed, MaxBytes),
      truncated |-> Bytes(trimmed) > MaxBytes]

TruncateText(text) ==
  LET lines == Lines(text)
      trimmed == Join(FirstLines(lines, MaxLines))
  IN [text |-> FirstBytes(trimmed, MaxBytes),
      truncated |-> Len(lines) > MaxLines \/ Bytes(trimmed) > MaxBytes]

(* Each stream is cut by itself; what is reported covers both.  An           *)
(* error_result, of a command that could not be run or followed to its end,  *)
(* looks like that of one that failed without a word.                        *)
CommandPayload(stdout, stderr, ok) ==
  LET out == TruncateText(stdout)
      err == TruncateText(stderr)
  IN [ok |-> ok, stdout |-> out.text, stderr |-> err.text,
      truncated |-> out.truncated \/ err.truncated,
      returned_bytes |-> Bytes(out.text) + Bytes(err.text),
      returned_lines |-> Len(Lines(out.text)) + Len(Lines(err.text))]

===============================================================================
