------------------------------- MODULE LogTools -------------------------------
(***************************************************************************)
(* The tools of hyrule_mcp/tools/diagnostics.py that answer with the end   *)
(* of a log: os_service_logs, which reads the journal, a log file of the   *)
(* service or, failing that, /var/log/messages; and dmesg_tail.  What they *)
(* work on has been through TruncateText already.                          *)
(***************************************************************************)
EXTENDS CommandOutput

CONSTANTS
  Requests,    \* numbers of lines a caller asks for
  MaxRequest,  \* the number of lines a caller can get at most, 500
  LogLines,    \* what a line of a log may be
  MaxLog,      \* bound on the number of lines in a log
  Complaints   \* what a command may print on standard error: lines

ASSUME LogAssumption ==
  /\ Requests \subseteq Int
  /\ MaxRequest \in Nat \ {0}
  /\ MaxLog \in Nat
  /\ \A line \in LogLines : line # <<>> /\ line \in Seq(Chars \ {Newline})

VARIABLES
  pc,         \* how far the call is
  command,    \* the command being run or, at the end, the one answered with
  wanted,     \* lines: the number asked for, within bounds
  printed,    \* history: the lines the last command printed
  complained, \* history: those it printed on standard error
  answer      \* the result

vars == <<pc, command, wanted, printed, complained, answer>>

Logs == UNION {[1 .. n -> LogLines] : n \in 0 .. MaxLog}

ASSUME ComplaintsAssumption == Complaints \subseteq Logs

(* What a command prints of these lines: each is terminated.               *)
Printed(lines) == Join(lines) \o (IF lines = <<>> THEN <<>> ELSE <<Newline>>)

ClampAbove(n) == IF n > MaxRequest THEN MaxRequest ELSE n

(* max(1, min(lines, 500))                                                 *)
Clamp(n) == IF n < 1 THEN 1 ELSE IF n > MaxRequest THEN MaxRequest ELSE n

-------------------------------------------------------------------------------

(* The first command depends on the tool and, for os_service_logs, on what *)
(* the host supports; without any support the tool answers at once.        *)
Call(n) ==
  /\ pc = "idle"
  /\ wanted' = Clamp(n)
  /\ \/ pc' = "run" /\ command' \in {"journalctl", "tail", "dmesg"}
     \/ pc' = "answered" /\ UNCHANGED command
  /\ UNCHANGED <<printed, complained, answer>>

(* Answer with this result of a command that printed these lines.          *)
Give(lines, errors, result) ==
  /\ printed' = lines
  /\ complained' = errors
  /\ answer' = result
  /\ pc' = "answered"
  /\ UNCHANGED <<command, wanted>>

Running(c) == pc = "run" /\ command = c

Payload(lines, errors, ok) ==
  CommandPayload(Printed(lines), Printed(errors), ok)

(* journalctl -n and tail -n print no more lines than they are asked for.  *)
Tails == {lines \in Logs : Len(lines) <= wanted}

Journal ==
  /\ Running("journalctl")
  /\ \E lines \in Tails, errors \in Complaints, ok \in BOOLEAN :
       Give(lines, errors, Payload(lines, errors, ok))

(* The service's own log file.  If it cannot be read, fall back.           *)
Dedicated ==
  /\ Running("tail")
  /\ \/ \E lines \in Tails, errors \in Complaints :
          Give(lines, errors, Payload(lines, errors, TRUE))
     \/ /\ command' = "grep"
        /\ UNCHANGED <<pc, wanted, printed, complained, answer>>

(* The last lines of what TruncateText has left of the output, if anything. *)
(* The lines are counted again, those of standard error no longer; the      *)
(* number of bytes stays what it was.                                       *)
SelectLast(result) ==
  LET selected == Join(LastLines(Lines(result.stdout), wanted))
  IN IF result.stdout = <<>> THEN result
     ELSE [result EXCEPT !.stdout = selected,
                         !.returned_lines = Len(Lines(selected))]

(* grep in /var/log/messages, and dmesg, print all there is.               *)
Whole ==
  /\ Running("grep") \/ Running("dmesg")
  /\ \E lines \in Logs, errors \in Complaints, ok \in BOOLEAN :
       Give(lines, errors, SelectLast(Payload(lines, errors, ok)))

Init ==
  /\ pc = "idle"
  /\ command = "none"
  /\ wanted = 0
  /\ printed = <<>>
  /\ complained = <<>>
  /\ answer = CommandPayload(<<>>, <<>>, FALSE)

Next == (\E n \in Requests : Call(n)) \/ Journal \/ Dedicated \/ Whole

Spec == Init /\ [][Next]_vars

-------------------------------------------------------------------------------
(* Properties *)

(* Every variable holds the kind of value the code keeps in it.            *)
TypeOK ==
  /\ pc \in {"idle", "run", "answered"}
  /\ command \in {"none", "journalctl", "tail", "grep", "dmesg"}
  /\ wanted \in 0 .. MaxRequest
  /\ printed \in Logs
  /\ complained \in Logs
  /\ answer \in [ok : BOOLEAN, stdout : Seq(Chars), stderr : Seq(Chars),
                 truncated : BOOLEAN, returned_bytes : 0 .. 2 * MaxBytes,
                 returned_lines : 0 .. 2 * MaxLines]

Answered == pc = "answered"

(* Lines are selected from what these commands print.                      *)
Selects == command \in {"grep", "dmesg"}

(* After all cuts and selections each stream of the answer keeps the       *)
(* limits, and what is reported describes them: the lines and the bytes of *)
(* both streams or, once lines have been selected, the lines of standard   *)
(* output alone, and bytes of both that include those no longer shown      *)
(* (executor.py, lines 373 to 375; diagnostics.py, lines 317 to 320).      *)
WithinLimits ==
  Answered =>
    LET lines == Len(Lines(answer.stdout))
        errors == Len(Lines(answer.stderr))
        bytes == Bytes(answer.stdout) + Bytes(answer.stderr)
    IN /\ lines <= MaxLines /\ errors <= MaxLines
       /\ Bytes(answer.stdout) <= MaxBytes /\ Bytes(answer.stderr) <= MaxBytes
       /\ \/ /\ answer.returned_lines = lines + errors
             /\ answer.returned_bytes = bytes
          \/ /\ Selects
             /\ answer.returned_lines = lines
             /\ answer.returned_bytes >= bytes

(* An answer that does not say it was truncated is the whole truth: the    *)
(* last lines of the log, as many as were wanted or as there are, and all  *)
(* that was printed on standard error.                                     *)
OmissionIsFlagged ==
  Answered /\ ~answer.truncated =>
    /\ Lines(answer.stdout) = LastLines(printed, wanted)
    /\ Lines(answer.stderr) = complained

(* The text begins as the output of these lines does, and could not have   *)
(* been longer: whatever continues the output exceeds a limit or adds no   *)
(* more than the end of its last line.                                     *)
AsMuchAsFits(lines, text) ==
  LET whole == Printed(lines)
      cut == Len(text)
      Prefix(k) == SubSeq(whole, 1, k)
  IN /\ text = Prefix(cut)
     /\ \A k \in cut + 1 .. Len(whole) :
          \/ Bytes(Prefix(k)) > MaxBytes
          \/ Len(Lines(Prefix(k))) > MaxLines
          \/ Prefix(k) = Append(text, Newline)

(* No more is cut than the limits demand, from standard error and from an  *)
(* output of no more lines than were wanted.                               *)
CutIsTight ==
  Answered =>
    /\ Len(printed) <= wanted => AsMuchAsFits(printed, answer.stdout)
    /\ AsMuchAsFits(complained, answer.stderr)

-------------------------------------------------------------------------------
(* A claim of the tests that the code does not keep *)

(* test_freebsd_service_logs_falls_back_to_messages: asked for one line,   *)
(* the tool answers with the newest line that mentions the service.        *)
NewestLineShown ==
  Answered /\ command = "grep" /\ answer.ok /\ answer.stdout # <<>> =>
    Last(Lines(answer.stdout)) = Last(printed)

===============================================================================
