---------------------------- MODULE ScriptParts ----------------------------
(***************************************************************************)
(* Script::splitToExecutableParts.  A script's text is a sequence of       *)
(* pieces: "code", which stands for any text without the two others,       *)
(* "newline", and "restart", the line <<<RESTART FROM HERE>>>.             *)
(***************************************************************************)
EXTENDS Integers, Sequences, FiniteSets

Pieces == {"code", "newline", "restart"}

APart(line, code) == [line |-> line, code |-> code]

\* The variables of the loop before it begins
LoopStart == [res |-> <<>>, lineno |-> 1, curLine |-> 1, prevPos |-> 1]

\* One turn: the next piece that the expression finds is text[pos].
LoopTurn(text, pos, s) ==
    CASE text[pos] = "newline" -> [s EXCEPT !.curLine = @ + 1]
      [] text[pos] = "restart" ->
            [res     |-> Append(s.res, APart(s.lineno, SubSeq(text, s.prevPos, pos - 1))),
             lineno  |-> s.curLine,
             curLine |-> s.curLine,
             prevPos |-> pos + 1]
      [] OTHER -> s

\* What follows the last marker is a part only if it is not empty.
SplitToExecutableParts(text) ==
    LET loop[pos \in 0..Len(text)] ==
            IF pos = 0 THEN LoopStart ELSE LoopTurn(text, pos, loop[pos - 1])
        end == loop[Len(text)]
    IN  IF end.prevPos <= Len(text)
        THEN Append(end.res, APart(end.lineno, SubSeq(text, end.prevPos, Len(text))))
        ELSE end.res

-----------------------------------------------------------------------------

Lines(code) == Cardinality({i \in DOMAIN code : code[i] = "newline"})

\* The parts put together again, with the marker between them
Joined(parts) ==
    LET upTo[k \in 0..Len(parts)] ==
            IF k = 0 THEN <<>>
            ELSE (IF k = 1 THEN <<>> ELSE Append(upTo[k - 1], "restart")) \o parts[k].code
    IN  upTo[Len(parts)]

\* Nothing of the text is lost or doubled, except a marker at its end, and
\* each part knows the line on which it begins.
PartsOf(parts, text) ==
    /\ text \in {Joined(parts), Append(Joined(parts), "restart")}
    /\ \A k \in DOMAIN parts :
         parts[k].line = 1 + Lines(Joined(SubSeq(parts, 1, k - 1)))
=============================================================================
