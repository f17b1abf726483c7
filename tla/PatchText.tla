----------------------------- MODULE PatchText -------------------------------
(* The text of a patch (modes/codex/apply-patch.ts): the parser of the          *)
(* line-oriented grammar, and the search for the lines of a hunk in a file.     *)
(* A line of a patch is its kind with what follows the marker; "other" is a     *)
(* line no production allows, such as an empty one.  Only operators: Workspace  *)
(* has what a parsed patch does to the files.                                   *)
EXTENDS Naturals, Sequences, SequencesExt

CONSTANTS Texts,          \* texts of lines
          PatchPaths,     \* paths that may follow a header
          BadPath,        \* one of them: empty, absolute or with a zero byte
          MaxPatch,       \* bound: lines of a patch between its first and last
          Characters,     \* of a file: "lf", "cr" and those of the texts
          MaxContent,     \* bound: characters of a file
          Failed          \* the error that is thrown instead of a result
ASSUME PatchAssumption ==
  BadPath \in PatchPaths /\ {MaxPatch, MaxContent} \subseteq Nat

Headers == [kind : {"Add File", "Delete File", "Update File"}, text : PatchPaths]
Edits == [kind : {"+", "-", " "}, text : Texts]
Line(kind, text) == [kind |-> kind, text |-> text]
PatchLines == Headers \cup Edits \cup [kind : {"Move to"}, text : PatchPaths]
                \cup {Line("@@", ""), Line("other", "")}

------------------------------------------------------------------------------
(* parseApplyPatch.  The operations so far; the last is the one being read.     *)
Operation(header) == [type |-> header.kind, path |-> header.text, moveTo |-> "",
                      added |-> <<>>, hunks |-> <<>>]
ReadingUpdate(ops) == ops # <<>> /\ Last(ops).type = "Update File"
ReadingAdd(ops) == ops # <<>> /\ Last(ops).type = "Add File"
ReadingHunk(ops) == ReadingUpdate(ops) /\ Last(ops).hunks # <<>>
WithLast(seq, element) == Append(Front(seq), element)

Complete(ops) ==
  ReadingUpdate(ops) => Last(ops).hunks # <<>> /\ Last(Last(ops).hunks) # <<>>

ReadLine(ops, line) ==
  CASE ops = Failed \/ line.text = BadPath -> Failed
    [] line \in Headers /\ Complete(ops) -> Append(ops, Operation(line))
    [] /\ line.kind = "Move to"
       /\ ReadingUpdate(ops) /\ ~ ReadingHunk(ops) /\ Last(ops).moveTo = "" ->
         WithLast(ops, [Last(ops) EXCEPT !.moveTo = line.text])
    [] /\ line.kind = "@@"
       /\ ReadingUpdate(ops) /\ (ReadingHunk(ops) => Complete(ops)) ->
         WithLast(ops, [Last(ops) EXCEPT !.hunks = Append(@, <<>>)])
    [] line.kind = "+" /\ ReadingAdd(ops) ->
         WithLast(ops, [Last(ops) EXCEPT !.added = Append(@, line.text)])
    [] line \in Edits /\ ReadingHunk(ops) ->
         WithLast(ops, [Last(ops) EXCEPT !.hunks = WithLast(@, Append(Last(@), line))])
    [] OTHER -> Failed

ParseApplyPatch(lines) ==
  LET ops == FoldLeft(ReadLine, <<>>, lines)
  IN IF ops = Failed \/ ops = <<>> \/ ~ Complete(ops) THEN Failed ELSE ops

(* What an operation is written as: the grammar read the other way.             *)
WrittenAs(op) ==
  <<Line(op.type, op.path)>>
    \o (IF op.moveTo = "" THEN <<>> ELSE <<Line("Move to", op.moveTo)>>)
    \o [i \in DOMAIN op.added |-> Line("+", op.added[i])]
    \o FlattenSeq([i \in DOMAIN op.hunks |-> <<Line("@@", "")>> \o op.hunks[i]])

------------------------------------------------------------------------------
(* replaceHunks, on the characters of the file: its lines are split at the line *)
(* ends, of which CRLF counts as one, and joined with CRLF when the file has    *)
(* any; the end of the last line is set aside.                                  *)
CrLfAt(content, i) == i < Len(content) /\ content[i] = "cr" /\ content[i + 1] = "lf"
LineEnd(content) ==
  IF \E i \in DOMAIN content : CrLfAt(content, i) THEN <<"cr", "lf">> ELSE <<"lf">>
TrailingNewline(content) == content # <<>> /\ Last(content) = "lf"

ReadCharacter(lines, char) ==
  IF char = "lf" THEN Append(lines, <<>>) ELSE WithLast(lines, Append(Last(lines), char))
SplitLines(content) ==
  LET kept == SelectSeq([i \in DOMAIN content |->
                           IF CrLfAt(content, i) THEN "dropped" ELSE content[i]],
                        LAMBDA char : char # "dropped")
      lines == FoldLeft(ReadCharacter, <<<<>>>>, kept)
  IN IF TrailingNewline(content) THEN Front(lines) ELSE lines

JoinLines(lines, end) ==
  FlattenSeq([i \in DOMAIN lines |-> IF i = 1 THEN lines[i] ELSE end \o lines[i]])
JoinedLike(content, lines) ==
  JoinLines(lines, LineEnd(content))
    \o (IF TrailingNewline(content) THEN LineEnd(content) ELSE <<>>)

TextsOf(hunk, dropped) ==
  LET kept == SelectSeq(hunk, LAMBDA line : line.kind # dropped)
  IN [i \in DOMAIN kept |-> kept[i].text]
OldLines(hunk) == TextsOf(hunk, "+")
NewLines(hunk) == TextsOf(hunk, "-")

Found(old, lines, from) ==
  {at \in from .. Len(lines) - Len(old) : SubSeq(lines, at + 1, at + Len(old)) = old}

(* Mutant: the search goes on where the old lines would have ended.             *)
SearchAfterOld(at, hunk) == at + Len(OldLines(hunk))
SearchAfter(at, hunk) == at + Len(NewLines(hunk))

Splice(state, at, hunk) ==
  [lines |-> SubSeq(state.lines, 1, at) \o NewLines(hunk)
               \o SubSeq(state.lines, at + Len(OldLines(hunk)) + 1, Len(state.lines)),
   searchFrom |-> SearchAfter(at, hunk)]

ReplaceHunk(state, hunk) ==
  IF state = Failed THEN Failed
  ELSE LET old == OldLines(hunk)
           found == IF old = <<>> THEN {state.searchFrom}
                    ELSE Found(old, state.lines, state.searchFrom)
       IN IF \E at \in found : found = {at}
          THEN Splice(state, CHOOSE at \in found : TRUE, hunk)
          ELSE Failed

ReplaceHunks(content, hunks) ==
  LET state == FoldLeft(ReplaceHunk, [lines |-> SplitLines(content), searchFrom |-> 0], hunks)
  IN IF state = Failed THEN Failed ELSE JoinedLike(content, state.lines)

------------------------------------------------------------------------------
(* What they are for, on the characters of the file and not on its lines: what  *)
(* stands between the ends of line `from` and line `to`, the texts as they are  *)
(* written in such a file, and where lines stand that are written so.           *)
Uniform(content) ==
  LineEnd(content) = <<"lf">>
    \/ \A i \in DOMAIN content : content[i] = "lf" => i > 1 /\ content[i - 1] = "cr"
MadeUniform(content) ==
  FlattenSeq([i \in DOMAIN content |->
                IF content[i] = "lf" /\ (i = 1 \/ content[i - 1] # "cr") THEN <<"cr", "lf">>
                ELSE <<content[i]>>])

Ends(file) == <<0>> \o SelectSeq([i \in DOMAIN file |-> i], LAMBDA i : file[i] = "lf")
LinesBetween(file, from, to) == SubSeq(file, Ends(file)[from + 1] + 1, Ends(file)[to + 1])
AsWritten(texts, end) == FlattenSeq([i \in DOMAIN texts |-> texts[i] \o end])
Sites(file, texts, from, end) ==
  {at \in from .. Len(Ends(file)) - 1 - Len(texts) :
     LinesBetween(file, at, at + Len(texts)) = AsWritten(texts, end)}

(* Places of the hunks in the file as it was: each is where its old lines stand,*)
(* the only such place after the one before.                                    *)
After(hunks, places, i) ==
  IF i = 0 THEN 0 ELSE places[i] + Len(OldLines(hunks[i]))
Placed(file, hunks, places, end) ==
  \A i \in DOMAIN hunks :
    LET old == OldLines(hunks[i])
        from == After(hunks, places, i - 1)
    IN IF old = <<>> THEN places[i] = from ELSE Sites(file, old, from, end) = {places[i]}
Patched(file, hunks, places, end) ==
  FlattenSeq([i \in DOMAIN hunks |->
                LinesBetween(file, After(hunks, places, i - 1), places[i])
                  \o AsWritten(NewLines(hunks[i]), end)])
    \o LinesBetween(file, After(hunks, places, Len(hunks)), Len(Ends(file)) - 1)

(* Bounds of the checks: files of so many characters, one hunk of two lines or  *)
(* two of one line.                                                             *)
Contents == BoundedSeq(Characters, MaxContent)
HunkLists == {<<hunk>> : hunk \in BoundedSeq(Edits, 2) \ {<<>>}}
               \cup {<<<<line>>, <<other>>>> : line \in Edits, other \in Edits}

(* In a file whose line ends are all alike, an update changes exactly the lines *)
(* its hunks name, each found at the only place it can be found at after the    *)
(* hunks before it and never in what those have put in, and refuses when a hunk *)
(* has no such place or several; every character that is not named stays, the   *)
(* lines put in end like the others, and the last line has an end just when it  *)
(* had one, in a file left without lines too.  In a file that mixes LF and CRLF *)
(* the lines that are not named do not stay as they were: the update makes of   *)
(* it what it makes of the file with CRLF throughout (apply-patch.ts:104-131).  *)
HunksReplaced ==
  \A content \in Contents, hunks \in HunkLists :
    LET end == LineEnd(content)
        ended == TrailingNewline(content)
        file == IF ended THEN content ELSE content \o end
        placed == {places \in [DOMAIN hunks -> 0 .. Len(Ends(file)) - 1] :
                     Placed(file, hunks, places, end)}
        patched == Patched(file, hunks, CHOOSE places \in placed : TRUE, end)
        result == ReplaceHunks(content, hunks)
    IN IF ~ Uniform(content) THEN result = ReplaceHunks(MadeUniform(content), hunks)
       ELSE IF placed = {} THEN result = Failed
       ELSE IF patched = <<>> THEN result = IF ended THEN end ELSE <<>>
       ELSE result = SubSeq(patched, 1, Len(patched) - IF ended THEN 0 ELSE Len(end))

(* Every list of operations is read back from what it is written as, and        *)
(* whatever text is accepted is the writing of what it is read as: no line is   *)
(* dropped, moved to another operation or guessed, and no update is empty       *)
(* (apply-patch.ts:24-100).                                                     *)
PlainEdits == {line \in Edits : line.text = CHOOSE text \in Texts : TRUE}
Hunks == BoundedSeq(PlainEdits, 2) \ {<<>>}
Updates == {[Operation(Line("Update File", path)) EXCEPT !.moveTo = moveTo, !.hunks = hunks] :
              path \in PatchPaths \ {BadPath}, moveTo \in (PatchPaths \ {BadPath}) \cup {""},
              hunks \in BoundedSeq(Hunks, 2) \ {<<>>}}
Others == {[Operation(Line(type, path)) EXCEPT !.added = added] :
             type \in {"Add File", "Delete File"}, path \in PatchPaths \ {BadPath},
             added \in BoundedSeq(Texts, 2)}
PatchOperations == Updates \cup {op \in Others : op.type = "Delete File" => op.added = <<>>}

PatchReadAsWritten ==
  /\ \A op \in PatchOperations, other \in PatchOperations :
       (op \in Updates => Len(op.hunks) = 1) =>
         ParseApplyPatch(WrittenAs(op) \o WrittenAs(other)) = <<op, other>>
  /\ \A lines \in BoundedSeq(PatchLines \ (Edits \ PlainEdits), MaxPatch) :
       LET ops == ParseApplyPatch(lines)
       IN ops # Failed =>
            /\ FlattenSeq([i \in DOMAIN ops |-> WrittenAs(ops[i])]) = lines
            /\ \A i \in DOMAIN ops : ops[i].type = "Update File" =>
                 ops[i].hunks # <<>> /\ <<>> \notin ToSet(ops[i].hunks)
==============================================================================
