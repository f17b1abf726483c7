----------------------------- MODULE ReadTools -------------------------------
(* The read-only tools (core/capabilities.ts, offered by broker/catalog.ts):    *)
(* read, ls, find and grep below a root directory, with limits that all calls   *)
(* of one catalog share.  A call runs to its end without an await, so a call is *)
(* a function of the files, the counters and its input.  Only operators.        *)
(*                                                                              *)
(* Entry 0 is the root; an entry has a directory of smaller number, a kind, a   *)
(* target when it is a link, and a label: "skipped" for the names a walk passes *)
(* over (node_modules), "secret" for those no tool touches (.env).              *)
EXTENDS Naturals, Sequences, FiniteSets, SequencesExt

CONSTANTS MaxInodes,      \* bound: entries below the root
          Outside,        \* the target of a link that leaves the root
          Missing         \* the target of a link to nothing
ASSUME ReadToolsAssumption == MaxInodes \in Nat

Inodes == 1 .. MaxInodes
Root == 0

IsLink(fs, n) == n \in Inodes /\ fs.kind[n] = "link"
IsDirectory(fs, n) == n = Root \/ (n \in Inodes /\ fs.kind[n] = "dir")
Within(fs, d) == SetToSortSeq({n \in Inodes : fs.parent[n] = d}, <)

(* The path of an entry, as the entries above and at it.                        *)
RECURSIVE OnPath(_, _)
OnPath(fs, n) == IF n = Root THEN {} ELSE {n} \cup OnPath(fs, fs.parent[n])
Sensitive(fs, n) == \E above \in OnPath(fs, n) : fs.label[above] = "secret"

(* realpathSync: a link of links in a circle leads nowhere.                     *)
RECURSIVE Follow(_, _, _)
Follow(fs, n, links) ==
  IF ~ IsLink(fs, n) THEN n
  ELSE IF n \in links THEN Missing
  ELSE Follow(fs, fs.target[n], links \cup {n})
RealPath(fs, n) == Follow(fs, n, {})

Blocked(fs, n) ==
  \/ Sensitive(fs, n)
  \/ RealPath(fs, n) \in {Outside, Missing}
  \/ Sensitive(fs, RealPath(fs, n))

------------------------------------------------------------------------------
(* ReadOnlyCapabilityHost: the counters and the visited directories stay from   *)
(* call to call; "found" and "status" are of the call under way, which goes on, *)
(* has "enough", or has "thrown".                                               *)
Fresh == [calls |-> 0, entries |-> 0, bytes |-> 0, visited |-> {},
          found |-> <<>>, status |-> "on"]
Throw(host) == [host EXCEPT !.status = "thrown"]

ScanEntry(host, limits) ==
  LET counted == [host EXCEPT !.entries = @ + 1]
  IN IF counted.entries > limits.entries THEN Throw(counted) ELSE counted

Push(host, call, n) ==
  LET found == Append(host.found, n)
  IN [host EXCEPT !.found = found,
                  !.status = IF Len(found) >= call.results THEN "enough" ELSE "on"]

(* A file is one byte and has one line that matches.                            *)
Inspect(host, limits, call, n) ==
  IF host.bytes >= limits.bytes THEN Throw(host)
  ELSE Push([host EXCEPT !.bytes = @ + 1], call, n)

Matches(fs, call, n) == call.pattern = "all" \/ ~ IsDirectory(fs, RealPath(fs, n))
Visit(fs, host, limits, call, n) ==
  CASE call.tool = "find" /\ Matches(fs, call, n) -> Push(host, call, RealPath(fs, n))
    [] call.tool = "grep" /\ fs.kind[n] = "file" -> Inspect(host, limits, call, n)
    [] OTHER -> host

Shown(fs, n) == fs.label[n] # "skipped" /\ ~ Blocked(fs, n)

RECURSIVE Walk(_, _, _, _, _)
WalkEntry(fs, host, limits, call, n) ==
  LET scanned == ScanEntry(host, limits)
      visited == Visit(fs, scanned, limits, call, n)
  IN CASE host.status # "on" -> host
       [] host.status = "on" /\ (scanned.status # "on" \/ ~ Shown(fs, n)) -> scanned
       [] OTHER -> IF visited.status = "on" /\ IsDirectory(fs, RealPath(fs, n))
                   THEN Walk(fs, visited, limits, call, RealPath(fs, n))
                   ELSE visited
Walk(fs, host, limits, call, d) ==
  IF d \in host.visited THEN host
  ELSE FoldLeft(LAMBDA walked, n : WalkEntry(fs, walked, limits, call, n),
                [host EXCEPT !.visited = @ \cup {d}], Within(fs, d))

(* Mutant: the directories of the call before stay marked.                      *)
KeepVisited(host) == host
ClearVisited(host) == [host EXCEPT !.visited = {}]

WalkTool(fs, host, limits, call) ==
  LET start == RealPath(fs, call.path)
  IN CASE IsDirectory(fs, start) -> Walk(fs, ClearVisited(host), limits, call, start)
       [] ~ IsDirectory(fs, start) /\ call.tool = "grep" -> Inspect(host, limits, call, start)
       [] OTHER -> Throw(host)

ListEntry(fs, host, limits, call, n) ==
  LET scanned == ScanEntry(host, limits)
  IN CASE host.status # "on" -> host
       [] host.status = "on" /\ (scanned.status # "on" \/ Sensitive(fs, n)) -> scanned
       [] OTHER -> CASE RealPath(fs, n) = Missing -> Throw(scanned)
                     [] RealPath(fs, n) = Outside -> scanned
                     [] OTHER -> Push(scanned, call, n)
ListTool(fs, host, limits, call) ==
  LET start == RealPath(fs, call.path)
  IN IF ~ IsDirectory(fs, start) THEN Throw(host)
     ELSE FoldLeft(LAMBDA listed, n : ListEntry(fs, listed, limits, call, n),
                   host, Within(fs, start))

Invoke(fs, host, limits, call) ==
  LET called == [host EXCEPT !.calls = @ + 1, !.found = <<>>, !.status = "on"]
  IN IF called.calls > limits.calls \/ Blocked(fs, call.path) THEN Throw(called)
     ELSE IF call.tool = "ls" THEN ListTool(fs, called, limits, call)
     ELSE WalkTool(fs, called, limits, call)

------------------------------------------------------------------------------
(* read, on the bytes of a file: it scans chunk by chunk until it has seen the  *)
(* last line asked for, and answers those lines or throws.                      *)
LineFeeds(content) == Cardinality({i \in DOMAIN content : content[i] = "nl"})
EndLine(lines) ==       \* \r?\n
  LET line == Last(lines)
  IN Append(Append(Front(lines), IF IsSuffix(<<"cr">>, line) THEN Front(line) ELSE line), <<>>)
FileLines(content) ==
  FoldLeft(LAMBDA lines, byte : IF byte = "nl" THEN EndLine(lines)
                                ELSE Append(Front(lines), Append(Last(lines), byte)),
           <<<<>>>>, content)
LinesOf(content, first, last) ==
  LET lines == FileLines(content)
  IN IF first > Len(lines) THEN <<>>
     ELSE SubSeq(lines, first, IF last < Len(lines) THEN last ELSE Len(lines))

ContinueLineScan(position, size, budget, newlines, lastLine) ==
  position < size /\ position < budget /\ newlines < lastLine

RECURSIVE ScanLinePrefix(_, _, _, _, _)
ScanLinePrefix(content, position, lastLine, budget, chunk) ==
  LET prefix == SubSeq(content, 1, position)
      length == CHOOSE n \in {chunk, Len(content) - position, budget - position} :
                  n <= chunk /\ n <= Len(content) - position /\ n <= budget - position
  IN IF ContinueLineScan(position, Len(content), budget, LineFeeds(prefix), lastLine)
     THEN IF \E i \in position + 1 .. position + length : content[i] = "nul"
          THEN [scanned |-> position + length, failed |-> TRUE]
          ELSE ScanLinePrefix(content, position + length, lastLine, budget, chunk)
     ELSE [scanned |-> position,
           failed |-> position < Len(content) /\ LineFeeds(prefix) < lastLine]

Length(lines) == Len(FlattenSeq(lines)) + IF lines = <<>> THEN 0 ELSE Len(lines) - 1
ReadLineRange(content, offset, limit, budget, most, chunk) ==
  LET lastLine == offset + limit - 1
      scan == ScanLinePrefix(content, 0, lastLine, budget, chunk)
      lines == LinesOf(SubSeq(content, 1, scan.scanned), offset, lastLine)
  IN [failed |-> budget = 0 \/ scan.failed \/ Length(lines) > most,
      scanned |-> scan.scanned, lines |-> lines]

------------------------------------------------------------------------------
(* What the walks are for.  The directories to be listed are the smallest set   *)
(* with the start and every directory an entry shown in one of them leads to.   *)
ListedDirectories(fs, start) ==
  LET Closed(S) == /\ start \in S
                   /\ \A n \in Inodes :
                        (/\ fs.parent[n] \in S /\ Shown(fs, n)
                         /\ IsDirectory(fs, RealPath(fs, n))) => RealPath(fs, n) \in S
  IN {d \in Inodes \cup {Root} : \A S \in SUBSET (Inodes \cup {Root}) : Closed(S) => d \in S}
Expected(fs, call) ==
  LET listed == ListedDirectories(fs, RealPath(fs, call.path))
  IN {n \in Inodes :
        /\ fs.parent[n] \in listed /\ Shown(fs, n)
        /\ IF call.tool = "find" THEN Matches(fs, call, n) ELSE fs.kind[n] = "file"}
AnswerTo(fs, call, n) == IF call.tool = "find" THEN RealPath(fs, n) ELSE n

(* Bounds of the checks.  At most one entry has a label.                        *)
Targets == Inodes \cup {Root, Outside, Missing}
Kinds == ({"dir", "file"} \X {Root}) \cup ({"link"} \X Targets)
Parents == {parent \in [Inodes -> Inodes \cup {Root}] : \A n \in Inodes : parent[n] < n}
Layouts(parent) ==
  {kinds \in [Inodes -> Kinds] : \A n \in Inodes : parent[n] = Root \/ kinds[parent[n]][1] = "dir"}
Labels == {[n \in Inodes |-> IF n = m THEN label ELSE "plain"] :
             m \in Inodes, label \in {"plain", "skipped", "secret"}}
FileSystems ==
  UNION {{[parent |-> parent, label |-> label, kind |-> [n \in Inodes |-> kinds[n][1]],
           target |-> [n \in Inodes |-> kinds[n][2]]] : kinds \in Layouts(parent), label \in Labels} :
         parent \in Parents}
WalkCall(tool, pattern, results) ==
  [tool |-> tool, pattern |-> pattern, results |-> results, path |-> Root]
WalkCalls == {WalkCall("find", "all", 2), WalkCall("find", "files", 9), WalkCall("grep", "all", 9)}
LimitCalls == {WalkCall("grep", "all", 9), WalkCall("ls", "all", 2)}
Ample == [calls |-> 9, entries |-> 99, bytes |-> 99]
Tight == [calls |-> 2, entries |-> MaxInodes + 1, bytes |-> 1]

(* A walk returns every entry it should, once, and no other, as far as the      *)
(* number of results allows: links in circles, links to directories walked      *)
(* before or later, and links that lead nowhere neither stop it nor make it go  *)
(* round; and the next call finds the same (capabilities.ts:306-351, 385-430).  *)
WalkComplete ==
  \A fs \in FileSystems, call \in WalkCalls :
    LET answer == Invoke(fs, Fresh, Ample, call)
        expected == Expected(fs, call)
    IN /\ \A i \in DOMAIN answer.found :
            Cardinality({j \in DOMAIN answer.found : answer.found[j] = answer.found[i]})
              <= Cardinality({n \in expected : AnswerTo(fs, call, n) = answer.found[i]})
       /\ Len(answer.found) = IF Cardinality(expected) < call.results
                              THEN Cardinality(expected) ELSE call.results
       /\ answer.status # "thrown"
       /\ Invoke(fs, answer, Ample, call).found = answer.found

(* The limits hold over all calls together, and only a limit that has been      *)
(* reached or a link to nothing makes a call fail (capabilities.ts:174-237).    *)
LimitsShared ==
  \A fs \in FileSystems, call \in LimitCalls :
    LET answer == Invoke(fs, Fresh, Tight, call)
        last == Invoke(fs, answer, Tight, call)
    IN /\ last.bytes <= Tight.bytes /\ last.entries <= Tight.entries + 1
       /\ last.status = "thrown" =>
            \/ last.bytes = Tight.bytes \/ last.entries = Tight.entries + 1
            \/ call.tool = "ls" /\ \E n \in Inodes : RealPath(fs, n) = Missing

(* read answers whole lines, those asked for and no others, although it has     *)
(* read no further than it had to; it fails when the bytes that are left do not *)
(* reach the end of the last line, when it meets a zero byte, and when the      *)
(* answer is longer than allowed (capabilities.ts:239-290).                     *)
ReadExact ==
  \A content \in BoundedSeq({"x", "nl", "cr", "nul"}, 4), offset \in 1 .. 2,
     limit \in 1 .. 2, budget \in 0 .. 4, chunk \in {1, 3} :
    LET most == 2
        last == offset + limit - 1
        range == ReadLineRange(content, offset, limit, budget, most, chunk)
        wanted == LinesOf(content, offset, last)
        reached == Len(content) <= budget
                   \/ LineFeeds(SubSeq(content, 1, budget)) >= last
        binary == \E i \in 1 .. range.scanned : content[i] = "nul"
    IN /\ range.scanned <= budget
       /\ ~ range.failed => range.lines = wanted
       /\ range.failed <=> budget = 0 \/ ~ reached \/ binary \/ Length(wanted) > most
==============================================================================
