--------------------------- MODULE WorkflowParser ---------------------------
(***************************************************************************)
(* verify_ci_workflow.py: a parser for the small part of YAML the workflow *)
(* is written in, and the comparison of what it yields with the reviewed   *)
(* workflow.                                                               *)
(*                                                                         *)
(* A line is a record: its indentation, whether it starts with "- ", the   *)
(* key before its first colon ("" if there is none), that colon with the   *)
(* space after it if there is one, and the rest.  A mapping takes both     *)
(* colons for the same; a literal block keeps the line as it is.           *)
(***************************************************************************)
EXTENDS Integers, Sequences
LOCAL INSTANCE Functions

CONSTANTS
    ScalarOf,       \* the value each accepted spelling of a scalar stands for
    Unreadable,     \* texts with a tab, a comment, an anchor, a trailing blank ...
    UnsafeCommands, \* lines a run value may not have
    Workflow,       \* the reviewed workflow, as _expected_workflow gives it
    MaxLines,       \* MAX_WORKFLOW_LINES
    Mutations       \* the changes of _negative_self_test

\* What a line may be.
WorkflowLine ==
    [indent : Nat, dash : BOOLEAN, key : STRING, colon : {"", ":", ": "}, value : STRING]

Literal == {"|", "|-", "|+"}
Folded == {">", ">-", ">+"}

\* Trees: the mapping in the order of its keys, the list, the literal block, the
\* scalar.
Map(entries) == [map |-> entries]
List(items) == [list |-> items]
Text(lines) == [text |-> lines]
Scalar(value) == [scalar |-> value]

Blank == [indent |-> 0, dash |-> FALSE, key |-> "", colon |-> "", value |-> ""]
Content(line) == [line EXCEPT !.indent = 0]

\* What is left when the blank lines are skipped.
Lines(text) ==
    LET kept[i \in 0..Len(text)] ==
            IF i = 0 THEN <<>>
            ELSE IF Content(text[i]) = Blank THEN kept[i - 1]
            ELSE Append(kept[i - 1], text[i])
    IN  kept[Len(text)]

\* The tests of _Parser.__init__.
Readable(text) ==
    /\ Len(text) <= MaxLines
    /\ Lines(text) # <<>>
    /\ \A line \in Range(text) :
          /\ line.value \notin Unreadable /\ line.indent % 2 = 0
          /\ line.colon = ": " => line.value # ""
          /\ Content(line) = Blank => line = Blank

-----------------------------------------------------------------------------
\* Parsing ends here, or is done up to the line before `next`.
Stop == [ok |-> FALSE, tree |-> Map(<<>>), next |-> 0]
Done(tree, next) == [ok |-> TRUE, tree |-> tree, next |-> next]

Fresh(key, entries) == \A i \in DOMAIN entries : entries[i][1] # key

(***************************************************************************)
(* _block, _map and _list.  A block is entered at the indentation of its   *)
(* first line, and is a list if that starts with "- "; so `block`, what    *)
(* they make of the lines from i on, needs no other argument than i.  The  *)
(* rest of a mapping or of a list is parsed before its first entry is put  *)
(* in front of it.                                                         *)
(***************************************************************************)
Deeper(lines, i, j) == j <= Len(lines) /\ lines[j].indent > lines[i].indent

\* The block that line i is of goes on at line j.
GoesOn(lines, i, j) ==
    j <= Len(lines) /\ lines[j].indent = lines[i].indent /\ lines[j].dash = lines[i].dash

\* The first line after i that is not deeper.
EndOf(lines, i) ==
    CHOOSE j \in (i + 1)..(Len(lines) + 1) :
        ~Deeper(lines, i, j) /\ \A k \in (i + 1)..(j - 1) : Deeper(lines, i, k)

TextAt(lines, i) ==
    LET end == EndOf(lines, i) IN
    IF \A k \in (i + 1)..(end - 1) : lines[k].indent = lines[i].indent + 2
      THEN Done(Text([k \in 1..(end - i - 1) |-> Content(lines[i + k])]), end)
      ELSE Stop

ScalarAt(lines, i) ==
    IF lines[i].value \in DOMAIN ScalarOf THEN Done(Scalar(ScalarOf[lines[i].value]), i + 1)
                                          ELSE Stop

\* The value of the key on line i.
ValueAt(lines, block, i) ==
    LET line == lines[i] IN
    IF line.key = "" \/ line.value \in Folded \/ (line.dash /\ line.value \in Literal) THEN Stop
    ELSE IF line.value \in Literal THEN TextAt(lines, i)
    ELSE IF line.value # "" THEN ScalarAt(lines, i)
    ELSE IF Deeper(lines, i, i + 1) THEN block[i + 1]
    ELSE Done(Map(<<>>), i + 1)

\* The other keys of the list item on line i.
BelowAt(lines, block, i) ==
    LET next == ValueAt(lines, block, i).next IN
    IF lines[i].dash /\ Deeper(lines, i, next) /\ ~lines[next].dash
      THEN block[next] ELSE Done(Map(<<>>), next)

\* What the block that line i is of has after that.
RestAt(lines, block, i) ==
    LET next == BelowAt(lines, block, i).next IN
    IF GoesOn(lines, i, next) THEN block[next]
    ELSE Done(IF lines[i].dash THEN List(<<>>) ELSE Map(<<>>), next)

BlockAt(lines, block, i) ==
    LET value == ValueAt(lines, block, i)
        below == BelowAt(lines, block, i)
        rest == RestAt(lines, block, i)
        key == lines[i].key
        Put(entries) == << <<key, value.tree>> >> \o entries
    IN  IF ~value.ok \/ ~below.ok \/ ~rest.ok THEN Stop
        ELSE IF lines[i].dash
          THEN IF Fresh(key, below.tree.map)
                 THEN Done(List(<<Map(Put(below.tree.map))>> \o rest.tree.list), rest.next)
                 ELSE Stop
          ELSE IF Fresh(key, rest.tree.map)
                 THEN Done(Map(Put(rest.tree.map)), rest.next)
                 ELSE Stop

Parse(lines) ==
    LET block[i \in DOMAIN lines] == BlockAt(lines, block, i)
    IN  block[1]

\* Lines that are left over are ignored.
CompleteAnyhow(parsed, lines) == parsed.ok

\* "workflow contains an unparsed line"
Complete(parsed, lines) == parsed.ok /\ parsed.next = Len(lines) + 1

-----------------------------------------------------------------------------
\* _verify_run_lines: every literal block of the tree.
RunLinesSafe(tree) ==
    LET Children(t) == CASE DOMAIN t = {"map"} -> {entry[2] : entry \in Range(t.map)}
                         [] DOMAIN t = {"list"} -> Range(t.list)
                         [] OTHER -> {}
        at[depth \in 0..MaxLines] ==
            IF depth = 0 THEN {tree} ELSE UNION {Children(t) : t \in at[depth - 1]}
    IN  \A depth \in 0..MaxLines : \A t \in at[depth] :
            DOMAIN t = {"text"} => t.text # <<>> /\ Range(t.text) \cap UnsafeCommands = {}

\* _assert_exact: the keys in their order, the items in theirs, the values with
\* their types.
Exact(text) ==
    /\ Readable(text)
    /\ LET parsed == Parse(Lines(text)) IN
        Complete(parsed, Lines(text)) /\ parsed.tree = Workflow /\ RunLinesSafe(parsed.tree)

\* text.replace(old, new, 1): the first line that reads so, colon and all, makes
\* place for others.  A deleted line leaves its indentation to the line after it.
Replace(text, mutation) ==
    LET found == {i \in DOMAIN text :
                    <<text[i].key, text[i].colon, text[i].value>> \in mutation.old}
        i == CHOOSE j \in found : \A k \in found : j <= k
        first == IF mutation.new = <<>> THEN <<>>
                 ELSE <<[mutation.new[1] EXCEPT !.indent = text[i].indent,
                                                !.dash = text[i].dash]>>
        after == IF mutation.new = <<>> /\ i < Len(text)
                   THEN <<[text[i + 1] EXCEPT !.indent = @ + text[i].indent]>>
                        \o SubSeq(text, i + 2, Len(text))
                   ELSE SubSeq(text, i + 1, Len(text))
    IN  IF found = {} THEN text
        ELSE SubSeq(text, 1, i - 1) \o first
             \o (IF mutation.new = <<>> THEN <<>> ELSE Tail(mutation.new)) \o after

\* verify_workflow: the text is exact, and no mutation of it is.
WorkflowAccepted(text) ==
    Exact(text) /\ \A mutation \in Mutations : ~Exact(Replace(text, mutation))

-----------------------------------------------------------------------------
(* What the parser may accept, said without one *)

\* The line each line is below: the last one before it that is indented less.
ParentOf(lines, i) ==
    LET outer == {j \in 1..(i - 1) : lines[j].indent < lines[i].indent}
    IN  IF outer = {} THEN 0 ELSE CHOOSE j \in outer : \A k \in outer : k <= j

\* Two spellings of the same value.
SameValue(v, w) ==
    \/ v = w
    \/ {v, w} \subseteq Literal
    \/ v \in DOMAIN ScalarOf /\ w \in DOMAIN ScalarOf /\ ScalarOf[v] = ScalarOf[w]

\* Line by line the same key, value and parent; inside a literal block every
\* character counts.
SameWorkflow(text, reviewed) ==
    LET a == Lines(text)
        b == Lines(reviewed)
    IN  /\ Len(a) = Len(b)
        /\ \A i \in DOMAIN a :
             /\ a[i].dash = b[i].dash /\ a[i].key = b[i].key
             /\ SameValue(a[i].value, b[i].value)
             /\ ParentOf(a, i) = ParentOf(b, i)
             /\ ParentOf(a, i) # 0 /\ b[ParentOf(a, i)].value \in Literal
                   => Content(a[i]) = Content(b[i])
=============================================================================
