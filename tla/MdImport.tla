------------------------------ MODULE MdImport ------------------------------
(***************************************************************************)
(* parse_markdown_faq, which turns an imported file into knowledge items.  *)
(* A document is the sequence of its lines; of a line only what the two    *)
(* regular expressions tell apart matters.  An item is the number of its   *)
(* title's line and the numbers of the lines of its content.  Documents    *)
(* grow by one line per step, so that every short one is reached.          *)
(***************************************************************************)
EXTENDS Integers, Sequences, FiniteSetsExt

CONSTANTS Level,    \* Level[l]: the level of heading l, by its number of #
          MaxLines  \* bound: lines of a document

VARIABLE doc        \* the lines

Fence == {"backticks", "tildes"}              \* _FENCE

\* A line that _HEADING matches is of a level, one that _FENCE does is no heading.
ASSUME LevelAssumption ==
    /\ Level \in [DOMAIN Level -> Nat]
    /\ DOMAIN Level \cap (Fence \cup {"text", "blank"}) = {}

ASSUME MaxLinesAssumption == MaxLines \in Nat

Line == DOMAIN Level \cup Fence \cup {"text", "blank"}
-----------------------------------------------------------------------------
(* The parser                                                              *)

\* Fault: only the backtick fence is known.
FencedByBackticks(d) ==
    LET inFence[i \in 0..Len(d)] == i > 0 /\ ((d[i] = "backticks") # inFence[i - 1])
    IN  inFence

\* Fenced(d)[i]: in_fence after line i; every fence flips it.
Fenced(d) ==
    LET inFence[i \in 0..Len(d)] == i > 0 /\ ((d[i] \in Fence) # inFence[i - 1])
    IN  inFence

\* The headings outside fences, by line number.
Headings(d) == {i \in DOMAIN d : d[i] \in DOMAIN Level /\ ~Fenced(d)[i]}

SplitLevel(d) == Min({Level[d[i]] : i \in Headings(d)})

Anchors(d) == {i \in Headings(d) : Level[d[i]] = SplitLevel(d)}

\* Fault: an entry goes on to the end of the file.
EndOfFile(d, i) == Len(d) + 1

\* The line after the last one of the entry of anchor i.
End(d, i) == Min({j \in Anchors(d) : j > i} \cup {Len(d) + 1})

\* strip(): no blank lines at either end.
Strip(d, S) ==
    LET filled == {i \in S : d[i] # "blank"}
    IN  {i \in S : \E j, k \in filled : j <= i /\ i <= k}

\* Fault: an entry ends at any heading.
BodyToNextHeading(d, i) ==
    Strip(d, (i + 1)..(Min({j \in Headings(d) : j > i} \cup {Len(d) + 1}) - 1))

Body(d, i) == Strip(d, (i + 1)..(End(d, i) - 1))

Items(d) == {[title |-> i, content |-> Body(d, i)] :
                 i \in {j \in Anchors(d) : Body(d, j) # {}}}
-----------------------------------------------------------------------------
Init == doc = << >>

AddLine(l) == Len(doc) < MaxLines /\ doc' = Append(doc, l)

Next == \E l \in Line : AddLine(l)

Spec == Init /\ [][Next]_doc
-----------------------------------------------------------------------------
(* What Markdown calls a code block: from a fence to the next fence of the *)
(* same kind, or to the end.                                               *)

IsBlock(d, b, e) ==
    /\ d[b] \in Fence
    /\ \A i \in (b + 1)..(e - 1) : d[i] # d[b]
    /\ e <= Len(d) => d[e] = d[b]

\* The first lines of the blocks: a fence that no earlier block holds.
Opens(d) ==
    LET open[i \in 1..Len(d)] ==
            /\ d[i] \in Fence
            /\ \A b \in 1..(i - 1) : open[b] =>
                   \E e \in (b + 1)..(i - 1) : IsBlock(d, b, e)
    IN  {i \in DOMAIN d : open[i]}

InCode(d, i) ==
    \E b \in Opens(d) : \E e \in (b + 1)..(Len(d) + 1) : IsBlock(d, b, e) /\ b < i /\ i < e

\* No block holds a fence of the other kind.
Unmixed(d) == \A i \in DOMAIN d : d[i] \in Fence => ~InCode(d, i)

Counts(d, i) == d[i] \in DOMAIN Level /\ ~InCode(d, i)

\* Splits(d, i): a heading outside code that no other one outranks.
Splits(d, i) ==
    Counts(d, i) /\ \A j \in DOMAIN d : Counts(d, j) => Level[d[i]] <= Level[d[j]]

\* The text c from title t to the next title of its rank, less the blank lines
\* around it.
IsEntry(d, t, c) ==
    /\ Splits(d, t)
    /\ c = Min(c)..Max(c)
    /\ t < Min(c) /\ d[Min(c)] # "blank" /\ d[Max(c)] # "blank"
    /\ \A i \in (t + 1)..Max(c) : ~Splits(d, i)
    /\ \A i \in DOMAIN d : i > t /\ i \notin c /\ d[i] # "blank"
           => \E j \in (t + 1)..i : Splits(d, j)
    /\ \A i \in (t + 1)..(Min(c) - 1) : d[i] = "blank"

\* The entries that have a title and some text.
Entries(d) ==
    {item \in [title : DOMAIN d, content : (SUBSET DOMAIN d) \ {{}}] :
         IsEntry(d, item.title, item.content)}

\* The items are the entries; a # in a code block is no title (md_import.py 3-6).
\* Stated for the items and not for the way to find them, and not for documents
\* with one kind of fence inside the other, which the parser cuts elsewhere.
ItemsAreEntries == Unmixed(doc) => Items(doc) = Entries(doc)

\* Whatever the fences, no text is lost or imported twice: what follows the
\* first title is part of exactly one item, but for titles without content.
NothingLost ==
    \A i \in DOMAIN doc :
        doc[i] # "blank" /\ (\E a \in Anchors(doc) : a <= i) =>
            \/ Cardinality({item \in Items(doc) : i = item.title \/ i \in item.content}) = 1
            \/ i \in Anchors(doc) /\ \A item \in Items(doc) : i # item.title
                                                        /\ i \notin item.content

\* A file that grows at its end yields the items it yielded before, the last
\* one apart, unless the new line is a title of a higher rank than all so far.
EarlierItemsStay ==
    [][Headings(doc) # {} /\ SplitLevel(doc') = SplitLevel(doc) =>
           \A item \in Items(doc) : item.title # Max(Anchors(doc)) => item \in Items(doc')]_doc
=============================================================================
