--------------------------- MODULE MarkdownSplit ---------------------------
(***************************************************************************)
(* SplitMarkdown of internal/rag/chunk.go up to the paragraphs that        *)
(* Chunking cuts: the lines of a document are gathered into sections, one  *)
(* per heading, and a section is split where a line is empty.  A line is   *)
(* its number, and what matters of it is its kind; a stretch of lines is   *)
(* <<first, last>>.                                                        *)
(***************************************************************************)
EXTENDS Integers, Sequences, FiniteSetsExt

\* A line of white space, also a lone carriage return, is not an empty one:
\* no "\n\n" is there to split at.
Kind == {"heading", "text", "empty", "spaces"}

HasText(content, line) == content[line] \in {"heading", "text"}

(* nonEmpty for one part: TrimSpace takes the blank lines from its ends.   *)
NonEmpty(content, first, last) ==
  LET kept == {line \in first .. last : HasText(content, line)}
  IN IF kept = {} THEN <<>> ELSE << <<Min(kept), Max(kept)>> >>

(* One pass of splitByHeading: a heading closes the section before it.     *)
ReadLine(content, loop) ==
  LET line == loop.line + 1
      closes == content[line] = "heading" /\ loop.first < line
  IN [line |-> line,
      first |-> IF closes THEN line ELSE loop.first,
      sections |-> IF closes THEN loop.sections \o NonEmpty(content, loop.first, loop.line)
                   ELSE loop.sections,
      out |-> loop.out]

(* The section that the last line ends.                                    *)
CloseLast(content, loop) ==
  [loop EXCEPT !.first = Len(content) + 1,
               !.sections = @ \o NonEmpty(content, loop.first, Len(content))]

EmptyLines(content, section) == {line \in section[1] .. section[2] : content[line] = "empty"}

(* splitParagraphs: the part up to the first empty line of a section, for  *)
(* strings.Split cuts there, and the rest of it.                           *)
SplitPart(content, loop) ==
  LET section == Head(loop.sections)
      cuts == EmptyLines(content, section)
  IN IF cuts = {}
     THEN [loop EXCEPT !.sections = Tail(@),
                       !.out = @ \o NonEmpty(content, section[1], section[2])]
     ELSE [loop EXCEPT !.sections = << <<Min(cuts) + 1, section[2]>> >> \o Tail(@),
                       !.out = @ \o NonEmpty(content, section[1], Min(cuts) - 1)]
=============================================================================
