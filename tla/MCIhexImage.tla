---------------------------- MODULE MCIhexImage -----------------------------
(***************************************************************************)
(* The Intel HEX files of the model-checking runs.                         *)
(***************************************************************************)
EXTENDS IhexImage

Data(a, n) == [type |-> "data", addr |-> a, count |-> n]
Base(a)    == [type |-> "base", addr |-> a, count |-> 0]
Start      == [type |-> "start", addr |-> 0, count |-> 0]
Segment    == [type |-> "segment", addr |-> 0, count |-> 0]
Eof        == [type |-> "eof", addr |-> 0, count |-> 0]

\* Contiguous lines, a jump past the base of another region, to a page that is
\* not complete, and the end.
PagesAndJump == <<Data(0, 2), Data(2, 2), Data(4, 2), Base(4), Data(4, 2),
                  Data(6, 2), Start, Eof>>

\* A line that may find no room, an empty one, and a record that is refused.
Refused == <<Data(0, 4), Data(4, 6), Data(10, 4), Data(14, 0), Segment, Eof, Eof, Eof>>

\* Two address ranges, both of which start at offset 0.
TwoBases == <<Data(0, 4), Base(8), Data(0, 4), Eof>>

\* A page cut short by a jump, and enough pages after it to reach the end of the
\* decoded buffer.
ShortPage == <<Data(0, 2), Data(4, 4), Data(8, 4), Data(12, 4), Data(16, 4), Eof>>

\* Lines that fill the decoded buffer while its first page is written.
LongLines == <<Data(0, 2), Data(2, 2), Data(4, 7), Data(11, 5), Eof>>

\* A jump to an address that is not the beginning of a page.
Misplaced == <<Data(0, 2), Data(6, 2), Data(8, 4), Eof, Eof, Eof, Eof, Eof>>

RunFiles == {PagesAndJump, Refused, Misplaced}

BaseFiles  == {TwoBases}
ShortFiles == {ShortPage}
LongFiles  == {LongLines}
=============================================================================
