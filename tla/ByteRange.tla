----------------------------- MODULE ByteRange -----------------------------
(***************************************************************************)
(* What the value of a Range header selects of a representation of `total` *)
(* bytes (core/range.mbt): a pure function, with the integers' width kept. *)
(* Blanks are trimmed in the code and left out here.                       *)
(***************************************************************************)
EXTENDS Integers, Sequences, SequencesExt

CONSTANT Width   \* of Int64: 64

\* A character is the value of its digit, or NotDigit.
NotDigit == 10

\* Two's complement, as the code's integers have it.
Wrap(n) == ((n + 2^(Width - 1)) % 2^Width) - 2^(Width - 1)

\* Some(n) or None. The comment in the code says "non-negative"; there is no test of overflow.
parse_i64_strict(s) ==
  [some |-> s # <<>> /\ \A i \in DOMAIN s : s[i] # NotDigit,
   n |-> FoldLeft(LAMBDA n, d : Wrap(n * 10 + d), 0, s)]

Satisfiable(start, end) == [kind |-> "Satisfiable", start |-> start, end |-> end]
NotSatisfiable == [kind |-> "NotSatisfiable", start |-> 0, end |-> 0]
NotApplicable == [kind |-> "NotApplicable", start |-> 0, end |-> 0]

\* "-len"
Suffix(last, size) ==
  IF ~last.some \/ last.n <= 0 THEN NotSatisfiable
  ELSE Satisfiable(IF last.n >= size THEN 0 ELSE size - last.n, size - 1)

\* "start-" (open) and "start-end"
Positions(first, open, last, size) ==
  IF ~first.some \/ first.n < 0 \/ first.n >= size THEN NotSatisfiable
  ELSE IF open THEN Satisfiable(first.n, size - 1)
  ELSE IF ~last.some \/ last.n < first.n THEN NotSatisfiable
  ELSE Satisfiable(first.n, IF last.n >= size THEN size - 1 ELSE last.n)

\* A header's value s: with "bytes=", without a unit or with another one; the text before and
\* after its first dash, if it has one.
parse_range_spec(s, size) ==
  LET first == parse_i64_strict(s.first)
      last == parse_i64_strict(s.last)
  IN IF s.unit = "other" THEN NotApplicable
     ELSE IF size <= 0 THEN NotSatisfiable
     ELSE IF ~s.dash THEN NotApplicable
     ELSE IF s.first = <<>> THEN Suffix(last, size)
     ELSE Positions(first, s.last = <<>>, last, size)
=============================================================================
