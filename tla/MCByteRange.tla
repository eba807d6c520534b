---------------------------- MODULE MCByteRange ----------------------------
(* parse_range_spec on every header of a few characters, with 6-bit integers. *)
EXTENDS ByteRange

CONSTANTS Digits,   \* the characters tried
          MaxDigits,\* the longest position tried (no such bound in the code)
          Totals    \* the sizes tried

VARIABLES spec, total, result
vars == <<spec, total, result>>

Specs == [unit : {"bytes", "bare", "other"}, dash : BOOLEAN,
          first : BoundedSeq(Digits, MaxDigits), last : BoundedSeq(Digits, MaxDigits)]

Init == spec \in Specs /\ total \in Totals /\ result = NotApplicable
Next == result' = parse_range_spec(spec, total) /\ UNCHANGED <<spec, total>>
Spec == Init /\ [][Next]_vars

-----------------------------------------------------------------------------
(* Properties                                                               *)

\* The number a text denotes.
Value(s) == FoldLeft(LAMBDA n, d : n * 10 + d, 0, s)

\* "Large numbers / overflow resistance" (core/security_auth_range_test.mbt): a range that starts
\* behind the end of the representation is not satisfiable, however large the number.
OverflowResistant ==
  result.kind = "Satisfiable" /\ spec.first # <<>> => Value(spec.first) < total
=============================================================================
