------------------------------- MODULE KisRows -------------------------------
(***************************************************************************)
(* How one row of KIS's order listing is read (parse_order_status of       *)
(* broker/kis_order_status.py).  An order of ord shares has ccld traded,   *)
(* cncl cancelled, rjct rejected and rmn still working; the program        *)
(* cancels all that is left, so a cancelled order has nothing working.     *)
(* Any field may be missing from a row, or hold text that is no number.    *)
(* A row may also carry a status word, taken here as the status the table  *)
(* of _parse_status gives it, and a flag that says it was rejected; no     *)
(* word, and a word that is not in the table, are NoWord.                  *)
(***************************************************************************)
EXTENDS Integers

CONSTANT MaxShares

ASSUME MaxSharesAssumption == MaxShares \in Nat \ {0}

Fields == {"ord", "ccld", "cncl", "rjct", "rmn"}
NoWord == "none"
Words == {NoWord, "FILLED", "PARTIALLY_FILLED", "CANCELLED", "REJECTED"}

\* The rows KIS can hold (external).
Rows ==
    {row \in [Fields -> 0..MaxShares] :
        /\ row.ord > 0
        /\ row.ccld + row.cncl + row.rjct + row.rmn = row.ord
        /\ row.cncl > 0 => row.rmn = 0 /\ row.rjct = 0
        /\ row.rjct > 0 => row.rjct = row.ord}

\* _int_value: nothing, or no number, reads as 0.
IntValue(row, f, missing, garbled) ==
    IF f \in missing \cup garbled THEN 0 ELSE row[f]

\* The remaining quantity: worked out when the field is missing.
Remaining(row, missing, garbled) ==
    LET left == IntValue(row, "ord", missing, garbled)
                  - IntValue(row, "ccld", missing, garbled)
    IN  IF "rmn" \in missing
        THEN IF left > 0 THEN left ELSE 0
        ELSE IntValue(row, "rmn", missing, garbled)

\* Mutant of ParseStatus: an order of no known size can be filled.
ParseStatusAnySize(word, flag, ordered, filled, remaining, cancelled, rejected) ==
    IF word # NoWord THEN word
    ELSE IF rejected > 0 \/ flag THEN "REJECTED"
    ELSE IF cancelled > 0 /\ remaining = 0 THEN "CANCELLED"
    ELSE IF filled > 0 /\ filled >= ordered /\ remaining = 0 THEN "FILLED"
    ELSE IF filled > 0 THEN "PARTIALLY_FILLED"
    ELSE IF remaining > 0 \/ ordered > 0 THEN "UNFILLED" ELSE "UNKNOWN"

\* _parse_status: the row's own word first, whatever the quantities are.
ParseStatus(word, flag, ordered, filled, remaining, cancelled, rejected) ==
    IF word # NoWord THEN word
    ELSE IF rejected > 0 \/ flag THEN "REJECTED"
    ELSE IF cancelled > 0 /\ remaining = 0 THEN "CANCELLED"
    ELSE IF ordered > 0 /\ filled >= ordered /\ remaining = 0 THEN "FILLED"
    ELSE IF filled > 0 THEN "PARTIALLY_FILLED"
    ELSE IF remaining > 0 \/ ordered > 0 THEN "UNFILLED" ELSE "UNKNOWN"

\* parse_order_status: a row that is not named, that is without an order number
\* or a symbol of six digits, is left out of the listing.
StatusOf(row, missing, garbled, word, flag, named) ==
    IF ~named THEN "IGNORED"
    ELSE ParseStatus(word, flag,
                     IntValue(row, "ord", missing, garbled),
                     IntValue(row, "ccld", missing, garbled),
                     Remaining(row, missing, garbled),
                     IntValue(row, "cncl", missing, garbled),
                     IntValue(row, "rjct", missing, garbled))

\* What became of the order, for a row with all its fields.
Meant(row) ==
    CASE row.rjct > 0 -> "REJECTED"
      [] row.cncl > 0 -> "CANCELLED"
      [] row.ccld = row.ord -> "FILLED"
      [] row.rmn \in 1..(row.ord - 1) -> "PARTIALLY_FILLED"
      [] row.rmn = row.ord -> "UNFILLED"
=============================================================================
