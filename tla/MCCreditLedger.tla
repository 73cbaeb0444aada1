--------------------------- MODULE MCCreditLedger ---------------------------
(* Bounds for model-checking CreditLedger.                                 *)
EXTENDS CreditLedger, TLC

\* Settlers run the same code; operator keys and references are opaque.
MCSymmetry ==
    Permutations(Settlers) \cup Permutations(OperatorKeys)
        \cup Permutations(References)

=============================================================================
