----------------------------- MODULE PacketBudget ----------------------------
(***************************************************************************)
(* _finalize_synthesis_review_packet of frontier.py.  A review packet says *)
(* how many bytes it has when serialized, and has a digest of itself: both *)
(* are part of what is counted.  The loop writes the size in, seals the    *)
(* packet and looks whether it still has that size, at most ten times.     *)
(***************************************************************************)
EXTENDS Naturals

CONSTANT Weights  \* bytes of everything but the counters and the warnings

ASSUME BudgetAssumption == Weights \subseteq Nat

VARIABLES
    weight,   \* of the packet
    bytes,    \* serialized_bytes as written in the packet
    tokens,   \* estimated_tokens as written
    warned,   \* budget_warnings as written
    sealed,   \* what the digest is of, or <<>>
    attempt,
    finished

budgetVars == <<weight, bytes, tokens, warned, sealed, attempt, finished>>

TargetBytes == 204800
HardBytes == 307200
TargetTokens == 50000
MaxAttempts == 10

Warnings == {"serialized_bytes_exceeds_target_bytes", "estimated_tokens_exceeds_target"}

Digits(n) ==
    LET of[k \in 0 .. n] == IF k < 10 THEN 1 ELSE 1 + of[k \div 10]
    IN  of[n]

(* Two quoted strings and a comma in the canonical JSON.                   *)
Width(S) ==
    (IF "serialized_bytes_exceeds_target_bytes" \in S THEN 39 ELSE 0)
      + (IF "estimated_tokens_exceeds_target" \in S THEN 33 ELSE 0)
      + (IF S = Warnings THEN 1 ELSE 0)

Serialized(w, b, t, S) == w + Digits(b) + Digits(t) + Width(S)

Estimated(b) == (b + 3) \div 4

WarningsOf(b, t) ==
    {x \in Warnings : \/ x = "serialized_bytes_exceeds_target_bytes" /\ b > TargetBytes
                      \/ x = "estimated_tokens_exceeds_target" /\ t > TargetTokens}

BudgetInit ==
    /\ weight \in Weights
    /\ bytes = 0 /\ tokens = 0 /\ warned = {} /\ sealed = <<>>
    /\ attempt = 0
    /\ finished = FALSE

(* Mutant.  One pass has to do.                                            *)
FixpointAtOnce(b, t, S, seal) == TRUE

(* The packet is returned when it is what its digest is of, and still has  *)
(* the size it says.                                                       *)
Fixpoint(b, t, S, seal) == seal = <<b, t, S>> /\ b = Serialized(weight, b, t, S)

Attempt ==
    LET b == Serialized(weight, bytes, tokens, warned)
        t == Estimated(b)
        S == WarningsOf(b, t)
    IN  /\ ~finished
        /\ bytes' = b /\ tokens' = t /\ warned' = S
        /\ attempt' = attempt + 1
        /\ finished' = (Fixpoint(b, t, S, sealed) \/ attempt + 1 = MaxAttempts)
        /\ sealed' = <<b, t, S>>
        /\ UNCHANGED weight

BudgetSpec == BudgetInit /\ [][Attempt]_budgetVars

-----------------------------------------------------------------------------
(* budget and size checks of the packet validator.                         *)
BudgetIsAccepted ==
    /\ bytes <= HardBytes
    /\ warned = WarningsOf(bytes, tokens)
    /\ bytes = Serialized(weight, bytes, tokens, warned)
    /\ sealed = <<bytes, tokens, warned>>

(* Whatever is in it, a packet that is not too large says its exact size   *)
(* and carries exactly the warnings that size deserves: the loop settles   *)
(* before it runs out of attempts, though each number it writes may make   *)
(* the packet longer, and the packet may cross the target by the warning.  *)
BudgetIsExact ==
    finished => BudgetIsAccepted \/ bytes > HardBytes
=============================================================================
