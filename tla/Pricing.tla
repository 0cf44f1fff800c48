--------------------------------- MODULE Pricing ---------------------------------
(***************************************************************************)
(* What a workload costs and what its jobs earn, in micro-dollars: the     *)
(* rate card, QuoteJob, EstimateWorkload and QuoteWorkload.  What the code *)
(* computes in floating point is computed here exactly, and rounded and    *)
(* truncated where the code rounds and truncates; the multiplier of the    *)
(* rate card is a percentage.                                              *)
(***************************************************************************)
EXTENDS Integers

CONSTANT MaxTokens    \* 1 << 40 in the code

\* Ten thousand micro-dollars per million tokens, or a hundredth of one for a token.
RateIn(class) == CASE class = "MICRO" -> 2
                   [] class = "MEDIUM" -> 15
                   [] class = "LARGE" -> 40
                   [] class \in {"XL", "CONFIDENTIAL_GPU"} -> 90
                   [] OTHER -> 5     \* SMALL, and a class that is not on the card

\* Tokens that are produced cost four times those that are read.
RateOut(class) == 4 * RateIn(class)

\* Tenths.
TierMultiplier(tier) == CASE tier = "device_attested" -> 14
                          [] tier = "confidential" -> 30
                          [] OTHER -> 10
RevShare(tier) == IF tier = "confidential" THEN 6 ELSE 7

\* QuoteJob: what prompt and completion tokens are worth, in ten-thousandths of a
\* micro-dollar, rounded to a whole one; percent is the price multiplier.
Worth(class, prompt, completion, percent) ==
  percent * (prompt * RateIn(class) + completion * RateOut(class))

GrossOf(worth, tier) == (((worth + 5000) \div 10000) * TierMultiplier(tier)) \div 10

\* ... and the provider's share of it, rounded.
AccrualOf(worth, tier) == (GrossOf(worth, tier) * RevShare(tier) + 5) \div 10

Accrual(class, tier, prompt, completion, percent) ==
  AccrualOf(Worth(class, prompt, completion, percent), tier)

DefaultCompletionTokens == 512
MinWorkloadMicros == 10000
MaxItems == 5000
MaxRedundancy == 3

\* EstimateWorkload: the tokens of a workload of items alike.
PromptOf(w) == IF w.prompt < 0 THEN 0 ELSE w.prompt
CompletionOf(w) == IF w.completion <= 0 THEN DefaultCompletionTokens ELSE w.completion

Estimate(w) ==
  [items |-> w.items,
   prompt |-> w.items * PromptOf(w),
   completion |-> w.items * CompletionOf(w)]

\* QuoteWorkload, from what providers earn up: compute, coordination, failure,
\* margin and payment.
Clamped(tokens) == CASE tokens > MaxTokens -> MaxTokens
                     [] tokens < 0 -> 0
                     [] OTHER -> tokens

Compute(w, percent) ==
  Accrual(w.class, w.tier, Clamped(Estimate(w).prompt * w.redundancy),
          Clamped(Estimate(w).completion * w.redundancy), percent)

Coordination(compute) == (compute * 15) \div 100
Failure(compute, redundancy) == (compute * 8) \div (100 * redundancy)
Margin(costs, marginPct) == (costs * marginPct) \div 100
Payment(subtotal) == (subtotal * 3) \div 100

Costs(compute, redundancy) == compute + Coordination(compute) + Failure(compute, redundancy)
Subtotal(compute, redundancy, marginPct) ==
  Costs(compute, redundancy) + Margin(Costs(compute, redundancy), marginPct)

TotalOf(compute, redundancy, marginPct) ==
  LET subtotal == Subtotal(compute, redundancy, marginPct)
      total == subtotal + Payment(subtotal)
  IN IF total < MinWorkloadMicros THEN MinWorkloadMicros ELSE total

QuoteWorkload(w, percent, marginPct) ==
  TotalOf(Compute(w, percent), w.redundancy, marginPct)
=============================================================================
