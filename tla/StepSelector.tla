---------------------------- MODULE StepSelector ----------------------------
(***************************************************************************)
(* PickRandomWeighted, which chooses the next step of a flow.  A weight is *)
(* an integer: the configured fractions times a common denominator.  The   *)
(* draw is an integer too; between two integers nothing changes, since the *)
(* bounds of the items are sums of weights.                                *)
(***************************************************************************)
EXTENDS Integers, Sequences, FiniteSetsExt

\* domain.WeightedTuple
Weighted(v, w) == [value |-> v, weight |-> w]

Positive(list) == {i \in DOMAIN list : list[i].weight > 0}

\* What the loop has subtracted from target after item i.
Upto(list, i) ==
  LET upto[j \in 0..Len(list)] ==
        IF j = 0 THEN 0
        ELSE upto[j - 1] + (IF list[j].weight > 0 THEN list[j].weight ELSE 0)
  IN  upto[i]

\* rand.Float64() * total, which rounding may raise to total.
Draws(list) == 0..Upto(list, Len(list))

\* Mutation: items without weight are not skipped.
PickRandomWeighted_all(list, target) ==
  LET hit == {i \in DOMAIN list : target <= Upto(list, i)}
  IN  list[IF hit = {} THEN Len(list) ELSE Min(hit)].value

\* The first item with weight whose bound the draw does not exceed, and the
\* last item when none has weight.
PickRandomWeighted(list, target) ==
  LET hit == {i \in Positive(list) : target <= Upto(list, i)}
  IN  list[IF hit = {} THEN Len(list) ELSE Min(hit)].value

Picks(list) == {PickRandomWeighted(list, t) : t \in Draws(list)}
=============================================================================
