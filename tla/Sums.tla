--------------------------------- MODULE Sums ---------------------------------
(***************************************************************************)
(* Sums over sequences of numbers, as a recursive function: the token      *)
(* counts, page lengths and scores that the services add up in loops.      *)
(***************************************************************************)
EXTENDS Integers, Sequences

\* The sum of the first n numbers.
SumTo(numbers, n) ==
  LET sum[k \in 0 .. Len(numbers)] == IF k = 0 THEN 0 ELSE sum[k - 1] + numbers[k]
  IN sum[n]

Sum(numbers) == SumTo(numbers, Len(numbers))

=============================================================================
