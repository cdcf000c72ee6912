------------------------------ MODULE Filtering ------------------------------
(* The filter the code writes as a list comprehension and the sum of a list,  *)
(* as recursive functions, which theorems can be proved about.               *)
EXTENDS Integers, Sequences

\* At n, what is kept of the first n elements.
Sieve(s, keep) ==
  LET sieve[n \in 0..Len(s)] ==
        IF n = 0 THEN <<>>
        ELSE IF s[n] \in keep THEN Append(sieve[n - 1], s[n]) ELSE sieve[n - 1]
  IN  sieve

\* The elements of s in keep, in their order.
Selected(s, keep) == Sieve(s, keep)[Len(s)]

Total(s) ==
  LET sum[n \in 0..Len(s)] == IF n = 0 THEN 0 ELSE sum[n - 1] + s[n] IN sum[Len(s)]

==============================================================================
