-------------------------------- MODULE Bits --------------------------------
(***************************************************************************)
(* The operators & and ^ of C++ on unsigned integers of n bits, from the   *)
(* bits of their arguments.                                                *)
(***************************************************************************)
EXTENDS Integers

\* The k-th bit of x; the lowest is the first.
Bit(x, k) == (x \div 2^(k - 1)) % 2 = 1

BitsOf(n, x) == [k \in 1 .. n |-> Bit(x, k)]

\* The number whose n bits are f.
Number(n, f) == CHOOSE x \in 0 .. 2^n - 1 : BitsOf(n, x) = f

And(n, x, y) == Number(n, [k \in 1 .. n |-> Bit(x, k) /\ Bit(y, k)])
Xor(n, x, y) == Number(n, [k \in 1 .. n |-> Bit(x, k) # Bit(y, k)])
===============================================================================
