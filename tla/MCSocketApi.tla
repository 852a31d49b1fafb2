----------------------------- MODULE MCSocketApi -----------------------------
(* SocketApi with small constants, and its bytes as the numbers they are.   *)
EXTENDS SocketApi, FiniteSetsExt

Value(byte) == MapThenSumSet(LAMBDA k : 2^k, byte)

SignedChar(n) == IF n < 2^(Bits - 1) THEN n ELSE n - 2^Bits

\* C's division by 2
Half(n) == IF n >= 0 THEN n \div 2 ELSE - ((- n) \div 2)

\* the loop of find_id
Halvings[n \in Int] == IF n % 2 = 1 THEN 1 + Halvings[Half(n)] ELSE 0

\* Shifts is what the loop computes, for every byte find_id gives it.
ASSUME ShiftsAreHalvings ==
    \A byte \in SUBSET Full \ {Full} :
       Shifts(byte) = Halvings[SignedChar(Value(byte))]
=============================================================================
