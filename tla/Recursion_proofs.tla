-------------------------- MODULE Recursion_proofs --------------------------
(***************************************************************************)
(* What the proofs about loops over lists rest on.  The models write such a *)
(* loop (the erase loop of RPC::EventCallback, the sum over activations of  *)
(* ExecuteSubroutine) as a function that is defined by recursion: its value *)
(* at n is what the loop has computed after the n-th item.                  *)
(***************************************************************************)
EXTENDS Integers, WellFoundedInduction, TLAPS

\* A set of numbers that has 0, and with each number the next one, has them all.
LEMMA Induction ==
  ASSUME NEW T \in SUBSET Nat, 0 \in T, \A n \in T : n + 1 \in T
  PROVE  \A n \in Nat : n \in T
<1>1. SUFFICES ASSUME Nat \ T # {} PROVE FALSE
  OBVIOUS
<1>2. \E x \in Nat \ T : \A y \in Nat \ T : ~(<<y, x>> \in OpToRel(<, Nat))
  BY <1>1, NatLessThanWellFounded, WFMin
<1>3. PICK x \in Nat \ T : \A y \in Nat \ T : ~(y < x)
  BY <1>2 DEF OpToRel
<1>4. x - 1 \in Nat /\ x - 1 < x /\ x - 1 + 1 = x
  BY <1>3
<1>5. QED
  BY <1>3, <1>4

\* The body of a loop: from the number of the item and the value before it, the
\* value after it.
IsBody(body, D, N) == body \in [(1 .. N) \X D -> D]

\* The values of a loop over N items before the first of them and after each.
IsLoop(f, D, base, N, body) ==
  /\ f \in [0 .. N -> D]
  /\ f[0] = base
  /\ \A n \in 1 .. N : f[n] = body[<<n, f[n - 1]>>]

\* A loop over N items, such as the erase loop of RPC::EventCallback, has a value
\* after each of them.
LEMMA Recursion ==
  ASSUME NEW D, NEW base \in D, NEW N \in Nat, NEW body, IsBody(body, D, N)
  PROVE  \E f : IsLoop(f, D, base, N, body)
<1> DEFINE T == {m \in Nat : m <= N => \E f : IsLoop(f, D, base, m, body)}
<1>1. 0 \in T
  <2>1. IsLoop([n \in 0 .. 0 |-> base], D, base, 0, body)
    BY DEF IsLoop
  <2>2. QED
    BY <2>1
<1>2. \A m \in T : m + 1 \in T
  <2> SUFFICES ASSUME NEW m \in Nat, m + 1 <= N, NEW f, IsLoop(f, D, base, m, body)
               PROVE  \E g : IsLoop(g, D, base, m + 1, body)
    OBVIOUS
  <2> USE DEF IsLoop, IsBody
  <2> DEFINE last == body[<<m + 1, f[m]>>]
             g    == [n \in 0 .. m + 1 |-> IF n = m + 1 THEN last ELSE f[n]]
  <2>1. last \in D
    <3>1. m + 1 \in 1 .. N /\ f[m] \in D
      OBVIOUS
    <3>2. QED
      BY <3>1
  <2>2. \A n \in 0 .. m : f[n] \in D /\ n \in 0 .. m + 1 /\ n # m + 1
    OBVIOUS
  <2>3. g \in [0 .. m + 1 -> D]
    BY <2>1, <2>2
  <2>4. g[0] = base
    OBVIOUS
  <2>5. \A n \in 1 .. m + 1 : g[n] = body[<<n, g[n - 1]>>]
    <3> SUFFICES ASSUME NEW n \in 1 .. m + 1 PROVE g[n] = body[<<n, g[n - 1]>>]
      OBVIOUS
    <3>1. n - 1 \in 0 .. m /\ n \in 0 .. m + 1
      OBVIOUS
    <3>2. g[n - 1] = f[n - 1]
      BY <2>2, <3>1
    <3>3. CASE n = m + 1
      <4>1. g[n] = last /\ n - 1 = m
        BY <3>1, <3>3
      <4>2. QED
        BY <3>2, <3>3, <4>1
    <3>4. CASE n # m + 1
      <4>1. n \in 1 .. m /\ g[n] = f[n]
        BY <3>1, <3>4
      <4>2. QED
        BY <3>2, <4>1
    <3>5. QED
      BY <3>3, <3>4
  <2>6. IsLoop(g, D, base, m + 1, body)
    BY <2>3, <2>4, <2>5
  <2>7. QED
    BY <2>6
<1>3. N \in T
  <2>1. T \in SUBSET Nat
    OBVIOUS
  <2> HIDE DEF T
  <2>2. QED
    BY <1>1, <1>2, <2>1, Induction
<1>4. QED
  BY <1>3
=============================================================================
