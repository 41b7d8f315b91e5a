----------------------------- MODULE RandomSource -----------------------------
(***************************************************************************)
(* What csprng.DRBG promises a concurrent caller: Generate and Reseed each *)
(* take effect at one instant.                                             *)
(*                                                                         *)
(* AES-256 is taken to be a family of independent random functions and is  *)
(* modelled by what it is applied to: a block of keystream is the pair of  *)
(* the key and the counter it came from, and a key is the list of updates  *)
(* that led to it, each with the counter it started from and the seed mixed*)
(* in.  V is counted from its value at the last update.                    *)
(***************************************************************************)
EXTENDS Naturals, Sequences, FiniteSets

CONSTANTS
    BlockLen,   \* bytes in a block (16)
    Sizes,      \* the n of the calls to Generate
    Seeds,      \* what the entropy pool returns
    NoSeed,     \* the nil that updateLocked gets after generation
    MaxUpdates  \* bound: no call begins once the key was updated this often

ASSUME SizesAssumption ==
    /\ BlockLen \in Nat \ {0}
    /\ Sizes \subseteq Nat \ {0}
    /\ NoSeed \notin Seeds
    /\ Seeds # {}
    /\ MaxUpdates \in Nat

VARIABLES
    key,            \* the key in force
    outputBytes,    \* DRBG.outputBytes
    released,       \* history: the blocks callers were given
    material        \* history: the blocks keys were made of

Updates == [ctr : Nat, seed : Seeds \cup {NoSeed}]
Keys == Seq(Updates)
Block(k, i) == [key |-> k, ctr |-> i]

\* updateLocked encrypts three counter values (SeedLen / 16).
Consumed(k, c) == {Block(k, c + 1), Block(k, c + 2), Block(k, c + 3)}
Updated(k, c, s) == Append(k, [ctr |-> c, seed |-> s])

\* New: the seed is mixed into the all-zero state.
Init ==
    /\ \E s \in Seeds : key = Updated(<< >>, 0, s)
    /\ outputBytes = 0
    /\ released = {}
    /\ material = Consumed(<< >>, 0)

\* b whole blocks are encrypted for n bytes.
Generate(n, b) ==
    /\ (b - 1) * BlockLen < n /\ n <= b * BlockLen
    /\ released' = released \cup {Block(key, i) : i \in 1..b}
    /\ material' = material \cup Consumed(key, b)
    /\ key' = Updated(key, b, NoSeed)
    /\ outputBytes' = outputBytes + n

Reseed(s) ==
    /\ material' = material \cup Consumed(key, 0)
    /\ key' = Updated(key, 0, s)
    /\ UNCHANGED <<outputBytes, released>>

Next ==
    \/ \E n \in Sizes : \E b \in 1..n : Generate(n, b)
    \/ \E s \in Seeds : Reseed(s)

vars == <<key, outputBytes, released, material>>

Spec == Init /\ [][Next]_vars
=============================================================================
