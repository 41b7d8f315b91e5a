------------------------------- MODULE Scaling -------------------------------
(***************************************************************************)
(* internal/scaling/range.go and its two users in internal/gateway/rest.go:*)
(* RandRange turns a word of the DRBG into a number below max by rejecting *)
(* the residue class the words do not fill; generate adds the number to    *)
(* min; Shuffle swaps with it.  Words are uint64 and int64 arithmetic wraps*)
(* around: here both have WordSize values.                                 *)
(*                                                                         *)
(* Likelihood is counted: the words are equally likely (that is the DRBG), *)
(* so what k of the accepted words lead to has likelihood k.               *)
(***************************************************************************)
EXTENDS Integers, Sequences, FiniteSets

CONSTANTS
    WordSize,   \* 2^64
    Counts,     \* the counts of the generate requests
    DeckSizes   \* the numbers of items of the shuffle requests

ASSUME ScalingAssumption ==
    /\ WordSize \in Nat /\ WordSize > 1 /\ WordSize % 2 = 0
    /\ Counts \subseteq Nat \ {0}
    /\ DeckSizes \subseteq 1..(WordSize - 1)

VARIABLES
    pc,     \* where the handler is
    job,    \* what it was asked for
    i,      \* generate: the values still to draw; shuffle: the index to fill
    word,   \* the word the DRBG returned last
    out     \* generate: the values; shuffle: the deck

vars == <<pc, job, i, word, out>>

Words == 0..(WordSize - 1)
Half == WordSize \div 2
Int64 == (-Half)..(Half - 1)

Unsigned(x) == x % WordSize
Signed(u) == IF u < Half THEN u ELSE u - WordSize

\* Mutant of Span: max is taken to be exclusive.
SpanExclusive ==
    IF job.kind = "generate"
    THEN Unsigned(job.max - job.min)
    ELSE i + 1

\* The max that RandRange is called with.
Span ==
    IF job.kind = "generate"
    THEN Unsigned(job.max - job.min + 1)
    ELSE i + 1

\* Mutant of Threshold: nothing is rejected.
ThresholdNone(max) == 0

\* (-max) % max in unsigned arithmetic.
Threshold(max) == Unsigned(-max) % max

\* Mutant of ValueOf: the number is scaled from 1.
ValueOfNext(n) == Signed(Unsigned(job.min + n + 1))

\* values[i] = min + int64(n)
ValueOf(n) == Signed(Unsigned(job.min + n))

\* Mutant of Swapped: the old item is lost.
Overwritten(deck, n) == [deck EXCEPT ![i] = deck[n]]

\* deck[i], deck[n] = deck[n], deck[i]
Swapped(deck, n) == [deck EXCEPT ![i] = deck[n], ![n] = deck[i]]

Init ==
    /\ pc = "idle"
    /\ job = [kind |-> "none"]
    /\ i = 0
    /\ word = 0
    /\ out = << >>

\* A request that validateGenerateRequest accepts: count > 0, min <= max.
StartGenerate ==
    /\ pc = "idle"
    /\ \E min, max \in Int64, count \in Counts :
          /\ min <= max
          /\ job' = [kind |-> "generate", min |-> min, max |-> max]
          /\ i' = count
    /\ out' = << >>
    /\ pc' = "range"
    /\ UNCHANGED word

\* A shuffle of items told apart by their position; one item needs no draw.
StartShuffle ==
    /\ pc = "idle"
    /\ \E n \in DeckSizes :
          /\ job' = [kind |-> "shuffle", size |-> n]
          /\ i' = n - 1
          /\ out' = [k \in 0..(n - 1) |-> k]
          /\ pc' = IF n = 1 THEN "done" ELSE "range"
    /\ UNCHANGED word

\* RandRange returned n: the value or the swap, and on to the next.
Use(n) ==
    /\ out' = IF job.kind = "generate" THEN Append(out, ValueOf(n)) ELSE Swapped(out, n)
    /\ i' = i - 1
    /\ pc' = IF i = 1 THEN "done" ELSE "range"
    /\ UNCHANGED job

\* RandRange is called: max = 0 is an error, max = 1 needs no draw.
RangeZero ==
    /\ pc = "range"
    /\ Span = 0
    /\ pc' = "failed"
    /\ UNCHANGED <<job, i, word, out>>

RangeOne ==
    /\ pc = "range"
    /\ Span = 1
    /\ Use(0)
    /\ UNCHANGED word

RangeMore ==
    /\ pc = "range"
    /\ Span > 1
    /\ pc' = "draw"
    /\ UNCHANGED <<job, i, word, out>>

\* rng.Generate(8)
Draw ==
    /\ pc = "draw"
    /\ word' \in Words
    /\ pc' = "test"
    /\ UNCHANGED <<job, i, out>>

Reject ==
    /\ pc = "test"
    /\ word < Threshold(Span)
    /\ pc' = "draw"
    /\ UNCHANGED <<job, i, word, out>>

Accept ==
    /\ pc = "test"
    /\ word >= Threshold(Span)
    /\ Use(word % Span)
    /\ UNCHANGED word

Answered == pc \in {"done", "failed"} /\ UNCHANGED vars

Next ==
    \/ StartGenerate \/ StartShuffle
    \/ RangeZero \/ RangeOne \/ RangeMore
    \/ Draw \/ Reject \/ Accept
    \/ Answered

Spec == Init /\ [][Next]_vars

-----------------------------------------------------------------------------
(* Properties.                                                             *)

Generating == job.kind = "generate"
Shuffling == job.kind = "shuffle"

\* Every variable holds a value of its kind.
TypeOK ==
    /\ pc \in {"idle", "range", "draw", "test", "done", "failed"}
    /\ job \in [kind : {"none"}]
           \cup [kind : {"generate"}, min : Int64, max : Int64]
           \cup [kind : {"shuffle"}, size : DeckSizes]
    /\ i \in Nat
    /\ word \in Words
    /\ Generating => out \in Seq(Int64)
    /\ Shuffling => out \in [0..(job.size - 1) -> 0..(job.size - 1)]

\* A value never leaves the range that was asked for, whatever wraps around on
\* the way (generate: span, min + int64(n)).
ValuesInRange ==
    Generating => \A k \in DOMAIN out : out[k] >= job.min /\ out[k] <= job.max

\* What a draw can lead to: a value of the range, or an item not yet placed.
Outcomes ==
    IF Generating
    THEN job.min..job.max
    ELSE (0..(job.size - 1)) \ {out[k] : k \in (i + 1)..(job.size - 1)}

Outcome(w) ==
    IF Generating THEN ValueOf(w % Span) ELSE Swapped(out, w % Span)[i]

Accepted == {w \in Words : w >= Threshold(Span)}

\* Every draw is unbiased: the accepted words lead to every possible outcome,
\* to each equally often, and to nothing else (RandRange, Shuffle).
DrawsUnbiased ==
    pc = "draw" =>
        \A x \in Outcomes :
            Cardinality({w \in Accepted : Outcome(w) = x}) * Cardinality(Outcomes)
                = Cardinality(Accepted)

\* "Expected number of rejections < 1": less than half of the words are
\* rejected, for every range (RandRange).
RejectsRarely == pc = "draw" => 2 * Threshold(Span) < WordSize

\* A shuffled deck holds every item once (Shuffle).
DeckIsPermutation ==
    Shuffling => \A x \in 0..(job.size - 1) : \E k \in DOMAIN out : out[k] = x

\* The one request that is valid and fails asks for every int64: its span wraps
\* to 0.  It fails before anything is drawn for it, and every other request is
\* served in full (generate, RandRange).
OnlyFullRangeFails ==
    /\ pc = "failed" => Generating /\ job.max - job.min = WordSize - 1 /\ out = << >>
    /\ pc = "done" /\ Generating => job.max - job.min < WordSize - 1

\* What is answered is what was asked for: a range is served exactly or refused as a
\* whole, and a deck comes back whole (generate, RandRange, Shuffle).
ScalingInv == ValuesInRange /\ OnlyFullRangeFails /\ DeckIsPermutation

\* An item that was placed is never moved again, so the unbiased draws of a
\* shuffle are the steps of a uniform choice among all orders (Shuffle).
PlacedStay ==
    [][Shuffling => \A k \in DOMAIN out : k > i => out'[k] = out[k]]_vars
=============================================================================
