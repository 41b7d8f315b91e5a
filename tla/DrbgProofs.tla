------------------------------ MODULE DrbgProofs ------------------------------
(***************************************************************************)
(* Theorems about Drbg, for every set of callers and every size of call.   *)
(***************************************************************************)
EXTENDS Drbg, SequenceTheorems, TLAPS

\* Updating a key lengthens its history, and what it consumes are blocks of it.
LEMMA UpdateTyping ==
    ASSUME NEW k \in Keys, NEW n \in Nat, NEW s \in Seeds \cup {NoSeed}
    PROVE  /\ Updated(k, n, s) \in Keys
           /\ Len(Updated(k, n, s)) = Len(k) + 1
           /\ Len(k) \in Nat
           /\ Updated(k, n, s) # << >>
           /\ Consumed(k, n) \subseteq Blocks
           /\ \A b \in Consumed(k, n) : b.key = k /\ b.ctr \in {n + 1, n + 2, n + 3}
  BY DEF Updated, Keys, Updates, Consumed, Block, Blocks

-----------------------------------------------------------------------------
(* Type correctness.                                                       *)

\* The DRBG starts seeded.
LEMMA DrbgTypeInit == DrbgInit => DrbgTypeOK
  <1> SUFFICES ASSUME DrbgInit PROVE DrbgTypeOK
    OBVIOUS
  <1>1. << >> \in Keys
    BY EmptySeq DEF Keys
  <1>2. PICK s \in Seeds : key = Updated(<< >>, 0, s)
    BY DEF DrbgInit, Init
  <1>3. key \in Keys \ {<< >>} /\ material \subseteq Blocks
    BY <1>1, <1>2, UpdateTyping DEF DrbgInit, Init
  <1> QED
    BY <1>1, <1>3, EmptySeq DEF DrbgInit, Init, DrbgTypeOK

\* Every step keeps every variable in its type.
LEMMA DrbgTypeStep == DrbgTypeOK /\ [DrbgNext]_drbgVars => DrbgTypeOK'
  <1> SUFFICES ASSUME DrbgTypeOK, [DrbgNext]_drbgVars PROVE DrbgTypeOK'
    OBVIOUS
  <1> USE DEF DrbgTypeOK
  <1>1. ASSUME NEW c \in Callers, Call(c) PROVE DrbgTypeOK'
    <2>1. PICK n \in Sizes : need' = [need EXCEPT ![c] = n]
      BY <1>1 DEF Call
    <2>2. n \in Nat
      BY SizesAssumption
    <2> QED
      BY <1>1, <2>1, <2>2 DEF Call
  <1>2. ASSUME NEW c \in Callers, Lock(c) PROVE DrbgTypeOK'
    BY <1>2 DEF Lock
  <1>3. ASSUME NEW c \in Callers, Encrypt(c) PROVE DrbgTypeOK'
    <2>1. Block(cipher[c], v + 1) \in Blocks
      BY DEF Block, Blocks
    <2>2. Append(buf[c], Block(cipher[c], v + 1)) \in Seq(Blocks)
      BY <2>1
    <2>3. buf' \in [Callers -> Seq(Blocks)]
      BY <1>3, <2>2 DEF Encrypt
    <2> QED
      BY <1>3, <2>3 DEF Encrypt
  <1>4. ASSUME NEW s \in Seeds \cup {NoSeed}, Update(s)
        PROVE  key' \in Keys \ {<< >>} /\ material' \subseteq Blocks /\ v' \in Nat
    BY <1>4, UpdateTyping DEF Update
  <1>5. ASSUME NEW c \in Callers, Return(c) PROVE DrbgTypeOK'
    <2>1. key' \in Keys \ {<< >>} /\ material' \subseteq Blocks /\ v' \in Nat
      BY <1>4, <1>5 DEF Return
    <2>2. released' \subseteq Blocks
      BY <1>5 DEF Return, ToSet
    <2>3. buf' \in [Callers -> Seq(Blocks)]
      BY <1>5, EmptySeq DEF Return
    <2> QED
      BY <1>5, <2>1, <2>2, <2>3 DEF Return
  <1>6. ASSUME NEW c \in Callers, NEW s \in Seeds, ReseedCall(c, s) PROVE DrbgTypeOK'
    BY <1>4, <1>6 DEF ReseedCall
  <1>7. CASE UNCHANGED drbgVars
    BY <1>7 DEF drbgVars
  <1> QED
    BY <1>1, <1>2, <1>3, <1>5, <1>6, <1>7 DEF DrbgNext, Exhausted

\* The variables keep to their types, and the key never becomes all-zero.
THEOREM DrbgTypeCorrect == DrbgSpec => []DrbgTypeOK
  BY DrbgTypeInit, DrbgTypeStep, PTL DEF DrbgSpec

-----------------------------------------------------------------------------
(* The invariant: one holder, its blocks, and the keys left behind.        *)

FullInv == DrbgTypeOK /\ DrbgInv

\* At the start the mutex is free and only the zero key was used.
LEMMA DrbgInvInit == DrbgInit => FullInv
  <1> SUFFICES ASSUME DrbgInit PROVE HolderInv /\ SpentInv
    BY DrbgTypeInit DEF FullInv, DrbgInv
  <1>1. HolderInv
    BY CallersAssumption DEF DrbgInit, HolderInv
  <1>2. << >> \in Keys /\ Len(<< >>) = 0
    BY EmptySeq DEF Keys
  <1>3. PICK s \in Seeds : key = Updated(<< >>, 0, s)
    BY DEF DrbgInit, Init
  <1>4. Len(key) = 1
    BY <1>2, <1>3 DEF Updated
  <1>5. \A b \in material : b.key = << >>
    BY DEF DrbgInit, Init, Consumed, Block
  <1>6. SpentInv
    <2>1. released = {}
      BY DEF DrbgInit, Init
    <2>2. \A b \in released \cup material : Len(b.key) < Len(key)
      BY <1>2, <1>4, <1>5, <2>1
    <2> QED
      BY <2>1, <2>2 DEF SpentInv
  <1> QED
    BY <1>1, <1>6

\* What the holder of the mutex has encrypted is the first v blocks of the key
\* in force.
LEMMA HolderBlocks ==
    ASSUME FullInv, NEW c \in Callers, pc[c] = "loop"
    PROVE  ToSet(buf[c]) = {Block(key, i) : i \in 1..v}
  <1>1. buf[c] \in Seq(Blocks) /\ Len(buf[c]) = v /\ \A i \in 1..v : buf[c][i] = Block(key, i)
    BY DEF FullInv, DrbgTypeOK, DrbgInv, HolderInv
  <1>2. DOMAIN buf[c] = 1..v
    BY <1>1
  <1> QED
    BY <1>1, <1>2 DEF ToSet

\* An update leaves every block used so far behind the new key.
LEMMA UpdateSpends ==
    ASSUME FullInv, NEW s \in Seeds \cup {NoSeed}, Update(s), NEW b,
           b \in released \/ b \in material' \/ b \in {Block(key, i) : i \in 1..v}
    PROVE  Len(b.key) < Len(key')
  <1>1. /\ key \in Keys /\ v \in Nat
        /\ \A x \in released \cup material : x \in Blocks /\ Len(x.key) < Len(key)
    BY DEF FullInv, DrbgTypeOK, DrbgInv, SpentInv
  <1>2. /\ Len(key') = Len(key) + 1 /\ Len(key) \in Nat
        /\ \A x \in Consumed(key, v) : x.key = key
        /\ material' = material \cup Consumed(key, v)
    BY <1>1, UpdateTyping DEF Update
  <1>3. CASE b \in released \cup material
    <2>1. Len(b.key) < Len(key) /\ Len(b.key) \in Nat
      BY <1>1, <1>3 DEF Blocks, Keys
    <2> QED
      BY <2>1, <1>2
  <1>4. CASE b \in Consumed(key, v)
    BY <1>2, <1>4
  <1>5. CASE b \in {Block(key, i) : i \in 1..v}
    BY <1>2, <1>5 DEF Block
  <1> QED
    BY <1>2, <1>3, <1>4, <1>5

\* Every step keeps the invariant.
LEMMA DrbgInvStep == FullInv /\ [DrbgNext]_drbgVars => FullInv'
  <1> SUFFICES ASSUME FullInv, [DrbgNext]_drbgVars PROVE HolderInv' /\ SpentInv'
    BY DrbgTypeStep DEF FullInv, DrbgInv
  <1>t. /\ pc \in [Callers -> {"idle", "lock", "loop"}]
        /\ need \in [Callers -> Nat] /\ cipher \in [Callers -> Keys]
        /\ buf \in [Callers -> Seq(Blocks)] /\ v \in Nat /\ key \in Keys
    BY DEF FullInv, DrbgTypeOK
  <1>h. HolderInv /\ SpentInv
    BY DEF FullInv, DrbgInv
  <1>1. ASSUME NEW c \in Callers, Call(c) PROVE HolderInv' /\ SpentInv'
    <2>1. /\ pc' = [pc EXCEPT ![c] = "lock"] /\ pc[c] = "idle"
          /\ \A d \in Callers \ {c} : need'[d] = need[d]
          /\ need'[c] \in Sizes
          /\ UNCHANGED <<key, released, material, v, mu, cipher, buf>>
      BY <1>1, <1>t DEF Call
    <2>2. HolderInv'
      <3>1. \A d \in Callers : pc'[d] = "loop" <=> pc[d] = "loop"
        BY <2>1, <1>t
      <3>2. \A d \in Callers : pc'[d] # "idle" => need'[d] \in Sizes
        BY <2>1, <1>t, <1>h DEF HolderInv
      <3>3. \A d \in Callers : pc[d] = "loop" => need'[d] = need[d]
        BY <2>1
      <3> QED
        BY <2>1, <3>1, <3>2, <3>3, <1>h DEF HolderInv, Block
    <2> QED
      BY <2>1, <2>2, <1>h DEF SpentInv
  <1>2. ASSUME NEW c \in Callers, Lock(c) PROVE HolderInv' /\ SpentInv'
    <2>1. /\ pc' = [pc EXCEPT ![c] = "loop"] /\ pc[c] = "lock"
          /\ mu = NoCaller /\ mu' = c
          /\ cipher' = [cipher EXCEPT ![c] = key]
          /\ UNCHANGED <<key, released, material, v, need, buf>>
      BY <1>2 DEF Lock
    <2>2. v = 0 /\ buf[c] = << >>
      BY <2>1, <1>h DEF HolderInv
    <2>3. \A d \in Callers \ {c} : pc[d] # "loop"
      BY <2>1, <1>h, CallersAssumption DEF HolderInv
    <2>4. ASSUME NEW d \in Callers, pc'[d] = "loop" PROVE d = c
      BY <2>1, <2>3, <2>4, <1>t
    <2>5. cipher'[c] = key' /\ Len(buf'[c]) = v' /\ v' = 0
      BY <2>1, <2>2, <1>t
    <2>6. HolderInv'
      <3>1. \A d \in Callers : pc'[d] = "loop" <=> mu' = d
        BY <2>1, <2>4, <1>t
      <3>2. \A d \in Callers : pc'[d] # "loop" => buf'[d] = << >>
        BY <2>1, <1>h, <1>t DEF HolderInv
      <3>3. \A d \in Callers : pc'[d] # "idle" => need'[d] \in Sizes
        BY <2>1, <1>h, <1>t DEF HolderInv
      <3>4. mu' # NoCaller
        BY <2>1, CallersAssumption
      <3> QED
        BY <2>4, <2>5, <3>1, <3>2, <3>3, <3>4 DEF HolderInv
    <2> QED
      BY <2>1, <2>6, <1>h DEF SpentInv
  <1>3. ASSUME NEW c \in Callers, Encrypt(c) PROVE HolderInv' /\ SpentInv'
    <2>1. /\ pc[c] = "loop" /\ Len(buf[c]) * BlockLen < need[c]
          /\ v' = v + 1
          /\ buf' = [buf EXCEPT ![c] = Append(@, Block(cipher[c], v + 1))]
          /\ UNCHANGED <<key, released, material, mu, pc, need, cipher>>
      BY <1>3 DEF Encrypt
    <2>2. /\ mu = c /\ mu # NoCaller
          /\ \A d \in Callers : pc[d] = "loop" <=> d = c
      BY <2>1, <1>h, CallersAssumption DEF HolderInv
    <2>3. /\ cipher[c] = key /\ Len(buf[c]) = v
          /\ \A i \in 1..v : buf[c][i] = Block(key, i)
      BY <2>1, <1>h DEF HolderInv
    <2>4. Block(key, v + 1) \in Blocks
      BY <1>t DEF Block, Blocks
    <2>5. /\ buf'[c] = Append(buf[c], Block(key, v + 1))
          /\ \A d \in Callers \ {c} : buf'[d] = buf[d]
      BY <2>1, <2>3, <1>t
    <2>6. /\ Len(buf'[c]) = v + 1
          /\ \A i \in 1..(v + 1) : buf'[c][i] = Block(key, i)
      BY <2>3, <2>4, <2>5, <1>t
    <2>7. v' > 0 => (v' - 1) * BlockLen < need'[c]
      <3>1. v' - 1 = v
        BY <2>1, <1>t
      <3> QED
        BY <2>1, <2>3, <3>1
    <2>8. HolderInv'
      <3>1. \A d \in Callers : pc'[d] = "loop" <=> mu' = d
        BY <2>1, <1>h DEF HolderInv
      <3>2. \A d \in Callers : pc'[d] # "loop" => buf'[d] = << >>
        BY <2>1, <2>2, <2>5, <1>h DEF HolderInv
      <3>3. \A d \in Callers : pc'[d] # "idle" => need'[d] \in Sizes
        BY <2>1, <1>h DEF HolderInv
      <3>4. ASSUME NEW d \in Callers, pc'[d] = "loop"
            PROVE  /\ cipher'[d] = key' /\ Len(buf'[d]) = v'
                   /\ \A i \in 1..v' : buf'[d][i] = Block(key', i)
                   /\ v' > 0 => (v' - 1) * BlockLen < need'[d]
        <4>1. d = c
          BY <2>1, <2>2, <3>4
        <4> QED
          BY <4>1, <2>1, <2>3, <2>6, <2>7
      <3>5. mu' # NoCaller
        BY <2>1, <2>2
      <3> QED
        BY <3>1, <3>2, <3>3, <3>4, <3>5 DEF HolderInv, Block
    <2> QED
      BY <2>1, <2>8, <1>h DEF SpentInv
  <1>4. ASSUME NEW c \in Callers, Return(c) PROVE HolderInv' /\ SpentInv'
    <2>1. /\ pc[c] = "loop" /\ pc' = [pc EXCEPT ![c] = "idle"]
          /\ Update(NoSeed) /\ v' = 0
          /\ released' = released \cup ToSet(buf[c])
          /\ mu' = NoCaller
          /\ buf' = [buf EXCEPT ![c] = << >>]
          /\ UNCHANGED <<need, cipher>>
      BY <1>4 DEF Return, Update
    <2>2. \A d \in Callers : pc[d] = "loop" <=> d = c
      BY <2>1, <1>h DEF HolderInv
    <2>3. HolderInv'
      <3>1. \A d \in Callers : pc'[d] # "loop"
        BY <2>1, <2>2, <1>t
      <3>2. \A d \in Callers : buf'[d] = << >>
        BY <2>1, <2>2, <1>t, <1>h DEF HolderInv
      <3>3. \A d \in Callers : pc'[d] # "idle" => need'[d] \in Sizes
        BY <2>1, <1>t, <1>h DEF HolderInv
      <3> QED
        BY <2>1, <3>1, <3>2, <3>3, CallersAssumption DEF HolderInv
    <2>4. ToSet(buf[c]) = {Block(key, i) : i \in 1..v}
      BY <2>1, HolderBlocks
    <2>5. \A b \in released' \cup material' : Len(b.key) < Len(key')
      BY <2>1, <2>4, UpdateSpends
    <2>6. released' \cap material' = {}
      <3>1. material' = material \cup Consumed(key, v)
        BY <2>1 DEF Update
      <3>2. ASSUME NEW b \in released \cup material
            PROVE  b.key # key
        BY <1>h DEF SpentInv
      <3>3. \A b \in ToSet(buf[c]) : b.key = key /\ b.ctr \in 1..v
        BY <2>4 DEF Block
      <3>4. \A b \in Consumed(key, v) : b.key = key /\ b.ctr \notin 1..v
        BY <1>t DEF Consumed, Block
      <3> QED
        BY <2>1, <3>1, <3>2, <3>3, <3>4, <1>h DEF SpentInv
    <2>7. SpentInv'
      BY <2>5, <2>6 DEF SpentInv
    <2> QED
      BY <2>3, <2>7
  <1>5. ASSUME NEW c \in Callers, NEW s \in Seeds, ReseedCall(c, s) PROVE HolderInv' /\ SpentInv'
    <2>1. /\ mu = NoCaller /\ Update(s) /\ v' = 0
          /\ UNCHANGED <<released, mu, pc, need, cipher, buf>>
      BY <1>5 DEF ReseedCall, Update
    <2>2. v = 0 /\ \A d \in Callers : pc[d] # "loop"
      BY <2>1, <1>h, CallersAssumption DEF HolderInv
    <2>3. HolderInv'
      BY <2>1, <2>2, <1>h DEF HolderInv
    <2>4. \A b \in released' \cup material' : Len(b.key) < Len(key')
      BY <2>1, UpdateSpends
    <2>5. released' \cap material' = {}
      <3>1. material' = material \cup Consumed(key, v)
        BY <2>1 DEF Update
      <3>2. \A b \in released : b.key # key
        BY <1>h DEF SpentInv
      <3>3. \A b \in Consumed(key, v) : b.key = key
        BY DEF Consumed, Block
      <3> QED
        BY <2>1, <3>1, <3>2, <3>3, <1>h DEF SpentInv
    <2>6. SpentInv'
      BY <2>4, <2>5 DEF SpentInv
    <2> QED
      BY <2>3, <2>6
  <1>6. CASE UNCHANGED drbgVars
    BY <1>6, <1>h DEF drbgVars, HolderInv, SpentInv, Block
  <1> QED
    BY <1>1, <1>2, <1>3, <1>4, <1>5, <1>6 DEF DrbgNext, Exhausted

\* The invariant the run checks holds of every behaviour.
THEOREM DrbgInvariant == DrbgSpec => []DrbgInv
  <1>1. FullInv => DrbgInv
    BY DEF FullInv
  <1> QED
    BY <1>1, DrbgInvInit, DrbgInvStep, PTL DEF DrbgSpec

-----------------------------------------------------------------------------
(* What follows from it.                                                   *)

\* No key that encrypted a released block, or a block a key was made of, is
\* ever in force again.
THEOREM DrbgForwardSecrecy == DrbgSpec => []ForwardSecrecy
  <1>1. FullInv => ForwardSecrecy
    <2> SUFFICES ASSUME FullInv, NEW b \in released \cup material PROVE b.key # key
      BY DEF ForwardSecrecy
    <2>1. Len(b.key) < Len(key) /\ Len(key) \in Nat
      BY DEF FullInv, DrbgTypeOK, DrbgInv, SpentInv, Keys
    <2> QED
      BY <2>1
  <1> QED
    BY <1>1, DrbgInvInit, DrbgInvStep, PTL DEF DrbgSpec

\* However many goroutines call Generate, no block of keystream goes to two
\* callers, to one caller twice, or both to a caller and into a key.
THEOREM DrbgKeystreamUsedOnce == DrbgSpec => []KeystreamUsedOnce
  <1>1. FullInv => KeystreamUsedOnce
    <2> SUFFICES ASSUME FullInv, NEW c \in Callers
                 PROVE  /\ ToSet(buf[c]) \cap (released \cup material) = {}
                        /\ IsInjective(buf[c])
                        /\ \A d \in Callers \ {c} : ToSet(buf[c]) \cap ToSet(buf[d]) = {}
      BY DEF KeystreamUsedOnce, FullInv, DrbgInv, SpentInv
    <2>1. \A d \in Callers : pc[d] # "loop" => ToSet(buf[d]) = {} /\ buf[d] = << >>
      BY DEF FullInv, DrbgInv, HolderInv, ToSet
    <2>2. CASE pc[c] # "loop"
      BY <2>1, <2>2 DEF IsInjective
    <2>3. CASE pc[c] = "loop"
      <3>1. ToSet(buf[c]) = {Block(key, i) : i \in 1..v}
        BY <2>3, HolderBlocks
      <3>2. \A b \in released \cup material : b.key # key
        <4>1. \A b \in released \cup material : Len(b.key) < Len(key)
          BY DEF FullInv, DrbgInv, SpentInv
        <4>2. Len(key) \in Nat
          BY DEF FullInv, DrbgTypeOK, Keys
        <4> QED
          BY <4>1, <4>2
      <3>3. ToSet(buf[c]) \cap (released \cup material) = {}
        BY <3>1, <3>2 DEF Block
      <3>4. IsInjective(buf[c])
        <4>1. /\ buf[c] \in Seq(Blocks) /\ Len(buf[c]) = v
              /\ \A i \in 1..v : buf[c][i] = Block(key, i)
          BY <2>3 DEF FullInv, DrbgTypeOK, DrbgInv, HolderInv
        <4>2. DOMAIN buf[c] = 1..v
          BY <4>1
        <4>3. \A i, j \in 1..v : Block(key, i) = Block(key, j) => i = j
          BY DEF Block
        <4> QED
          BY <4>1, <4>2, <4>3 DEF IsInjective
      <3>5. \A d \in Callers \ {c} : pc[d] # "loop"
        BY <2>3 DEF FullInv, DrbgInv, HolderInv
      <3> QED
        BY <2>1, <3>3, <3>4, <3>5
    <2> QED
      BY <2>2, <2>3
  <1> QED
    BY <1>1, DrbgInvInit, DrbgInvStep, PTL DEF DrbgSpec

-----------------------------------------------------------------------------
(* Refinement: the calls take effect at one instant.                       *)

\* Multiplying by a block length does not shrink a count of blocks.
LEMMA TimesGrows == \A a \in Nat, k \in Nat \ {0} : a <= a * k
  <1> SUFFICES ASSUME NEW a \in Nat, NEW k \in Nat \ {0} PROVE a <= a * k
    OBVIOUS
  <1>1. PICK j \in Nat : k = j + 1
    <2>1. k - 1 \in Nat /\ k = (k - 1) + 1
      OBVIOUS
    <2> QED
      BY <2>1
  <1>2. a * k = a * j + a /\ a * j >= 0
    BY <1>1
  <1> QED
    BY <1>2

\* A product of naturals is a natural.
LEMMA TimesNat == \A a \in Nat, k \in Nat : a * k \in Nat
  OBVIOUS

\* Every step of the DRBG is a step of the random source or changes nothing of
\* it.
LEMMA SourceStep == FullInv /\ [DrbgNext]_drbgVars => [Next]_vars
  <1> SUFFICES ASSUME FullInv, [DrbgNext]_drbgVars PROVE [Next]_vars
    OBVIOUS
  <1>1. ASSUME NEW c \in Callers, Call(c) \/ Lock(c) \/ Encrypt(c) PROVE UNCHANGED vars
    BY <1>1 DEF Call, Lock, Encrypt, vars
  <1>2. ASSUME NEW c \in Callers, Return(c) PROVE Next
    <2>1. /\ pc[c] = "loop" /\ Update(NoSeed)
          /\ Len(buf[c]) * BlockLen >= need[c]
          /\ outputBytes' = outputBytes + need[c]
          /\ released' = released \cup ToSet(buf[c])
      BY <1>2 DEF Return
    <2>2. /\ Len(buf[c]) = v /\ need[c] \in Sizes /\ v \in Nat
          /\ v > 0 => (v - 1) * BlockLen < need[c]
      BY <2>1 DEF FullInv, DrbgTypeOK, DrbgInv, HolderInv
    <2>3. ToSet(buf[c]) = {Block(key, i) : i \in 1..v}
      BY <2>1, HolderBlocks
    <2>4. need[c] \in Nat \ {0} /\ BlockLen \in Nat \ {0}
      BY <2>2, SizesAssumption
    <2>5. v > 0
      BY <2>1, <2>2, <2>4
    <2>6. v \in 1..need[c]
      <3>1. v - 1 <= (v - 1) * BlockLen
        BY <2>2, <2>4, <2>5, TimesGrows
      <3> QED
        BY <2>2, <2>4, <2>5, <3>1, TimesNat
    <2>7. Generate(need[c], v)
      BY <2>1, <2>2, <2>3, <2>4, <2>5 DEF Generate, Update
    <2> QED
      BY <2>2, <2>6, <2>7 DEF Next
  <1>3. ASSUME NEW c \in Callers, NEW s \in Seeds, ReseedCall(c, s) PROVE Next
    <2>1. mu = NoCaller /\ Update(s) /\ UNCHANGED <<outputBytes, released>>
      BY <1>3 DEF ReseedCall
    <2>2. v = 0
      BY <2>1 DEF FullInv, DrbgInv, HolderInv
    <2>3. Reseed(s)
      BY <2>1, <2>2 DEF Update, Reseed
    <2> QED
      BY <2>3 DEF Next
  <1>4. CASE UNCHANGED drbgVars
    BY <1>4 DEF drbgVars, vars
  <1> QED
    BY <1>1, <1>2, <1>3, <1>4 DEF DrbgNext, Exhausted

\* What a set of concurrent callers sees is a generator whose Generate and
\* Reseed are single steps.
THEOREM DrbgImplementsSource == DrbgSpec => ImplementsSource
  <1>1. DrbgInit => Init
    BY DEF DrbgInit
  <1>2. FullInv /\ [DrbgNext]_drbgVars => [Next]_vars
    BY SourceStep
  <1> QED
    BY <1>1, <1>2, DrbgInvInit, DrbgInvStep, PTL DEF DrbgSpec, ImplementsSource, Spec
=============================================================================
