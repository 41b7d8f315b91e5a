--------------------------------- MODULE Drbg ---------------------------------
(***************************************************************************)
(* internal/csprng/aes_ctr_drbg.go: the CTR_DRBG every request handler and *)
(* the self-tester share.  Generate holds DRBG.mu over a loop of many      *)
(* encryptions and the update that replaces the key.                       *)
(***************************************************************************)
EXTENDS RandomSource, SequencesExt

CONSTANTS
    Callers,    \* the goroutines that call the DRBG
    NoCaller    \* DRBG.mu is free

ASSUME CallersAssumption == NoCaller \notin Callers

VARIABLES
    v,          \* DRBG.v, counted from the last update
    mu,         \* the holder of DRBG.mu, or NoCaller
    pc,         \* where each caller is in Generate
    need,       \* the n of the caller's call
    cipher,     \* the key the caller's aes.NewCipher was given
    buf         \* the blocks the caller has encrypted

drbgVars == <<key, outputBytes, released, material, v, mu, pc, need, cipher, buf>>

DrbgInit ==
    /\ Init
    /\ v = 0
    /\ mu = NoCaller
    /\ pc = [c \in Callers |-> "idle"]
    /\ need = [c \in Callers |-> 0]
    /\ cipher = [c \in Callers |-> << >>]
    /\ buf = [c \in Callers |-> << >>]

\* Generate(n) with n > 0 reaches the mutex; Generate(0) returns at once.
Call(c) ==
    /\ Len(key) < MaxUpdates
    /\ pc[c] = "idle"
    /\ pc' = [pc EXCEPT ![c] = "lock"]
    /\ \E n \in Sizes : need' = [need EXCEPT ![c] = n]
    /\ UNCHANGED <<key, outputBytes, released, material, v, mu, cipher, buf>>

\* Mutant of Lock: Generate does not take DRBG.mu.
LockMissing(c) ==
    /\ pc[c] = "lock"
    /\ mu' = c
    /\ pc' = [pc EXCEPT ![c] = "loop"]
    /\ cipher' = [cipher EXCEPT ![c] = key]
    /\ UNCHANGED <<key, outputBytes, released, material, v, need, buf>>

Lock(c) ==
    /\ pc[c] = "lock"
    /\ mu = NoCaller
    /\ mu' = c
    /\ pc' = [pc EXCEPT ![c] = "loop"]
    /\ cipher' = [cipher EXCEPT ![c] = key]
    /\ UNCHANGED <<key, outputBytes, released, material, v, need, buf>>

\* One turn of the loop: increment V, encrypt it, append the block.
Encrypt(c) ==
    /\ pc[c] = "loop"
    /\ Len(buf[c]) * BlockLen < need[c]
    /\ v' = v + 1
    /\ buf' = [buf EXCEPT ![c] = Append(@, Block(cipher[c], v + 1))]
    /\ UNCHANGED <<key, outputBytes, released, material, mu, pc, need, cipher>>

\* Mutant of Update: no provided data, no update.
UpdateOnlySeeded(s) ==
    /\ material' = IF s = NoSeed THEN material ELSE material \cup Consumed(key, v)
    /\ key' = IF s = NoSeed THEN key ELSE Updated(key, v, s)
    /\ v' = 0

\* updateLocked: three more increments, then a new key and V.
Update(s) ==
    /\ material' = material \cup Consumed(key, v)
    /\ key' = Updated(key, v, s)
    /\ v' = 0

\* Mutant of Return: a call that overtook another starts over.
ReturnRetried(c) ==
    /\ pc[c] = "loop"
    /\ Len(buf[c]) * BlockLen >= need[c]
    /\ v' = 0
    /\ mu' = NoCaller
    /\ pc' = [pc EXCEPT ![c] = "lock"]
    /\ buf' = [buf EXCEPT ![c] = << >>]
    /\ UNCHANGED <<key, outputBytes, released, material, need, cipher>>

\* The loop is done: the state is updated, the bytes are counted and returned.
Return(c) ==
    /\ pc[c] = "loop"
    /\ Len(buf[c]) * BlockLen >= need[c]
    /\ Update(NoSeed)
    /\ outputBytes' = outputBytes + need[c]
    /\ released' = released \cup ToSet(buf[c])
    /\ mu' = NoCaller
    /\ pc' = [pc EXCEPT ![c] = "idle"]
    /\ buf' = [buf EXCEPT ![c] = << >>]
    /\ UNCHANGED <<need, cipher>>

\* Reseed with enough entropy, under the mutex; outputBytes keeps its value.
ReseedCall(c, s) ==
    /\ Len(key) < MaxUpdates
    /\ pc[c] = "idle"
    /\ mu = NoCaller
    /\ Update(s)
    /\ UNCHANGED <<outputBytes, released, mu, pc, need, cipher, buf>>

\* Every key update has been used up and every caller has returned.
Exhausted ==
    /\ Len(key) >= MaxUpdates
    /\ \A c \in Callers : pc[c] = "idle"
    /\ UNCHANGED drbgVars

DrbgNext ==
    \/ \E c \in Callers : Call(c) \/ Lock(c) \/ Encrypt(c) \/ Return(c)
    \/ \E c \in Callers, s \in Seeds : ReseedCall(c, s)
    \/ Exhausted

(***************************************************************************)
(* A caller inside Generate keeps running, and sync.Mutex lets no waiter   *)
(* starve.  Nobody has to call.                                            *)
(***************************************************************************)
DrbgFairness ==
    \A c \in Callers :
        SF_drbgVars(Lock(c)) /\ WF_drbgVars(Encrypt(c) \/ Return(c))

DrbgSpec == DrbgInit /\ [][DrbgNext]_drbgVars

DrbgFairSpec == DrbgSpec /\ DrbgFairness

-----------------------------------------------------------------------------
(* Properties.                                                             *)

Blocks == [key : Keys, ctr : Nat]

\* Every variable holds a value of its kind, and the key is never the all-zero
\* one HealthCheck reports.
DrbgTypeOK ==
    /\ key \in Keys \ {<< >>}
    /\ outputBytes \in Nat
    /\ released \subseteq Blocks
    /\ material \subseteq Blocks
    /\ v \in Nat
    /\ mu \in Callers \cup {NoCaller}
    /\ pc \in [Callers -> {"idle", "lock", "loop"}]
    /\ need \in [Callers -> Nat]
    /\ cipher \in [Callers -> Keys]
    /\ buf \in [Callers -> Seq(Blocks)]

\* No block of keystream is used twice: what a caller is being given was given
\* to nobody before, to nobody else meanwhile, and makes no key; nor does
\* anything that was released (Generate, updateLocked, increment).
KeystreamUsedOnce ==
    /\ released \cap material = {}
    /\ \A c \in Callers :
          /\ ToSet(buf[c]) \cap (released \cup material) = {}
          /\ IsInjective(buf[c])
          /\ \A d \in Callers \ {c} : ToSet(buf[c]) \cap ToSet(buf[d]) = {}

\* The key in force encrypted nothing that was released, and nothing that a key
\* was made of: "knowledge of outputs does not allow reconstructing the
\* current key" (Generate).
ForwardSecrecy == \A b \in released \cup material : b.key # key

\* A call to Generate returns.
EveryCallReturns == \A c \in Callers : pc[c] = "lock" ~> pc[c] = "idle"

\* Generate and Reseed, with their locks and loops, take effect at one instant.
ImplementsSource == Spec

-----------------------------------------------------------------------------
(* The inductive invariant behind the three.                               *)

\* Only the holder of the mutex is in the loop; it encrypts with the key in
\* force, and has encrypted exactly the first v counters, the last of which it
\* needed.  V is at its starting point whenever the mutex is free.
HolderInv ==
    /\ \A c \in Callers : pc[c] = "loop" <=> mu = c
    /\ \A c \in Callers : pc[c] # "loop" => buf[c] = << >>
    /\ \A c \in Callers : pc[c] # "idle" => need[c] \in Sizes
    /\ \A c \in Callers : pc[c] = "loop" =>
          /\ cipher[c] = key
          /\ Len(buf[c]) = v
          /\ \A i \in 1..v : buf[c][i] = Block(key, i)
          /\ v > 0 => (v - 1) * BlockLen < need[c]
    /\ mu = NoCaller => v = 0

\* Every key that encrypted a released or consumed block is behind the one in
\* force.
SpentInv ==
    /\ \A b \in released \cup material : Len(b.key) < Len(key)
    /\ released \cap material = {}

DrbgInv == HolderInv /\ SpentInv
=============================================================================
