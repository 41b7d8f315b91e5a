--------------------------- MODULE AuditTrailProofs ---------------------------
(***************************************************************************)
(* Theorems about AuditTrail, for every set of requests, tenants and items.*)
(***************************************************************************)
EXTENDS AuditTrail, SequenceTheorems, FiniteSetTheorems, WellFoundedInduction, TLAPS

USE DEF Hashes, ZeroHash

\* The digest of an entry is a digest.
LEMMA HashTyping ==
    ASSUME NEW h \in Hashes, NEW e \in Entries
    PROVE  /\ ContentOf(e) \in Content
           /\ Append(h, ContentOf(e)) \in Hashes
  BY DEF ContentOf, Content, Entries, Ids

\* What a handler signs is an entry, as long as the request has an item left.
LEMMA SignedTyping ==
    ASSUME TypeOK, NEW r \in Requests, NEW p \in Payloads, pc[r] = "item"
    PROVE  /\ Signed(r, p) \in Entries
           /\ Signed(r, p).id = <<r, Len(results[r]) + 1>>
  <1>1. Len(results[r]) \in Nat
    BY DEF TypeOK
  <1>2. Len(results[r]) + 1 \in 1..Items[r]
    <2>1. Items[r] \in Nat
      BY RequestsAssumption
    <2>2. Len(results[r]) < Items[r]
      BY DEF TypeOK, Finished
    <2> QED
      BY <1>1, <2>1, <2>2
  <1>3. <<r, Len(results[r]) + 1>> \in Ids
    BY <1>2 DEF Ids
  <1> QED
    BY <1>3, RequestsAssumption, EmptySeq DEF Signed, Entries

-----------------------------------------------------------------------------
(* Type correctness, with what a handler holds while it holds an entry.    *)

Holding == {"seal", "link", "publish", "append"}

HoldsEntry ==
    \A r \in Requests : pc[r] \in Holding =>
        entry[r] \in Entries /\ entry[r].id = <<r, Len(results[r]) + 1>>

TypeInv == TypeOK /\ HoldsEntry

\* The initial state is well typed and no handler has an entry in hand.
LEMMA TypeInit == Init => TypeInv
  BY RequestsAssumption, EmptySeq DEF Init, TypeInv, TypeOK, HoldsEntry, Holding, Finished

\* Every step of every handler keeps the types and the entry in hand.
LEMMA TypeStep == TypeInv /\ [Next]_vars => TypeInv'
  <1> SUFFICES ASSUME TypeInv, [Next]_vars PROVE TypeInv'
    OBVIOUS
  <1> USE DEF TypeInv, TypeOK, HoldsEntry, Holding, Goto, Finished
  <1>1. ASSUME NEW r \in Requests, Arrive(r) PROVE TypeInv'
    BY <1>1 DEF Arrive
  <1>2. ASSUME NEW r \in Requests, SignEntry(r) PROVE TypeInv'
    <2>1. PICK p \in Payloads : entry' = [entry EXCEPT ![r] = Signed(r, p)]
      BY <1>2 DEF SignEntry
    <2>2. Signed(r, p) \in Entries /\ Signed(r, p).id = <<r, Len(results[r]) + 1>>
      BY <1>2, SignedTyping DEF SignEntry
    <2> QED
      BY <1>2, <2>1, <2>2 DEF SignEntry
  <1>3. ASSUME NEW r \in Requests, ItemFails(r) PROVE TypeInv'
    BY <1>3, RequestsAssumption DEF ItemFails
  <1>4. ASSUME NEW r \in Requests, SealLock(r) PROVE TypeInv'
    BY <1>4 DEF SealLock
  <1>5. ASSUME NEW r \in Requests, SealLink(r) PROVE TypeInv'
    <2>1. entry[r] \in Entries
      BY <1>5 DEF SealLink
    <2>2. Append(tip, ContentOf(entry[r])) \in Hashes
      BY <2>1, HashTyping
    <2>3. /\ entry'[r] \in Entries
          /\ entry'[r].id = entry[r].id
      BY <1>5, <2>1, <2>2 DEF SealLink, Entries
    <2>4. \A q \in Requests \ {r} : entry'[q] = entry[q]
      BY <1>5 DEF SealLink
    <2>5. entry' \in [Requests -> Entries \cup {NoEntry}]
      BY <1>5, <2>3, <2>4 DEF SealLink
    <2> QED
      BY <1>5, <2>3, <2>4, <2>5 DEF SealLink
  <1>6. ASSUME NEW r \in Requests, SealPublish(r) PROVE TypeInv'
    <2>1. entry[r] \in Entries
      BY <1>6 DEF SealPublish
    <2>2. entry[r].hash \in Hashes
      BY <2>1 DEF Entries
    <2>3. tip' \in Hashes /\ sealed' \in Seq(Entries)
      BY <1>6, <2>1, <2>2 DEF SealPublish
    <2>4. /\ pc' = [pc EXCEPT ![r] = "append"]
          /\ mu' = NoRequest
          /\ UNCHANGED <<entry, results, stored, lost>>
      BY <1>6 DEF SealPublish
    <2> QED
      BY <1>6, <2>3, <2>4 DEF SealPublish
  <1>7. ASSUME NEW r \in Requests, AppendOk(r) PROVE TypeInv'
    <2>0. entry[r] \in Entries /\ Len(results[r]) < Items[r]
      BY <1>7 DEF AppendOk
    <2>1. /\ results[r] \in Seq(Entries)
          /\ Items[r] \in Nat
          /\ Len(results[r]) \in Nat
      BY RequestsAssumption
    <2>2. /\ stored' \in Seq(Entries)
          /\ results' \in [Requests -> Seq(Entries)]
      BY <1>7, <2>0, <2>1 DEF AppendOk
    <2>3. /\ results'[r] = Append(results[r], entry[r])
          /\ Len(results'[r]) = Len(results[r]) + 1
          /\ \A q \in Requests \ {r} : results'[q] = results[q] /\ pc'[q] = pc[q]
      BY <1>7, <2>0, <2>1 DEF AppendOk
    <2>4. /\ pc'[r] \in {"reply", "item"}
          /\ pc'[r] = "item" => Len(results[r]) + 1 < Items[r]
      BY <1>7, <2>0, <2>1 DEF AppendOk
    <2>5. \A q \in Requests :
            pc'[q] \notin {"reply"} \cup Finished => Len(results'[q]) < Items[q]
      BY <2>3, <2>4
    <2>6. HoldsEntry'
      BY <1>7, <2>3, <2>4 DEF AppendOk
    <2>7. pc' \in [Requests -> {"idle", "item", "seal", "link", "publish", "append",
                                "reply"} \cup Finished]
      BY <1>7, <2>4 DEF AppendOk
    <2> QED
      BY <1>7, <2>2, <2>5, <2>6, <2>7 DEF AppendOk
  <1>8. ASSUME NEW r \in Requests, AppendFails(r) PROVE TypeInv'
    <2>1. entry[r] \in Entries
      BY <1>8 DEF AppendFails
    <2>2. stored' \in Seq(Entries) /\ lost' \subseteq Entries
      <3>1. CASE stored' = Append(stored, entry[r]) /\ UNCHANGED lost
        BY <2>1, <3>1
      <3>2. CASE lost' = lost \cup {entry[r]} /\ UNCHANGED stored
        BY <2>1, <3>2
      <3> QED
        BY <1>8, <3>1, <3>2 DEF AppendFails
    <2>3. pc' = [pc EXCEPT ![r] = "failed"] /\ UNCHANGED <<entry, results, tip, mu, sealed>>
      BY <1>8 DEF AppendFails
    <2> QED
      BY <2>2, <2>3
  <1>9. ASSUME NEW r \in Requests, Reply(r) PROVE TypeInv'
    <2>1. pc' = [pc EXCEPT ![r] = "ok"]
      BY <1>9 DEF Reply
    <2>2. UNCHANGED <<entry, results, tip, mu, stored, sealed, lost>>
      BY <1>9 DEF Reply
    <2> QED
      BY <2>1, <2>2
  <1>10. CASE UNCHANGED vars
    BY <1>10 DEF vars
  <1> QED
    BY <1>1, <1>2, <1>3, <1>4, <1>5, <1>6, <1>7, <1>8, <1>9, <1>10
    DEF Next, Handler, Served

\* Every variable keeps to its type, and a handler with an entry in hand holds
\* a well-formed one, the next of its request.
THEOREM TypeCorrect == Spec => []TypeOK
  <1>1. TypeInv => TypeOK
    BY DEF TypeInv
  <1> QED
    BY <1>1, TypeInit, TypeStep, PTL DEF Spec

-----------------------------------------------------------------------------
(* The chain: mutual exclusion in Seal and the link to the current tip.    *)

ChainInv == TypeInv /\ MutexInv /\ LinkInv /\ SealedIsChain

\* The chain starts at ZeroHash with Chain.mu free.
LEMMA ChainInit == Init => ChainInv
  BY TypeInit, RequestsAssumption DEF Init, ChainInv, MutexInv, LinkInv, SealedIsChain

\* A step outside Seal leaves the chain, the mutex and every entry in Seal alone.
LEMMA ChainUntouched ==
    ASSUME ChainInv, NEW r \in Requests,
           pc[r] \notin {"link", "publish"}, pc'[r] \notin {"link", "publish"},
           \A q \in Requests \ {r} : pc'[q] = pc[q] /\ entry'[q] = entry[q],
           UNCHANGED <<tip, mu, sealed>>
    PROVE  MutexInv' /\ LinkInv' /\ SealedIsChain'
  <1>1. MutexInv'
    BY DEF ChainInv, MutexInv
  <1>2. LinkInv'
    BY DEF ChainInv, LinkInv, ComputeHash, ContentOf
  <1>3. SealedIsChain'
    BY DEF ChainInv, SealedIsChain, ComputeHash, ContentOf
  <1> QED
    BY <1>1, <1>2, <1>3

\* Every step keeps Seal exclusive, its link current and the chain unforked.
LEMMA ChainStep == ChainInv /\ [Next]_vars => ChainInv'
  <1> SUFFICES ASSUME ChainInv, [Next]_vars PROVE MutexInv' /\ LinkInv' /\ SealedIsChain'
    BY TypeStep DEF ChainInv
  <1>t. TypeOK /\ HoldsEntry
    BY DEF ChainInv, TypeInv
  <1>p. pc \in [Requests -> {"idle", "item", "seal", "link", "publish", "append",
                            "reply", "ok", "failed"}]
    BY <1>t DEF TypeOK, Finished
  <1>e. entry \in [Requests -> Entries \cup {NoEntry}]
    BY <1>t DEF TypeOK
  <1>1. ASSUME NEW r \in Requests, Arrive(r) PROVE MutexInv' /\ LinkInv' /\ SealedIsChain'
    BY <1>1, <1>p, ChainUntouched DEF Arrive, Goto
  <1>2. ASSUME NEW r \in Requests, SignEntry(r) PROVE MutexInv' /\ LinkInv' /\ SealedIsChain'
    BY <1>2, <1>p, <1>e, ChainUntouched DEF SignEntry, Goto
  <1>3. ASSUME NEW r \in Requests, ItemFails(r) PROVE MutexInv' /\ LinkInv' /\ SealedIsChain'
    BY <1>3, <1>p, ChainUntouched DEF ItemFails, Goto
  <1>4. ASSUME NEW r \in Requests, SealLock(r) PROVE MutexInv' /\ LinkInv' /\ SealedIsChain'
    <2>1. /\ pc' = [pc EXCEPT ![r] = "link"] /\ pc[r] = "seal"
          /\ mu = NoRequest /\ mu' = r
          /\ UNCHANGED <<entry, tip, sealed>>
      BY <1>4 DEF SealLock, Goto
    <2>2. MutexInv'
      BY <2>1, <1>p, RequestsAssumption DEF ChainInv, MutexInv
    <2>3. LinkInv'
      BY <2>1, <1>p DEF ChainInv, LinkInv, ComputeHash, ContentOf
    <2>4. SealedIsChain'
      BY <2>1 DEF ChainInv, SealedIsChain, ComputeHash, ContentOf
    <2> QED
      BY <2>2, <2>3, <2>4
  <1>5. ASSUME NEW r \in Requests, SealLink(r) PROVE MutexInv' /\ LinkInv' /\ SealedIsChain'
    <2>1. /\ pc' = [pc EXCEPT ![r] = "publish"] /\ pc[r] = "link"
          /\ UNCHANGED <<mu, tip, sealed>>
      BY <1>5 DEF SealLink, Goto
    <2>2. entry[r] \in Entries
      BY <2>1, <1>t DEF HoldsEntry, Holding
    <2>3. /\ entry'[r] = [entry[r] EXCEPT !.prev = tip, !.hash = Append(tip, ContentOf(entry[r]))]
          /\ \A q \in Requests \ {r} : entry'[q] = entry[q]
      BY <1>5, <1>e DEF SealLink
    <2>4. MutexInv'
      BY <2>1, <1>p DEF ChainInv, MutexInv
    <2>5. entry'[r].prev = tip /\ entry'[r].hash = ComputeHash(entry'[r])
      BY <2>2, <2>3 DEF Entries, ComputeHash, ContentOf
    <2>6. ASSUME NEW q \in Requests, pc'[q] = "publish"
          PROVE  entry'[q].prev = tip' /\ entry'[q].hash = ComputeHash(entry'[q])
      <3>1. CASE q = r
        BY <2>1, <2>5, <3>1
      <3>2. CASE q # r
        BY <2>1, <2>3, <2>6, <3>2, <1>p DEF ChainInv, LinkInv
      <3> QED
        BY <3>1, <3>2
    <2>7. LinkInv'
      BY <2>6 DEF LinkInv, ComputeHash, ContentOf
    <2>8. SealedIsChain'
      BY <2>1 DEF ChainInv, SealedIsChain, ComputeHash, ContentOf
    <2> QED
      BY <2>4, <2>7, <2>8
  <1>6. ASSUME NEW r \in Requests, SealPublish(r) PROVE MutexInv' /\ LinkInv' /\ SealedIsChain'
    <2>1. /\ pc' = [pc EXCEPT ![r] = "append"] /\ pc[r] = "publish"
          /\ tip' = entry[r].hash /\ mu' = NoRequest
          /\ sealed' = Append(sealed, entry[r])
          /\ UNCHANGED entry
      BY <1>6 DEF SealPublish, Goto
    <2>2. MutexInv'
      BY <2>1, <1>p, RequestsAssumption DEF ChainInv, MutexInv
    <2>3. \A q \in Requests : pc'[q] # "publish"
      BY <2>1, <1>p DEF ChainInv, MutexInv
    <2>4. LinkInv'
      BY <2>3 DEF LinkInv
    <2>5. entry[r] \in Entries /\ sealed \in Seq(Entries)
      BY <2>1, <1>t DEF TypeOK, HoldsEntry, Holding
    <2>6. /\ Len(sealed') = Len(sealed) + 1 /\ Len(sealed) \in Nat
          /\ DOMAIN sealed' = 1..(Len(sealed) + 1)
          /\ DOMAIN sealed = 1..Len(sealed)
          /\ \A i \in 1..Len(sealed) : sealed'[i] = sealed[i]
          /\ sealed'[Len(sealed) + 1] = entry[r]
      BY <2>1, <2>5
    <2>7. entry[r].prev = tip /\ entry[r].hash = ComputeHash(entry[r])
      BY <2>1 DEF ChainInv, LinkInv
    <2>8. sealed = << >> <=> Len(sealed) = 0
      BY <2>5
    <2>9. ASSUME NEW i \in 1..(Len(sealed) + 1)
          PROVE  /\ sealed'[i].prev = (IF i = 1 THEN ZeroHash ELSE sealed'[i-1].hash)
                 /\ sealed'[i].hash = ComputeHash(sealed'[i])
      <3>1. CASE i \in 1..Len(sealed)
        BY <3>1, <2>6 DEF ChainInv, SealedIsChain
      <3>2. CASE i = Len(sealed) + 1 /\ Len(sealed) = 0
        BY <3>2, <2>6, <2>7, <2>8 DEF ChainInv, SealedIsChain
      <3>3. CASE i = Len(sealed) + 1 /\ Len(sealed) # 0
        BY <3>3, <2>6, <2>7, <2>8 DEF ChainInv, SealedIsChain
      <3> QED
        BY <3>1, <3>2, <3>3, <2>6
    <2>10. tip' = sealed'[Len(sealed')].hash /\ sealed' # << >>
      BY <2>1, <2>5, <2>6
    <2>11. SealedIsChain'
      BY <2>6, <2>9, <2>10 DEF SealedIsChain, ComputeHash, ContentOf
    <2> QED
      BY <2>2, <2>4, <2>11
  <1>7. ASSUME NEW r \in Requests, AppendOk(r) PROVE MutexInv' /\ LinkInv' /\ SealedIsChain'
    BY <1>7, <1>p, ChainUntouched DEF AppendOk, Goto
  <1>8. ASSUME NEW r \in Requests, AppendFails(r) PROVE MutexInv' /\ LinkInv' /\ SealedIsChain'
    BY <1>8, <1>p, ChainUntouched DEF AppendFails, Goto
  <1>9. ASSUME NEW r \in Requests, Reply(r) PROVE MutexInv' /\ LinkInv' /\ SealedIsChain'
    BY <1>9, <1>p, ChainUntouched DEF Reply, Goto
  <1>10. CASE UNCHANGED vars
    BY <1>10 DEF vars, ChainInv, MutexInv, LinkInv, SealedIsChain, ComputeHash, ContentOf
  <1> QED
    BY <1>1, <1>2, <1>3, <1>4, <1>5, <1>6, <1>7, <1>8, <1>9, <1>10
    DEF Next, Handler, Served

\* For any number of concurrent requests the sealed entries form one unforked
\* chain from ZeroHash whose last digest is Chain.prevHash.
THEOREM ChainLinear == Spec => []SealedIsChain
  <1>1. ChainInv => SealedIsChain
    BY DEF ChainInv
  <1> QED
    BY <1>1, ChainInit, ChainStep, PTL DEF Spec

-----------------------------------------------------------------------------
(* Identities: what was sealed, stored and collected for each request.     *)

IdsInv == ChainInv /\ IssuedInv /\ RecordInv

\* The second part of an identity numbers an item.
LEMMA IdIndex == ASSUME NEW e \in Entries PROVE e.id[2] \in Nat
  <1>1. e.id \in Ids
    BY DEF Entries
  <1>2. PICK q \in Requests : e.id \in {q} \X (1..Items[q])
    BY <1>1 DEF Ids
  <1> QED
    BY <1>2

\* The identities of a sequence that grows by one entry.
LEMMA IdsOfAppend ==
    ASSUME NEW s \in Seq(Entries), NEW e \in Entries
    PROVE  IdsOf(Append(s, e)) = IdsOf(s) \cup {e.id}
  <1>1. /\ DOMAIN s = 1..Len(s) /\ Len(s) \in Nat
        /\ DOMAIN Append(s, e) = 1..(Len(s) + 1)
        /\ \A i \in 1..Len(s) : Append(s, e)[i] = s[i]
        /\ Append(s, e)[Len(s) + 1] = e
    OBVIOUS
  <1>2. ASSUME NEW i \in DOMAIN Append(s, e)
        PROVE  Append(s, e)[i].id \in IdsOf(s) \cup {e.id}
    <2>1. CASE i \in 1..Len(s)
      BY <1>1, <2>1 DEF IdsOf
    <2>2. CASE i = Len(s) + 1
      BY <1>1, <2>2
    <2> QED
      BY <1>1, <2>1, <2>2
  <1>3. ASSUME NEW j \in DOMAIN s
        PROVE  s[j].id \in IdsOf(Append(s, e))
    BY <1>1 DEF IdsOf
  <1>4. e.id \in IdsOf(Append(s, e))
    BY <1>1 DEF IdsOf
  <1> QED
    BY <1>2, <1>3, <1>4 DEF IdsOf

\* The next entry of a request that is about to publish was not sealed before.
LEMMA FreshIdentity ==
    ASSUME IdsInv, NEW r \in Requests, pc[r] = "publish"
    PROVE  entry[r].id \notin SealedIds
  <1>1. /\ entry[r].id = <<r, Len(results[r]) + 1>>
        /\ Len(results[r]) \in Nat
    BY DEF IdsInv, ChainInv, TypeInv, TypeOK, HoldsEntry, Holding
  <1>2. SUFFICES ASSUME NEW i \in DOMAIN sealed, sealed[i].id = entry[r].id
                 PROVE  FALSE
    BY DEF SealedIds, IdsOf
  <1>3. sealed[i].id[1] = r /\ sealed[i].id[2] = Len(results[r]) + 1
    BY <1>1, <1>2
  <1>4. sealed[i].id[2] <= Len(results[r])
    BY <1>3 DEF IdsInv, IssuedInv
  <1> QED
    BY <1>1, <1>3, <1>4

\* A step that seals, stores and collects nothing, and starts no append.
LEMMA IdsUntouched ==
    ASSUME IdsInv, NEW r \in Requests, pc[r] # "append", pc'[r] # "append",
           pc[r] # "failed",
           \A q \in Requests \ {r} : pc'[q] = pc[q] /\ entry'[q] = entry[q],
           UNCHANGED <<results, stored, sealed>>
    PROVE  IssuedInv' /\ RecordInv'
  <1>1. IssuedInv'
    BY DEF IdsInv, IssuedInv
  <1>2. RecordInv'
    <2>1. SealedIds' = SealedIds /\ StoredIds' = StoredIds
      BY DEF SealedIds, StoredIds, IdsOf
    <2>2. \A q \in Requests : IdsOf(results[q])' = IdsOf(results[q])
      BY DEF IdsOf
    <2> QED
      BY <2>1, <2>2 DEF IdsInv, RecordInv
  <1> QED
    BY <1>1, <1>2

\* At first nothing is sealed, stored or collected.
LEMMA IdsInit == Init => IdsInv
  BY ChainInit DEF Init, IdsInv, IssuedInv, RecordInv, SealedIds, StoredIds, IdsOf

\* Every step keeps identities fresh and rows behind their seals.
LEMMA IdsStep == IdsInv /\ [Next]_vars => IdsInv'
  <1> SUFFICES ASSUME IdsInv, [Next]_vars PROVE IssuedInv' /\ RecordInv'
    BY ChainStep DEF IdsInv
  <1>t. TypeOK /\ HoldsEntry
    BY DEF IdsInv, ChainInv, TypeInv
  <1>p. pc \in [Requests -> {"idle", "item", "seal", "link", "publish", "append",
                            "reply", "ok", "failed"}]
    BY <1>t DEF TypeOK, Finished
  <1>e. /\ entry \in [Requests -> Entries \cup {NoEntry}]
        /\ results \in [Requests -> Seq(Entries)]
        /\ stored \in Seq(Entries) /\ sealed \in Seq(Entries)
    BY <1>t DEF TypeOK
  <1>h. \A q \in Requests : pc[q] \in Holding =>
            entry[q] \in Entries /\ entry[q].id = <<q, Len(results[q]) + 1>>
    BY <1>t DEF HoldsEntry
  <1>n. \A q \in Requests : Len(results[q]) \in Nat
    BY <1>e
  <1>1. ASSUME NEW r \in Requests, Arrive(r) PROVE IssuedInv' /\ RecordInv'
    BY <1>1, <1>p, IdsUntouched DEF Arrive, Goto
  <1>2. ASSUME NEW r \in Requests, SignEntry(r) PROVE IssuedInv' /\ RecordInv'
    BY <1>2, <1>p, <1>e, IdsUntouched DEF SignEntry, Goto
  <1>3. ASSUME NEW r \in Requests, ItemFails(r) PROVE IssuedInv' /\ RecordInv'
    BY <1>3, <1>p, IdsUntouched DEF ItemFails, Goto
  <1>4. ASSUME NEW r \in Requests, SealLock(r) PROVE IssuedInv' /\ RecordInv'
    BY <1>4, <1>p, IdsUntouched DEF SealLock, Goto
  <1>5. ASSUME NEW r \in Requests, SealLink(r) PROVE IssuedInv' /\ RecordInv'
    BY <1>5, <1>p, <1>e, IdsUntouched DEF SealLink, Goto
  <1>6. ASSUME NEW r \in Requests, SealPublish(r) PROVE IssuedInv' /\ RecordInv'
    <2>1. /\ pc' = [pc EXCEPT ![r] = "append"] /\ pc[r] = "publish"
          /\ sealed' = Append(sealed, entry[r])
          /\ UNCHANGED <<entry, results, stored>>
      BY <1>6 DEF SealPublish, Goto
    <2>2. entry[r] \in Entries /\ entry[r].id = <<r, Len(results[r]) + 1>>
      BY <2>1, <1>h DEF Holding
    <2>3. SealedIds' = SealedIds \cup {entry[r].id} /\ StoredIds' = StoredIds
      BY <1>e, <2>1, <2>2, IdsOfAppend DEF SealedIds, StoredIds
    <2>4. entry[r].id \notin SealedIds /\ StoredIds \subseteq SealedIds
      BY <2>1, FreshIdentity DEF IdsInv, RecordInv
    <2>5. RecordInv'
      BY <2>1, <2>2, <2>3, <2>4, <1>p DEF IdsInv, RecordInv
    <2>6. ASSUME NEW q \in Requests, pc'[q] # "failed",
                 NEW i \in DOMAIN sealed', sealed'[i].id[1] = q
          PROVE  \/ sealed'[i].id[2] <= Len(results'[q])
                 \/ pc'[q] = "append" /\ sealed'[i].id = entry'[q].id
      <3>1. CASE i \in DOMAIN sealed
        <4>1. sealed'[i] = sealed[i]
          BY <2>1, <2>2, <1>e, <3>1
        <4>2. pc[q] # "failed" /\ (pc[q] = "append" => pc'[q] = "append")
          BY <2>1, <2>6, <1>p
        <4> QED
          BY <2>1, <2>6, <3>1, <4>1, <4>2 DEF IdsInv, IssuedInv
      <3>2. CASE i \notin DOMAIN sealed
        <4>1. sealed'[i] = entry[r]
          BY <2>1, <2>2, <2>6, <1>e, <3>2
        <4> QED
          BY <2>1, <2>2, <2>6, <4>1, <1>p
      <3> QED
        BY <3>1, <3>2
    <2>7. IssuedInv'
      BY <2>6 DEF IssuedInv
    <2> QED
      BY <2>5, <2>7
  <1>7. ASSUME NEW r \in Requests, AppendOk(r) PROVE IssuedInv' /\ RecordInv'
    <2>1. /\ pc[r] = "append" /\ pc' = [pc EXCEPT ![r] = pc'[r]] /\ pc'[r] \in {"reply", "item"}
          /\ stored' = Append(stored, entry[r])
          /\ results' = [results EXCEPT ![r] = Append(@, entry[r])]
          /\ UNCHANGED <<entry, sealed>>
      BY <1>7, <1>p DEF AppendOk, Goto
    <2>2. entry[r] \in Entries /\ entry[r].id = <<r, Len(results[r]) + 1>>
      BY <2>1, <1>h DEF Holding
    <2>3. StoredIds' = StoredIds \cup {entry[r].id} /\ SealedIds' = SealedIds
      BY <1>e, <2>1, <2>2, IdsOfAppend DEF SealedIds, StoredIds
    <2>4. /\ Len(results'[r]) = Len(results[r]) + 1
          /\ \A q \in Requests \ {r} : results'[q] = results[q] /\ pc'[q] = pc[q]
      BY <2>1, <2>2, <1>e, <1>p
    <2>5. ASSUME NEW q \in Requests, pc'[q] # "failed",
                 NEW i \in DOMAIN sealed, sealed[i].id[1] = q
          PROVE  \/ sealed[i].id[2] <= Len(results'[q])
                 \/ pc'[q] = "append" /\ sealed[i].id = entry[q].id
      <3>1. CASE q # r
        BY <2>4, <2>5, <3>1 DEF IdsInv, IssuedInv
      <3>2. CASE q = r
        <4>1. sealed[i].id[2] \in Nat
          BY <1>e, IdIndex
        <4>2. \/ sealed[i].id[2] <= Len(results[r])
              \/ sealed[i].id = <<r, Len(results[r]) + 1>>
          BY <2>1, <2>2, <2>5, <3>2 DEF IdsInv, IssuedInv
        <4> QED
          BY <2>4, <3>2, <4>1, <4>2, <1>n
      <3> QED
        BY <3>1, <3>2
    <2>6. \A q \in Requests : pc'[q] = "append" => entry'[q].id \in SealedIds' \ StoredIds'
      <3> SUFFICES ASSUME NEW q \in Requests, pc'[q] = "append"
                   PROVE  entry'[q].id \in SealedIds' \ StoredIds'
        OBVIOUS
      <3>1. q # r /\ pc[q] = "append"
        BY <2>1, <2>4
      <3>2. entry[q].id # entry[r].id
        BY <3>1, <2>2, <1>h DEF Holding
      <3> QED
        BY <3>1, <3>2, <2>1, <2>3 DEF IdsInv, RecordInv
    <2>7. ASSUME NEW q \in Requests PROVE IdsOf(results'[q]) \subseteq StoredIds'
      <3>1. CASE q # r
        BY <3>1, <2>3, <2>4 DEF IdsInv, RecordInv
      <3>2. CASE q = r
        <4>1. results'[r] = Append(results[r], entry[r])
          BY <2>1, <1>e
        <4>2. IdsOf(Append(results[r], entry[r])) = IdsOf(results[r]) \cup {entry[r].id}
          BY <2>2, <1>e, IdsOfAppend
        <4> QED
          BY <3>2, <4>1, <4>2, <2>3 DEF IdsInv, RecordInv
      <3> QED
        BY <3>1, <3>2
    <2>8. StoredIds' \subseteq SealedIds'
      BY <2>1, <2>3 DEF IdsInv, RecordInv
    <2>9. IssuedInv'
      BY <2>1, <2>5 DEF IssuedInv
    <2>10. RecordInv'
      <3>1. \A q \in Requests : IdsOf(results'[q]) \subseteq StoredIds'
        BY <2>7
      <3> QED
        BY <2>6, <2>8, <3>1 DEF RecordInv, IdsOf
    <2> QED
      BY <2>9, <2>10
  <1>8. ASSUME NEW r \in Requests, AppendFails(r) PROVE IssuedInv' /\ RecordInv'
    <2>1. /\ pc[r] = "append" /\ pc' = [pc EXCEPT ![r] = "failed"]
          /\ UNCHANGED <<entry, results, sealed>>
      BY <1>8 DEF AppendFails, Goto
    <2>2. entry[r] \in Entries /\ entry[r].id = <<r, Len(results[r]) + 1>>
      BY <2>1, <1>h DEF Holding
    <2>3. /\ SealedIds' = SealedIds
          /\ StoredIds' \in {StoredIds, StoredIds \cup {entry[r].id}}
      <3>1. CASE stored' = stored
        BY <2>1, <3>1 DEF SealedIds, StoredIds
      <3>2. CASE stored' = Append(stored, entry[r])
        BY <1>e, <2>1, <2>2, <3>2, IdsOfAppend DEF SealedIds, StoredIds
      <3> QED
        BY <1>8, <3>1, <3>2 DEF AppendFails
    <2>4. IssuedInv'
      BY <2>1, <1>p DEF IdsInv, IssuedInv
    <2>5. \A q \in Requests : pc'[q] = "append" =>
              pc[q] = "append" /\ entry[q].id # entry[r].id
      BY <2>1, <2>2, <1>p, <1>h DEF Holding
    <2>6. RecordInv'
      BY <2>1, <2>3, <2>5 DEF IdsInv, RecordInv
    <2> QED
      BY <2>4, <2>6
  <1>9. ASSUME NEW r \in Requests, Reply(r) PROVE IssuedInv' /\ RecordInv'
    BY <1>9, <1>p, IdsUntouched DEF Reply, Goto
  <1>10. CASE UNCHANGED vars
    <2>1. UNCHANGED <<pc, entry, results, stored, sealed>>
      BY <1>10 DEF vars
    <2>2. SealedIds' = SealedIds /\ StoredIds' = StoredIds
      BY <2>1 DEF SealedIds, StoredIds, IdsOf
    <2>3. \A q \in Requests : IdsOf(results[q])' = IdsOf(results[q])
      BY <2>1 DEF IdsOf
    <2>4. RecordInv'
      BY <2>1, <2>2, <2>3 DEF IdsInv, RecordInv
    <2>5. IssuedInv'
      BY <2>1 DEF IdsInv, IssuedInv
    <2> QED
      BY <2>4, <2>5
  <1> QED
    BY <1>1, <1>2, <1>3, <1>4, <1>5, <1>6, <1>7, <1>8, <1>9, <1>10
    DEF Next, Handler, Served

-----------------------------------------------------------------------------
(* The store's readers: a loop over the rows that appends some of them.    *)

\* A set of numbers has a smallest element.
LEMMA LeastExists ==
    ASSUME NEW T, T \subseteq Nat, T # {}
    PROVE  \E m \in T : \A n \in T : m <= n
  <1>1. PICK m \in T : \A n \in T : ~ (<<n, m>> \in OpToRel(<, Nat))
    BY NatLessThanWellFounded, WFMin
  <1>2. \A n \in T : <<n, m>> \in OpToRel(<, Nat) <=> n < m
    BY Zenon DEF OpToRel
  <1>3. \A n \in T : ~ (n < m)
    BY <1>1, <1>2, Zenon
  <1>4. \A n \in T : n \in Int
    OBVIOUS
  <1>5. \A n \in T : m <= n
    BY <1>3, <1>4
  <1> QED
    BY <1>5

\* f is the collection after each of the first n rows: the loop's equation.
Walk(f, s, K, n) ==
    f = [i \in 0..n |-> IF i = 0 THEN << >>
                        ELSE IF i \in K THEN Append(f[i-1], s[i])
                        ELSE f[i-1]]

\* A walk that stops after n rows exists for every n.
LEMMA WalkExists ==
    ASSUME NEW s, NEW K, NEW n \in Nat
    PROVE  \E f : Walk(f, s, K, n)
  <1> DEFINE Bad == {k \in Nat : ~ \E f : Walk(f, s, K, k)}
  <1> SUFFICES ASSUME Bad # {} PROVE FALSE
    OBVIOUS
  <1>1. PICK k \in Bad : \A j \in Bad : k <= j
    <2>1. Bad \subseteq Nat
      OBVIOUS
    <2> HIDE DEF Bad
    <2> QED
      BY <2>1, LeastExists
  <1>2. k # 0
    <2>1. Walk([i \in 0..0 |-> << >>], s, K, 0)
      BY DEF Walk
    <2> QED
      BY <2>1
  <1>3. PICK f : Walk(f, s, K, k - 1)
    <2>1. k - 1 \in Nat /\ k - 1 \notin Bad
      BY <1>1, <1>2
    <2> QED
      BY <2>1
  <1> DEFINE g == [i \in 0..k |-> IF i = k THEN IF k \in K THEN Append(f[k-1], s[k]) ELSE f[k-1]
                                  ELSE f[i]]
  <1>4. k \in Nat
    OBVIOUS
  <1>5. ASSUME NEW i \in 0..k
        PROVE  g[i] = IF i = 0 THEN << >>
                      ELSE IF i \in K THEN Append(g[i-1], s[i])
                      ELSE g[i-1]
    <2>1. CASE i = k
      BY <1>2, <1>4, <2>1
    <2>2. CASE i # k
      <3>1. i \in 0..(k-1)
        BY <1>4, <2>2
      <3>2. f[i] = IF i = 0 THEN << >>
                   ELSE IF i \in K THEN Append(f[i-1], s[i])
                   ELSE f[i-1]
        BY <3>1, <1>3 DEF Walk
      <3>3. g[i] = f[i] /\ (i # 0 => g[i-1] = f[i-1])
        BY <1>4, <3>1
      <3> QED
        BY <3>2, <3>3
    <2> QED
      BY <2>1, <2>2
  <1>6. Walk(g, s, K, k)
    <2> DEFINE h == [i \in 0..k |-> IF i = 0 THEN << >>
                        ELSE IF i \in K THEN Append(g[i-1], s[i])
                        ELSE g[i-1]]
    <2>1. \A i \in 0..k : g[i] = h[i]
      BY <1>5
    <2>2. DOMAIN g = 0..k /\ DOMAIN h = 0..k /\ g = [i \in 0..k |-> g[i]] /\ h = [i \in 0..k |-> h[i]]
      OBVIOUS
    <2>3. g = h
      <3> HIDE DEF g, h
      <3> QED
        BY <2>1, <2>2
    <2> QED
      BY <2>3 DEF Walk
  <1> QED
    BY <1>6

\* The loop over all rows of s satisfies its equation.
LEMMA WalkedIsWalk ==
    ASSUME NEW s, Len(s) \in Nat, NEW K
    PROVE  Walk(Walked(s, K), s, K, Len(s))
  <1>1. Walked(s, K) = CHOOSE f : Walk(f, s, K, Len(s))
    BY DEF Walked, Walk
  <1> HIDE DEF Walk, Walked
  <1>2. \E f : Walk(f, s, K, Len(s))
    BY WalkExists
  <1> QED
    BY <1>1, <1>2

\* The rows collected after one more row.
LEMMA WalkOne ==
    ASSUME NEW f, NEW s, NEW K, NEW n \in Nat, Walk(f, s, K, n)
    PROVE  /\ f[0] = << >>
           /\ \A i \in 1..n : f[i] = IF i \in K THEN Append(f[i-1], s[i]) ELSE f[i-1]
  <1> DEFINE B(i) == IF i = 0 THEN << >>
                     ELSE IF i \in K THEN Append(f[i-1], s[i])
                     ELSE f[i-1]
  <1>1. f = [i \in 0..n |-> B(i)]
    BY DEF Walk
  <1>2. \A i \in 0..n : f[i] = B(i)
    <2> HIDE DEF B
    <2> QED
      BY <1>1
  <1>3. 0 \in 0..n /\ \A i \in 1..n : i \in 0..n /\ i # 0
    OBVIOUS
  <1> QED
    BY <1>2, <1>3, Zenon

\* Two walks over the same first rows collect the same.
LEMMA WalkAgrees ==
    ASSUME NEW f, NEW g, NEW s, NEW t, NEW J, NEW K, NEW n \in Nat, NEW m \in Nat, n <= m,
           Walk(f, s, J, n), Walk(g, t, K, m),
           \A i \in 1..n : s[i] = t[i] /\ (i \in J <=> i \in K)
    PROVE  f[n] = g[n]
  <1> DEFINE Bad == {k \in 0..n : f[k] # g[k]}
  <1> SUFFICES ASSUME Bad # {} PROVE FALSE
    OBVIOUS
  <1>1. PICK k \in Bad : \A j \in Bad : k <= j
    <2>1. Bad \subseteq Nat
      OBVIOUS
    <2> HIDE DEF Bad
    <2> QED
      BY <2>1, LeastExists
  <1>2. k \in 0..n /\ f[k] # g[k]
    OBVIOUS
  <1>3. k # 0
    BY <1>2, WalkOne
  <1>4. k - 1 \in 0..n /\ k - 1 \notin Bad
    BY <1>1, <1>2, <1>3
  <1>5. f[k-1] = g[k-1]
    BY <1>4
  <1>6. k \in 1..n /\ k \in 1..m
    BY <1>2, <1>3
  <1>7. /\ f[k] = IF k \in J THEN Append(f[k-1], s[k]) ELSE f[k-1]
        /\ g[k] = IF k \in K THEN Append(g[k-1], t[k]) ELSE g[k-1]
    BY <1>6, WalkOne
  <1> QED
    BY <1>2, <1>5, <1>6, <1>7

\* What is collected is a sequence of what was there.
LEMMA WalkType ==
    ASSUME NEW f, NEW s, NEW K, NEW n \in Nat, Walk(f, s, K, n),
           NEW S, \A i \in 1..n : s[i] \in S
    PROVE  f[n] \in Seq(S)
  <1> DEFINE Bad == {k \in 0..n : f[k] \notin Seq(S)}
  <1> SUFFICES ASSUME Bad # {} PROVE FALSE
    OBVIOUS
  <1>1. PICK k \in Bad : \A j \in Bad : k <= j
    <2>1. Bad \subseteq Nat
      OBVIOUS
    <2> HIDE DEF Bad
    <2> QED
      BY <2>1, LeastExists
  <1>2. k \in 0..n /\ f[k] \notin Seq(S)
    OBVIOUS
  <1>3. k # 0
    <2>1. f[0] = << >> /\ << >> \in Seq(S)
      BY WalkOne
    <2> QED
      BY <1>2, <2>1
  <1>4. k - 1 \in 0..n /\ k - 1 \notin Bad
    BY <1>1, <1>2, <1>3
  <1>5. f[k-1] \in Seq(S)
    BY <1>4
  <1>6. k \in 1..n
    BY <1>2, <1>3
  <1>7. f[k] = IF k \in K THEN Append(f[k-1], s[k]) ELSE f[k-1]
    BY <1>6, WalkOne
  <1> QED
    BY <1>2, <1>5, <1>6, <1>7

\* The rows a reader collects are rows of the sequence it walked.
LEMMA RowsAtType ==
    ASSUME NEW S, NEW s \in Seq(S), NEW K
    PROVE  RowsAt(s, K) \in Seq(ToSet(s))
  <1>1. Len(s) \in Nat /\ DOMAIN s = 1..Len(s)
    OBVIOUS
  <1>2. Walk(Walked(s, K), s, K, Len(s))
    BY <1>1, WalkedIsWalk
  <1>3. \A i \in 1..Len(s) : s[i] \in ToSet(s)
    BY <1>1 DEF ToSet
  <1> QED
    BY <1>1, <1>2, <1>3, WalkType DEF RowsAt

\* The row appended last is collected last, or not at all.
LEMMA RowsAtAppend ==
    ASSUME NEW S, NEW s \in Seq(S), NEW e \in S, NEW J, NEW K,
           \A i \in 1..Len(s) : i \in J <=> i \in K
    PROVE  RowsAt(Append(s, e), K) =
             IF Len(s) + 1 \in K THEN Append(RowsAt(s, J), e) ELSE RowsAt(s, J)
  <1> DEFINE t == Append(s, e)
             n == Len(s)
  <1>1. /\ n \in Nat /\ n + 1 \in Nat /\ Len(t) = n + 1
        /\ \A i \in 1..n : s[i] = t[i]
        /\ t[n+1] = e
    OBVIOUS
  <1>2. Walk(Walked(s, J), s, J, n)
    BY <1>1, WalkedIsWalk
  <1>3. Walk(Walked(t, K), t, K, n + 1)
    <2> HIDE DEF t, n
    <2> QED
      BY <1>1, WalkedIsWalk
  <1> HIDE DEF t, n
  <1>4. Walked(s, J)[n] = Walked(t, K)[n]
    <2>1. n <= n + 1
      BY <1>1
    <2>2. \A i \in 1..n : s[i] = t[i] /\ (i \in J <=> i \in K)
      BY <1>1 DEF n
    <2> QED
      BY <1>1, <1>2, <1>3, <2>1, <2>2, WalkAgrees
  <1>5. Walked(t, K)[n+1] =
          IF n + 1 \in K THEN Append(Walked(t, K)[n], t[n+1]) ELSE Walked(t, K)[n]
    <2>1. n + 1 \in 1..(n + 1) /\ (n + 1) - 1 = n
      BY <1>1
    <2>2. \A i \in 1..(n+1) : Walked(t, K)[i] =
             IF i \in K THEN Append(Walked(t, K)[i-1], t[i]) ELSE Walked(t, K)[i-1]
      BY <1>1, <1>3, WalkOne
    <2> QED
      BY <2>1, <2>2
  <1> QED
    BY <1>1, <1>4, <1>5 DEF RowsAt, t, n

-----------------------------------------------------------------------------
(* Where a sealed entry is.                                                *)

\* The elements of a sequence that grows by one.
LEMMA ToSetAppend ==
    ASSUME NEW S, NEW s \in Seq(S), NEW e \in S
    PROVE  ToSet(Append(s, e)) = ToSet(s) \cup {e}
  <1>1. /\ DOMAIN s = 1..Len(s) /\ Len(s) \in Nat
        /\ DOMAIN Append(s, e) = 1..(Len(s) + 1)
        /\ \A i \in 1..Len(s) : Append(s, e)[i] = s[i]
        /\ Append(s, e)[Len(s) + 1] = e
    OBVIOUS
  <1>2. ASSUME NEW i \in DOMAIN Append(s, e)
        PROVE  Append(s, e)[i] \in ToSet(s) \cup {e}
    <2>1. CASE i \in 1..Len(s)
      BY <1>1, <2>1 DEF ToSet
    <2>2. CASE i = Len(s) + 1
      BY <1>1, <2>2
    <2> QED
      BY <1>1, <2>1, <2>2
  <1>3. ASSUME NEW j \in DOMAIN s
        PROVE  s[j] \in ToSet(Append(s, e))
    BY <1>1 DEF ToSet
  <1>4. e \in ToSet(Append(s, e))
    BY <1>1 DEF ToSet
  <1> QED
    BY <1>2, <1>3, <1>4 DEF ToSet

\* A sequence without duplicates grows by something it does not hold.
LEMMA InjectiveAppend ==
    ASSUME NEW S, NEW s \in Seq(S), NEW e \in S, IsInjective(s), e \notin ToSet(s)
    PROVE  IsInjective(Append(s, e))
  <1>1. /\ DOMAIN s = 1..Len(s) /\ Len(s) \in Nat
        /\ DOMAIN Append(s, e) = 1..(Len(s) + 1)
        /\ \A i \in 1..Len(s) : Append(s, e)[i] = s[i] /\ s[i] # e
        /\ Append(s, e)[Len(s) + 1] = e
    BY DEF ToSet
  <1>2. \A a, b \in 1..Len(s) : s[a] = s[b] => a = b
    BY <1>1 DEF IsInjective
  <1> SUFFICES ASSUME NEW a \in 1..(Len(s) + 1), NEW b \in 1..(Len(s) + 1),
                      Append(s, e)[a] = Append(s, e)[b]
               PROVE  a = b
    BY <1>1 DEF IsInjective
  <1>3. CASE a \in 1..Len(s) /\ b \in 1..Len(s)
    BY <1>1, <1>2, <1>3
  <1>4. CASE a = Len(s) + 1 /\ b \in 1..Len(s)
    BY <1>1, <1>4
  <1>5. CASE a \in 1..Len(s) /\ b = Len(s) + 1
    BY <1>1, <1>5
  <1> QED
    BY <1>1, <1>3, <1>4, <1>5

\* An entry of the sequence has its identity there.
LEMMA IdOfMember ==
    ASSUME NEW s, NEW e, e.id \notin IdsOf(s)
    PROVE  e \notin ToSet(s)
  BY DEF IdsOf, ToSet

\* A step that seals, stores and loses nothing and leaves the same handlers, with
\* the same entries, about to append.
LEMMA PlacesUntouched ==
    ASSUME PlacesInv, NEW r \in Requests, pc[r] # "append", pc'[r] # "append",
           \A q \in Requests \ {r} : pc'[q] = pc[q] /\ entry'[q] = entry[q],
           UNCHANGED <<stored, sealed, lost>>
    PROVE  PlacesInv'
  <1>1. \A q \in Requests : pc'[q] = "append" <=> pc[q] = "append"
    OBVIOUS
  <1>2. \A q \in Requests : pc[q] = "append" => entry'[q] = entry[q]
    OBVIOUS
  <1>3. ToSet(stored)' = ToSet(stored) /\ ToSet(sealed)' = ToSet(sealed)
    BY DEF ToSet
  <1>4. IsInjective(stored)'
    BY DEF PlacesInv, IsInjective
  <1> QED
    BY <1>1, <1>2, <1>3, <1>4 DEF PlacesInv

\* At first nothing is sealed.
LEMMA PlacesInit == Init => PlacesInv
  BY DEF Init, PlacesInv, ToSet, IsInjective

\* Every step leaves every sealed entry in one place.
LEMMA PlacesStep == IdsInv /\ PlacesInv /\ [Next]_vars => PlacesInv'
  <1> SUFFICES ASSUME IdsInv, PlacesInv, [Next]_vars PROVE PlacesInv'
    OBVIOUS
  <1>t. TypeOK /\ HoldsEntry
    BY DEF IdsInv, ChainInv, TypeInv
  <1>p. pc \in [Requests -> {"idle", "item", "seal", "link", "publish", "append",
                            "reply", "ok", "failed"}]
    BY <1>t DEF TypeOK, Finished
  <1>e. /\ entry \in [Requests -> Entries \cup {NoEntry}]
        /\ stored \in Seq(Entries) /\ sealed \in Seq(Entries)
    BY <1>t DEF TypeOK
  <1>h. \A q \in Requests : pc[q] \in Holding =>
            entry[q] \in Entries /\ entry[q].id = <<q, Len(results[q]) + 1>>
    BY <1>t DEF HoldsEntry
  <1>1. ASSUME NEW r \in Requests, Arrive(r) PROVE PlacesInv'
    BY <1>1, <1>p, PlacesUntouched DEF Arrive, Goto
  <1>2. ASSUME NEW r \in Requests, SignEntry(r) PROVE PlacesInv'
    BY <1>2, <1>p, <1>e, PlacesUntouched DEF SignEntry, Goto
  <1>3. ASSUME NEW r \in Requests, ItemFails(r) PROVE PlacesInv'
    BY <1>3, <1>p, PlacesUntouched DEF ItemFails, Goto
  <1>4. ASSUME NEW r \in Requests, SealLock(r) PROVE PlacesInv'
    BY <1>4, <1>p, PlacesUntouched DEF SealLock, Goto
  <1>5. ASSUME NEW r \in Requests, SealLink(r) PROVE PlacesInv'
    BY <1>5, <1>p, <1>e, PlacesUntouched DEF SealLink, Goto
  <1>6. ASSUME NEW r \in Requests, SealPublish(r) PROVE PlacesInv'
    <2>1. /\ pc' = [pc EXCEPT ![r] = "append"] /\ pc[r] = "publish"
          /\ sealed' = Append(sealed, entry[r])
          /\ UNCHANGED <<entry, stored, lost>>
      BY <1>6 DEF SealPublish, Goto
    <2>2. entry[r] \in Entries
      BY <2>1, <1>h DEF Holding
    <2>3. ToSet(sealed)' = ToSet(sealed) \cup {entry[r]} /\ ToSet(stored)' = ToSet(stored)
      BY <1>e, <2>1, <2>2, ToSetAppend
    <2>4. entry[r] \notin ToSet(sealed)
      BY <2>1, FreshIdentity, IdOfMember DEF SealedIds
    <2>5. /\ \A q \in Requests : pc'[q] = "append" <=> (pc[q] = "append" \/ q = r)
          /\ IsInjective(stored)'
      BY <2>1, <1>p DEF PlacesInv, IsInjective
    <2>6. \A q \in Requests : pc'[q] = "append" => entry'[q] \in ToSet(sealed)' \ lost'
      BY <2>1, <2>3, <2>4, <2>5 DEF PlacesInv
    <2>7. \A e \in ToSet(sealed)' \ (ToSet(stored)' \cup lost') :
             \E q \in Requests : pc'[q] = "append" /\ entry'[q] = e
      BY <2>1, <2>3, <2>5 DEF PlacesInv
    <2> QED
      BY <2>1, <2>3, <2>5, <2>6, <2>7 DEF PlacesInv
  <1>7. ASSUME NEW r \in Requests, pc[r] = "append", pc'[r] # "append",
               \A q \in Requests \ {r} : pc'[q] = pc[q],
               UNCHANGED <<entry, sealed>>,
               \/ stored' = Append(stored, entry[r]) /\ UNCHANGED lost
               \/ lost' = lost \cup {entry[r]} /\ UNCHANGED stored
        PROVE  PlacesInv'
    <2>1. entry[r] \in Entries
      BY <1>7, <1>h DEF Holding
    <2>2. entry[r] \in ToSet(sealed) \ lost
      BY <1>7 DEF PlacesInv
    <2>3. entry[r] \notin ToSet(stored)
      BY <1>7, IdOfMember DEF IdsInv, RecordInv, StoredIds
    <2>4. ASSUME NEW q \in Requests, pc'[q] = "append"
          PROVE  q # r /\ pc[q] = "append" /\ entry[q] # entry[r]
      <3>1. q # r /\ pc[q] = "append"
        BY <1>7, <2>4
      <3>2. entry[q].id # entry[r].id
        BY <1>7, <3>1, <1>h DEF Holding
      <3> QED
        BY <3>1, <3>2
    <2>5. ToSet(sealed)' = ToSet(sealed)
      BY <1>7
    <2>6. \A e \in ToSet(sealed) \ (ToSet(stored) \cup lost \cup {entry[r]}) :
             \E q \in Requests : pc'[q] = "append" /\ entry'[q] = e
      <3> SUFFICES ASSUME NEW e \in ToSet(sealed) \ (ToSet(stored) \cup lost), e # entry[r]
                   PROVE  \E q \in Requests : pc'[q] = "append" /\ entry'[q] = e
        OBVIOUS
      <3>1. PICK q \in Requests : pc[q] = "append" /\ entry[q] = e
        BY DEF PlacesInv
      <3>2. q # r
        BY <3>1
      <3> QED
        BY <1>7, <3>1, <3>2
    <2>7. CASE stored' = Append(stored, entry[r]) /\ UNCHANGED lost
      <3>1. ToSet(stored)' = ToSet(stored) \cup {entry[r]}
        BY <1>e, <2>1, <2>7, ToSetAppend
      <3>2. IsInjective(stored')
        BY <1>e, <2>1, <2>3, <2>7, InjectiveAppend DEF PlacesInv
      <3>3. \A q \in Requests : pc'[q] = "append" => entry'[q] \in ToSet(sealed)' \ lost'
        BY <1>7, <2>4, <2>5, <2>7 DEF PlacesInv
      <3>4. \A e \in ToSet(sealed)' \ (ToSet(stored)' \cup lost') :
               \E q \in Requests : pc'[q] = "append" /\ entry'[q] = e
        BY <2>5, <2>6, <2>7, <3>1
      <3>5. /\ ToSet(stored)' \cup lost' \subseteq ToSet(sealed)'
            /\ ToSet(stored)' \cap lost' = {}
        BY <2>2, <2>5, <2>7, <3>1 DEF PlacesInv
      <3> QED
        BY <3>2, <3>3, <3>4, <3>5 DEF PlacesInv
    <2>8. CASE lost' = lost \cup {entry[r]} /\ UNCHANGED stored
      <3>1. ToSet(stored)' = ToSet(stored)
        BY <2>8
      <3>2. IsInjective(stored')
        BY <2>8 DEF PlacesInv
      <3>3. \A q \in Requests : pc'[q] = "append" => entry'[q] \in ToSet(sealed)' \ lost'
        BY <1>7, <2>4, <2>5, <2>8 DEF PlacesInv
      <3>4. \A e \in ToSet(sealed)' \ (ToSet(stored)' \cup lost') :
               \E q \in Requests : pc'[q] = "append" /\ entry'[q] = e
        BY <2>5, <2>6, <2>8, <3>1
      <3>5. /\ ToSet(stored)' \cup lost' \subseteq ToSet(sealed)'
            /\ ToSet(stored)' \cap lost' = {}
        BY <2>2, <2>3, <2>5, <2>8, <3>1 DEF PlacesInv
      <3> QED
        BY <3>2, <3>3, <3>4, <3>5 DEF PlacesInv
    <2> QED
      BY <1>7, <2>7, <2>8
  <1>8. ASSUME NEW r \in Requests, AppendOk(r) PROVE PlacesInv'
    <2>1. /\ pc[r] = "append" /\ pc'[r] \in {"reply", "item"}
          /\ \A q \in Requests \ {r} : pc'[q] = pc[q]
          /\ stored' = Append(stored, entry[r])
          /\ UNCHANGED <<entry, sealed, lost>>
      BY <1>8, <1>p DEF AppendOk, Goto
    <2> QED
      BY <2>1, <1>7
  <1>9. ASSUME NEW r \in Requests, AppendFails(r) PROVE PlacesInv'
    <2>1. /\ pc[r] = "append" /\ pc'[r] = "failed"
          /\ \A q \in Requests \ {r} : pc'[q] = pc[q]
          /\ UNCHANGED <<entry, sealed>>
          /\ \/ stored' = Append(stored, entry[r]) /\ UNCHANGED lost
             \/ lost' = lost \cup {entry[r]} /\ UNCHANGED stored
      BY <1>9, <1>p DEF AppendFails, Goto
    <2> QED
      BY <2>1, <1>7
  <1>10. ASSUME NEW r \in Requests, Reply(r) PROVE PlacesInv'
    BY <1>10, <1>p, PlacesUntouched DEF Reply, Goto
  <1>11. CASE UNCHANGED vars
    BY <1>11 DEF vars, PlacesInv, ToSet, IsInjective
  <1> QED
    BY <1>1, <1>2, <1>3, <1>4, <1>5, <1>6, <1>8, <1>9, <1>10, <1>11
    DEF Next, Handler, Served

\* Every sealed entry is in exactly one of three places: the rows, the hands of a
\* handler about to append it, or the entries whose insertion failed; and no row is
\* a duplicate or was never sealed.
THEOREM EntriesAccountedFor == Spec => []SealedAccountedFor
  <1>1. IdsInv /\ PlacesInv => SealedAccountedFor
    <2> SUFFICES ASSUME IdsInv, PlacesInv PROVE SealedAccountedFor
      OBVIOUS
    <2>1. ASSUME NEW e \in ToSet(sealed)
          PROVE  LET waiting == \E r \in Requests : pc[r] = "append" /\ entry[r] = e
                 IN  Cardinality({p \in {"row", "waiting", "lost"} :
                         \/ p = "row"     /\ e \in ToSet(stored)
                         \/ p = "waiting" /\ waiting
                         \/ p = "lost"    /\ e \in lost}) = 1
      <3> DEFINE waiting == \E r \in Requests : pc[r] = "append" /\ entry[r] = e
                 places == {p \in {"row", "waiting", "lost"} :
                               \/ p = "row"     /\ e \in ToSet(stored)
                               \/ p = "waiting" /\ waiting
                               \/ p = "lost"    /\ e \in lost}
      <3>1. waiting => e \notin ToSet(stored) /\ e \notin lost
        <4> SUFFICES ASSUME NEW r \in Requests, pc[r] = "append", entry[r] = e
                     PROVE  e \notin ToSet(stored) /\ e \notin lost
          OBVIOUS
        <4>1. e \notin ToSet(stored)
          BY IdOfMember DEF IdsInv, RecordInv, StoredIds
        <4> QED
          BY <4>1 DEF PlacesInv
      <3>2. e \in ToSet(stored) => e \notin lost
        BY DEF PlacesInv
      <3>3. e \in ToSet(stored) \/ e \in lost \/ waiting
        BY DEF PlacesInv
      <3>4. \E p : places = {p}
        <4>1. CASE e \in ToSet(stored)
          <5>1. places = {"row"}
            BY <4>1, <3>1, <3>2
          <5> QED
            BY <5>1
        <4>2. CASE e \in lost
          <5>1. places = {"lost"}
            BY <4>2, <3>1, <3>2
          <5> QED
            BY <5>1
        <4>3. CASE waiting
          <5>1. places = {"waiting"}
            BY <4>3, <3>1
          <5> QED
            BY <5>1
        <4> QED
          BY <3>3, <4>1, <4>2, <4>3
      <3> HIDE DEF places
      <3>5. Cardinality(places) = 1
        BY <3>4, FS_Singleton
      <3> QED
        BY <3>5 DEF places
    <2> QED
      BY <2>1 DEF SealedAccountedFor, PlacesInv
  <1> QED
    BY <1>1, IdsInit, IdsStep, PlacesInit, PlacesStep, PTL DEF Spec

-----------------------------------------------------------------------------
(* The order of a request's entries.                                       *)

\* A request's entries in a sequence that grows by one.
LEMMA OwnAppend ==
    ASSUME NEW s \in Seq(Entries), NEW e \in Entries, NEW r
    PROVE  OwnEntries(Append(s, e), r) =
             IF e.id[1] = r THEN Append(OwnEntries(s, r), e) ELSE OwnEntries(s, r)
  <1> DEFINE t == Append(s, e)
             J == {i \in DOMAIN s : s[i].id[1] = r}
             K == {i \in DOMAIN t : t[i].id[1] = r}
  <1>1. /\ DOMAIN s = 1..Len(s) /\ Len(s) \in Nat
        /\ DOMAIN t = 1..(Len(s) + 1)
        /\ \A i \in 1..Len(s) : t[i] = s[i]
        /\ t[Len(s) + 1] = e
    OBVIOUS
  <1> HIDE DEF t
  <1>2. \A i \in 1..Len(s) : i \in J <=> i \in K
    BY <1>1
  <1>3. Len(s) + 1 \in K <=> e.id[1] = r
    BY <1>1
  <1>4. OwnEntries(s, r) = RowsAt(s, J) /\ OwnEntries(t, r) = RowsAt(t, K)
    BY DEF OwnEntries
  <1> HIDE DEF J, K
  <1>5. RowsAt(t, K) = IF Len(s) + 1 \in K THEN Append(RowsAt(s, J), e) ELSE RowsAt(s, J)
    BY <1>2, RowsAtAppend DEF t
  <1> QED
    BY <1>3, <1>4, <1>5 DEF t

\* In an empty sequence no request has an entry.
LEMMA OwnEmpty == \A r : OwnEntries(<< >>, r) = << >>
  <1> TAKE r
  <1> DEFINE K == {i \in DOMAIN << >> : << >>[i].id[1] = r}
  <1>1. Len(<< >>) = 0
    OBVIOUS
  <1>2. Walk(Walked(<< >>, K), << >>, K, 0)
    <2> HIDE DEF K
    <2> QED
      BY <1>1, WalkedIsWalk
  <1>3. Walked(<< >>, K)[0] = << >>
    <2> HIDE DEF K
    <2> QED
      BY <1>2, WalkOne
  <1> QED
    BY <1>1, <1>3 DEF OwnEntries, RowsAt

\* A step that seals, stores and collects nothing and starts no append.
LEMMA OrderUntouched ==
    ASSUME OrderInv, NEW r \in Requests, pc[r] \notin {"append", "failed"},
           pc'[r] \notin {"append", "reply"}, pc'[r] = "ok" => pc[r] = "reply",
           \A q \in Requests \ {r} : pc'[q] = pc[q] /\ entry'[q] = entry[q],
           UNCHANGED <<results, stored, sealed>>
    PROVE  OrderInv'
  <1> SUFFICES ASSUME NEW q \in Requests
               PROVE  /\ pc'[q] # "failed" =>
                           /\ OwnEntries(stored', q) = results'[q]
                           /\ OwnEntries(sealed', q) =
                                 IF pc'[q] = "append" THEN Append(results'[q], entry'[q])
                                 ELSE results'[q]
                      /\ pc'[q] \in {"reply", "ok"} => Len(results'[q]) = Items[q]
    BY DEF OrderInv
  <1>1. CASE q = r
    BY <1>1 DEF OrderInv
  <1>2. CASE q # r
    BY <1>2 DEF OrderInv
  <1> QED
    BY <1>1, <1>2

\* At first nobody has an entry.
LEMMA OrderInit == Init => OrderInv
  BY OwnEmpty DEF Init, OrderInv

\* Every step keeps the rows of a request in the order of its items.
LEMMA OrderStep == IdsInv /\ OrderInv /\ [Next]_vars => OrderInv'
  <1> SUFFICES ASSUME IdsInv, OrderInv, [Next]_vars PROVE OrderInv'
    OBVIOUS
  <1>t. TypeOK /\ HoldsEntry
    BY DEF IdsInv, ChainInv, TypeInv
  <1>p. pc \in [Requests -> {"idle", "item", "seal", "link", "publish", "append",
                            "reply", "ok", "failed"}]
    BY <1>t DEF TypeOK, Finished
  <1>e. /\ entry \in [Requests -> Entries \cup {NoEntry}]
        /\ results \in [Requests -> Seq(Entries)]
        /\ stored \in Seq(Entries) /\ sealed \in Seq(Entries)
    BY <1>t DEF TypeOK
  <1>h. \A q \in Requests : pc[q] \in Holding => entry[q] \in Entries /\ entry[q].id[1] = q
    BY <1>t DEF HoldsEntry
  <1> DEFINE Goal(q) ==
        /\ pc'[q] # "failed" =>
              /\ OwnEntries(stored', q) = results'[q]
              /\ OwnEntries(sealed', q) =
                    IF pc'[q] = "append" THEN Append(results'[q], entry'[q]) ELSE results'[q]
        /\ pc'[q] \in {"reply", "ok"} => Len(results'[q]) = Items[q]
  <1>g. (\A q \in Requests : Goal(q)) => OrderInv'
    BY DEF OrderInv
  <1>1. ASSUME NEW r \in Requests, Arrive(r) PROVE OrderInv'
    BY <1>1, <1>p, OrderUntouched DEF Arrive, Goto
  <1>2. ASSUME NEW r \in Requests, SignEntry(r) PROVE OrderInv'
    BY <1>2, <1>p, <1>e, OrderUntouched DEF SignEntry, Goto
  <1>3. ASSUME NEW r \in Requests, ItemFails(r) PROVE OrderInv'
    BY <1>3, <1>p, OrderUntouched DEF ItemFails, Goto
  <1>4. ASSUME NEW r \in Requests, SealLock(r) PROVE OrderInv'
    BY <1>4, <1>p, OrderUntouched DEF SealLock, Goto
  <1>5. ASSUME NEW r \in Requests, SealLink(r) PROVE OrderInv'
    BY <1>5, <1>p, <1>e, OrderUntouched DEF SealLink, Goto
  <1>6. ASSUME NEW r \in Requests, SealPublish(r) PROVE OrderInv'
    <2>1. /\ pc[r] = "publish" /\ pc'[r] = "append"
          /\ \A q \in Requests \ {r} : pc'[q] = pc[q]
          /\ sealed' = Append(sealed, entry[r])
          /\ UNCHANGED <<entry, results, stored>>
      BY <1>6, <1>p DEF SealPublish, Goto
    <2>2. entry[r] \in Entries /\ entry[r].id[1] = r
      BY <2>1, <1>h DEF Holding
    <2>3. \A q \in Requests : OwnEntries(sealed', q) =
             IF q = r THEN Append(OwnEntries(sealed, q), entry[r]) ELSE OwnEntries(sealed, q)
      BY <1>e, <2>1, <2>2, OwnAppend
    <2>4. ASSUME NEW q \in Requests PROVE Goal(q)
      <3>1. CASE q = r
        BY <2>1, <2>3, <3>1 DEF OrderInv
      <3>2. CASE q # r
        BY <2>1, <2>3, <3>2 DEF OrderInv
      <3> QED
        BY <3>1, <3>2
    <2> QED
      BY <2>4, <1>g
  <1>7. ASSUME NEW r \in Requests, AppendOk(r) PROVE OrderInv'
    <2>1. /\ pc[r] = "append"
          /\ pc'[r] = IF Len(results[r]) + 1 = Items[r] THEN "reply" ELSE "item"
          /\ results'[r] = Append(results[r], entry[r])
          /\ \A q \in Requests \ {r} : pc'[q] = pc[q] /\ results'[q] = results[q]
          /\ stored' = Append(stored, entry[r])
          /\ UNCHANGED <<entry, sealed>>
      BY <1>7, <1>p, <1>e DEF AppendOk, Goto
    <2>2. entry[r] \in Entries /\ entry[r].id[1] = r
      BY <2>1, <1>h DEF Holding
    <2>3. \A q \in Requests : OwnEntries(stored', q) =
             IF q = r THEN Append(OwnEntries(stored, q), entry[r]) ELSE OwnEntries(stored, q)
      BY <1>e, <2>1, <2>2, OwnAppend
    <2>4. Len(results'[r]) = Len(results[r]) + 1
      BY <1>e, <2>1, <2>2
    <2>5. ASSUME NEW q \in Requests PROVE Goal(q)
      <3>1. CASE q = r
        BY <2>1, <2>3, <2>4, <3>1 DEF OrderInv
      <3>2. CASE q # r
        BY <2>1, <2>3, <3>2 DEF OrderInv
      <3> QED
        BY <3>1, <3>2
    <2> QED
      BY <2>5, <1>g
  <1>8. ASSUME NEW r \in Requests, AppendFails(r) PROVE OrderInv'
    <2>1. /\ pc[r] = "append" /\ pc'[r] = "failed"
          /\ \A q \in Requests \ {r} : pc'[q] = pc[q]
          /\ UNCHANGED <<entry, results, sealed>>
          /\ stored' \in {stored, Append(stored, entry[r])}
      BY <1>8, <1>p DEF AppendFails, Goto
    <2>2. entry[r] \in Entries /\ entry[r].id[1] = r
      BY <2>1, <1>h DEF Holding
    <2>3. ASSUME NEW q \in Requests \ {r}
          PROVE  OwnEntries(stored', q) = OwnEntries(stored, q)
      <3>1. OwnEntries(Append(stored, entry[r]), q) = OwnEntries(stored, q)
        BY <1>e, <2>2, OwnAppend
      <3> QED
        BY <2>1, <3>1
    <2>4. ASSUME NEW q \in Requests PROVE Goal(q)
      <3>1. CASE q = r
        BY <2>1, <3>1
      <3>2. CASE q # r
        BY <2>1, <2>3, <3>2 DEF OrderInv
      <3> QED
        BY <3>1, <3>2
    <2> QED
      BY <2>4, <1>g
  <1>9. ASSUME NEW r \in Requests, Reply(r) PROVE OrderInv'
    BY <1>9, <1>p, OrderUntouched DEF Reply, Goto
  <1>10. CASE UNCHANGED vars
    BY <1>10 DEF vars, OrderInv
  <1> QED
    BY <1>1, <1>2, <1>3, <1>4, <1>5, <1>6, <1>7, <1>8, <1>9, <1>10
    DEF Next, Handler, Served

\* A response of status 200 reports one entry per item, and those entries, in that
\* order, are exactly the request's rows and the request's part of the chain.
THEOREM AnswersAreRecorded == Spec => []OkMeansRecorded
  <1>1. OrderInv => OkMeansRecorded
    BY DEF OrderInv, OkMeansRecorded
  <1> QED
    BY <1>1, IdsInit, IdsStep, OrderInit, OrderStep, PTL DEF Spec

-----------------------------------------------------------------------------
(* What verification of stored rows establishes.                           *)

\* VerifyEntries answers -1 exactly when no entry is bad.
LEMMA VerifyMeansNoneBad ==
    ASSUME NEW es \in Seq(Entries), NEW first
    PROVE  VerifyEntries(es, first) = -1 <=> BadEntries(es, first) = {}
  <1> DEFINE bad == BadEntries(es, first)
  <1>1. bad \subseteq 1..Len(es)
    BY DEF BadEntries
  <1>2. Len(es) \in Nat
    OBVIOUS
  <1>3. ASSUME bad # {} PROVE Min(bad) - 1 # -1
    <2>1. \E m \in bad : \A n \in bad : m <= n
      <3>1. bad \subseteq Nat
        BY <1>1, <1>2
      <3> HIDE DEF bad
      <3> QED
        BY <1>3, <3>1, LeastExists
    <2>2. Min(bad) \in bad
      <3> HIDE DEF bad
      <3> QED
        BY <2>1 DEF Min
    <2>3. Min(bad) \in 1..Len(es)
      BY <1>1, <2>2
    <2> HIDE DEF bad
    <2> QED
      BY <1>2, <2>3
  <1> HIDE DEF bad
  <1>4. VerifyEntries(es, first) = IF bad = {} THEN -1 ELSE Min(bad) - 1
    BY DEF VerifyEntries, bad
  <1> QED
    BY <1>3, <1>4 DEF bad

\* A digest that follows on another commits to one entry more.
LEMMA DigestGrows ==
    ASSUME NEW e \in Entries, e.hash = ComputeHash(e)
    PROVE  Len(e.prev) \in Nat /\ Len(e.hash) = Len(e.prev) + 1
  <1>1. e.prev \in Hashes /\ ContentOf(e) \in Content
    BY HashTyping, EmptySeq DEF Entries
  <1> QED
    BY <1>1 DEF ComputeHash

\* In entries that pass verification, each digest commits to what the first one
\* follows on and to the entries up to it.
LEMMA DigestCounts ==
    ASSUME NEW es \in Seq(Entries), NEW first \in Hashes, BadEntries(es, first) = {}
    PROVE  \A i \in 1..Len(es) : Len(es[i].hash) = Len(first) + i
  <1> DEFINE Bad == {i \in 1..Len(es) : Len(es[i].hash) # Len(first) + i}
  <1> SUFFICES ASSUME Bad # {} PROVE FALSE
    OBVIOUS
  <1>n. Len(es) \in Nat /\ DOMAIN es = 1..Len(es) /\ Len(first) \in Nat
    OBVIOUS
  <1>1. PICK k \in Bad : \A j \in Bad : k <= j
    <2>1. Bad \subseteq Nat
      BY <1>n
    <2> HIDE DEF Bad
    <2> QED
      BY <2>1, LeastExists
  <1>2. k \in 1..Len(es) /\ Len(es[k].hash) # Len(first) + k
    OBVIOUS
  <1>3. /\ es[k].prev = (IF k = 1 THEN first ELSE es[k-1].hash)
        /\ es[k].hash = ComputeHash(es[k])
    BY <1>2, <1>n DEF BadEntries
  <1>4. Len(es[k].hash) = Len(es[k].prev) + 1
    <2>1. es[k] \in Entries
      BY <1>2, <1>n
    <2> QED
      BY <1>3, <2>1, DigestGrows
  <1>5. CASE k = 1
    BY <1>2, <1>3, <1>4, <1>5, <1>n
  <1>6. CASE k # 1
    <2>1. k \in Nat /\ k - 1 \in 1..Len(es)
      BY <1>2, <1>6, <1>n
    <2>b. k - 1 \notin Bad
      <3> HIDE DEF Bad
      <3> QED
        BY <1>1, <2>1
    <2>2. Len(es[k-1].hash) = Len(first) + (k - 1)
      BY <2>1, <2>b
    <2> QED
      BY <1>2, <1>3, <1>4, <1>6, <1>n, <2>2
  <1> QED
    BY <1>5, <1>6

\* ZeroHash commits to nothing.
LEMMA ZeroHashType == ZeroHash \in Hashes /\ Len(ZeroHash) = 0
  <1>1. << >> \in Seq(Content)
    OBVIOUS
  <1>2. Len(<< >>) = 0
    OBVIOUS
  <1> QED
    BY <1>1, <1>2 DEF Hashes, ZeroHash

\* The chain itself passes verification, and the digest of its i-th entry commits
\* to i entries.
LEMMA ChainCounts ==
    ASSUME ChainInv
    PROVE  /\ sealed \in Seq(Entries)
           /\ BadEntries(sealed, ZeroHash) = {}
           /\ \A i \in 1..Len(sealed) : /\ sealed[i] \in Entries
                                        /\ Len(sealed[i].hash) = i
  <1>1. sealed \in Seq(Entries)
    BY DEF ChainInv, TypeInv, TypeOK
  <1>2. BadEntries(sealed, ZeroHash) = {}
    BY DEF ChainInv, SealedIsChain, BadEntries
  <1>3. \A i \in 1..Len(sealed) : Len(sealed[i].hash) = Len(ZeroHash) + i
    BY <1>1, <1>2, ZeroHashType, DigestCounts
  <1>4. \A i \in 1..Len(sealed) : Len(sealed[i].hash) = 0 + i
    BY <1>3, ZeroHashType
  <1>5. \A i \in 1..Len(sealed) : i \in Nat /\ sealed[i] \in Entries
    BY <1>1
  <1> QED
    BY <1>1, <1>2, <1>4, <1>5

\* Entries of the chain that pass verification from the digest first are
\* consecutive entries of the chain: those after the first Len(first).
LEMMA VerifiedIsSegment ==
    ASSUME ChainInv, NEW es \in Seq(ToSet(sealed)), NEW first \in Hashes,
           BadEntries(es, first) = {}
    PROVE  \A i \in 1..Len(es) :
              Len(first) + i \in 1..Len(sealed) /\ es[i] = sealed[Len(first) + i]
  <1>1. /\ sealed \in Seq(Entries) /\ DOMAIN sealed = 1..Len(sealed)
        /\ \A j \in 1..Len(sealed) : sealed[j] \in Entries /\ Len(sealed[j].hash) = j
    BY ChainCounts
  <1>2. \A e \in ToSet(sealed) : \E j \in 1..Len(sealed) : e = sealed[j]
    BY <1>1 DEF ToSet
  <1>3. ToSet(sealed) \subseteq Entries
    BY <1>1, <1>2
  <1>4. es \in Seq(Entries)
    BY <1>3, SeqMonotonic
  <1>5. \A i \in 1..Len(es) : Len(es[i].hash) = Len(first) + i
    BY <1>4, DigestCounts
  <1>6. \A i \in 1..Len(es) : es[i] \in ToSet(sealed)
    OBVIOUS
  <1> SUFFICES ASSUME NEW i \in 1..Len(es)
               PROVE  Len(first) + i \in 1..Len(sealed) /\ es[i] = sealed[Len(first) + i]
    OBVIOUS
  <1>7. PICK j \in 1..Len(sealed) : es[i] = sealed[j]
    BY <1>2, <1>6
  <1>8. j = Len(first) + i
    BY <1>1, <1>5, <1>7
  <1> QED
    BY <1>7, <1>8

\* Consecutive entries of the chain pass verification from the digest the first of
\* them follows on.
LEMMA SegmentVerifies ==
    ASSUME ChainInv, NEW es, NEW k \in Nat, NEW first,
           DOMAIN es = 1..Len(es), Len(es) \in Nat,
           \A i \in 1..Len(es) : k + i \in 1..Len(sealed) /\ es[i] = sealed[k + i],
           first = IF k = 0 THEN ZeroHash ELSE sealed[k].hash
    PROVE  BadEntries(es, first) = {}
  <1>1. /\ DOMAIN sealed = 1..Len(sealed)
        /\ \A j \in 1..Len(sealed) :
              /\ sealed[j].prev = (IF j = 1 THEN ZeroHash ELSE sealed[j-1].hash)
              /\ sealed[j].hash = ComputeHash(sealed[j])
    BY ChainCounts DEF ChainInv, SealedIsChain
  <1>2. ASSUME NEW i \in 1..Len(es)
        PROVE  /\ es[i].prev = (IF i = 1 THEN first ELSE es[i-1].hash)
               /\ es[i].hash = ComputeHash(es[i])
    <2>1. /\ sealed[k + i].prev = (IF k + i = 1 THEN ZeroHash ELSE sealed[(k + i) - 1].hash)
          /\ sealed[k + i].hash = ComputeHash(sealed[k + i])
      BY <1>1
    <2>2. CASE i = 1
      <3>1. (k + i) - 1 = k /\ (k + i = 1 <=> k = 0)
        BY <2>2
      <3> QED
        BY <2>1, <2>2, <3>1
    <2>3. CASE i # 1
      <3>1. i - 1 \in 1..Len(es) /\ k + (i - 1) = (k + i) - 1 /\ k + i # 1
        BY <2>3
      <3>2. es[i-1] = sealed[(k + i) - 1]
        BY <3>1
      <3> QED
        BY <2>1, <2>3, <3>1, <3>2
    <2> QED
      BY <2>2, <2>3
  <1> QED
    BY <1>2 DEF BadEntries

\* The readers return entries of the chain.
LEMMA ReadersType ==
    ASSUME ChainInv, PlacesInv, NEW K
    PROVE  RowsAt(stored, K) \in Seq(ToSet(sealed)) /\ RowsAt(stored, K) \in Seq(Entries)
  <1>1. stored \in Seq(Entries)
    BY DEF ChainInv, TypeInv, TypeOK
  <1>2. RowsAt(stored, K) \in Seq(ToSet(stored))
    BY <1>1, RowsAtType
  <1>3. ToSet(stored) \subseteq ToSet(sealed)
    BY DEF PlacesInv
  <1>4. ToSet(stored) \subseteq Entries
    BY <1>1 DEF ToSet
  <1> QED
    BY <1>2, <1>3, <1>4, SeqMonotonic

\* VerifyChain answers true exactly for a prefix of the chain.
LEMMA VerifyChainIsExact ==
    ASSUME ChainInv, PlacesInv
    PROVE  VerifyChainExact
  <1> SUFFICES ASSUME NEW t \in Tenants
               PROVE  VerifyChain(t) <=> IsPrefix(TenantEntries(t), sealed)
    BY DEF VerifyChainExact
  <1> DEFINE es == TenantEntries(t)
  <1>1. es \in Seq(ToSet(sealed)) /\ es \in Seq(Entries)
    BY ReadersType DEF TenantEntries
  <1>2. VerifyChain(t) <=> BadEntries(es, ZeroHash) = {}
    BY <1>1, VerifyMeansNoneBad DEF VerifyChain
  <1>3. sealed \in Seq(Entries) /\ Len(sealed) \in Nat /\ Len(es) \in Nat
    BY <1>1, ChainCounts
  <1> HIDE DEF es
  <1>4. ASSUME BadEntries(es, ZeroHash) = {} PROVE IsPrefix(es, sealed)
    <2>1. \A i \in 1..Len(es) : /\ Len(ZeroHash) + i \in 1..Len(sealed)
                                /\ es[i] = sealed[Len(ZeroHash) + i]
      BY <1>1, <1>4, ZeroHashType, VerifiedIsSegment
    <2>2. \A i \in 1..Len(es) : Len(ZeroHash) + i = i
      BY ZeroHashType
    <2>3. \A i \in 1..Len(es) : i \in 1..Len(sealed) /\ es[i] = sealed[i]
      BY <2>1, <2>2
    <2>4. Len(es) <= Len(sealed)
      BY <1>3, <2>3
    <2>5. SubSeq(es, 1, Len(es)) = SubSeq(sealed, 1, Len(es))
      BY <1>1, <1>3, <2>3, <2>4
    <2> QED
      BY <2>4, <2>5 DEF IsPrefix
  <1>5. ASSUME IsPrefix(es, sealed) PROVE BadEntries(es, ZeroHash) = {}
    <2>1. Len(es) <= Len(sealed) /\ SubSeq(es, 1, Len(es)) = SubSeq(sealed, 1, Len(es))
      BY <1>5 DEF IsPrefix
    <2>2. \A i \in 1..Len(es) : SubSeq(es, 1, Len(es))[i] = es[i]
                                /\ SubSeq(sealed, 1, Len(es))[i] = sealed[i]
      BY <1>1, <1>3, <2>1
    <2>3. \A i \in 1..Len(es) : 0 + i \in 1..Len(sealed) /\ es[i] = sealed[0 + i]
      BY <1>3, <2>1, <2>2
    <2>4. DOMAIN es = 1..Len(es)
      BY <1>1
    <2> QED
      BY <1>3, <2>3, <2>4, SegmentVerifies
  <1> QED
    BY <1>2, <1>4, <1>5 DEF es

\* hash_chain_valid is true exactly for consecutive entries of the chain.
LEMMA RoundCheckIsExact ==
    ASSUME ChainInv, PlacesInv
    PROVE  RoundCheckExact
  <1> SUFFICES ASSUME NEW rd \in Rounds
               PROVE  HashChainValid(rd) <=>
                        \E i, j \in DOMAIN sealed : i <= j /\ GetByRound(rd) = SubSeq(sealed, i, j)
    BY DEF RoundCheckExact
  <1> DEFINE es == GetByRound(rd)
  <1>1. es \in Seq(ToSet(sealed)) /\ es \in Seq(Entries)
    BY ReadersType DEF GetByRound
  <1>2. HashChainValid(rd) <=> es # << >> /\ BadEntries(es, es[1].prev) = {}
    BY <1>1, VerifyMeansNoneBad DEF HashChainValid
  <1>3. /\ sealed \in Seq(Entries) /\ Len(sealed) \in Nat /\ Len(es) \in Nat
        /\ DOMAIN sealed = 1..Len(sealed) /\ DOMAIN es = 1..Len(es)
        /\ (es = << >> <=> Len(es) = 0)
    BY <1>1, ChainCounts
  <1> HIDE DEF es
  <1>4. ASSUME es # << >>, BadEntries(es, es[1].prev) = {}
        PROVE  \E i, j \in DOMAIN sealed : i <= j /\ es = SubSeq(sealed, i, j)
    <2> DEFINE k == Len(es[1].prev)
    <2>1. es[1].prev \in Hashes /\ 1 \in 1..Len(es)
      <3>1. 1 \in 1..Len(es)
        BY <1>3, <1>4
      <3>2. es[1] \in Entries
        BY <1>1, <3>1
      <3> QED
        BY <3>1, <3>2 DEF Entries
    <2>2. k \in Nat
      BY <2>1
    <2>3. \A i \in 1..Len(es) : k + i \in 1..Len(sealed) /\ es[i] = sealed[k + i]
      BY <1>1, <1>4, <2>1, VerifiedIsSegment
    <2> HIDE DEF k
    <2>4. k + 1 \in 1..Len(sealed) /\ k + Len(es) \in 1..Len(sealed) /\ k + 1 <= k + Len(es)
      BY <1>3, <2>1, <2>2, <2>3
    <2>5. es = SubSeq(sealed, k + 1, k + Len(es))
      BY <1>1, <1>3, <2>2, <2>3, <2>4
    <2> QED
      BY <1>3, <2>4, <2>5
  <1>5. ASSUME NEW i \in DOMAIN sealed, NEW j \in DOMAIN sealed, i <= j,
               es = SubSeq(sealed, i, j)
        PROVE  es # << >> /\ BadEntries(es, es[1].prev) = {}
    <2>1. i \in Nat /\ j \in Nat /\ i >= 1 /\ j <= Len(sealed) /\ i <= Len(sealed)
      BY <1>3
    <2>2. Len(es) = (j - i) + 1 /\ \A n \in 1..Len(es) : es[n] = sealed[(i + n) - 1]
      BY <1>3, <1>5, <2>1
    <2> DEFINE k == i - 1
    <2>3. k \in Nat /\ \A n \in 1..Len(es) : k + n \in 1..Len(sealed) /\ k + n = (i + n) - 1
      BY <1>3, <2>1, <2>2, <1>5
    <2>4. \A n \in 1..Len(es) : k + n \in 1..Len(sealed) /\ es[n] = sealed[k + n]
      BY <2>2, <2>3
    <2>5. 1 \in 1..Len(es) /\ es # << >>
      BY <1>3, <1>5, <2>1, <2>2
    <2>6. es[1].prev = IF k = 0 THEN ZeroHash ELSE sealed[k].hash
      <3>1. es[1] = sealed[i]
        BY <2>1, <2>2, <2>5
      <3> QED
        BY <2>1, <3>1 DEF ChainInv, SealedIsChain
    <2> HIDE DEF k
    <2> QED
      BY <1>3, <2>3, <2>4, <2>5, <2>6, SegmentVerifies
  <1> QED
    BY <1>2, <1>4, <1>5 DEF es

\* VerifyChain and hash_chain_valid answer true exactly when the rows they look at
\* are the first, or consecutive, entries of the chain: for any number of requests,
\* tenants and rounds they miss no gap and no swap and raise no false alarm.
THEOREM VerificationExact == Spec => []VerifiersExact
  <1>1. IdsInv /\ PlacesInv => VerifiersExact
    BY VerifyChainIsExact, RoundCheckIsExact DEF IdsInv, VerifiersExact
  <1> QED
    BY <1>1, IdsInit, IdsStep, PlacesInit, PlacesStep, PTL DEF Spec

\* The inductive invariant the runs check holds of every behaviour.
THEOREM LedgerInvariant == Spec => []LedgerInv
  <1>1. IdsInv /\ PlacesInv /\ OrderInv => LedgerInv
    BY DEF IdsInv, ChainInv, LedgerInv
  <1> QED
    BY <1>1, IdsInit, IdsStep, PlacesInit, PlacesStep, OrderInit, OrderStep, PTL DEF Spec

-----------------------------------------------------------------------------
(* Refinement: each step is a step of the ledger or leaves it unchanged.   *)

\* A step that seals and stores nothing and answers nobody.
LEMMA LedgerStutter ==
    ASSUME UNCHANGED <<results, stored, sealed>>,
           \A q \in Requests : pc'[q] = "ok" <=> pc[q] = "ok"
    PROVE  UNCHANGED L!vars
  <1>1. SealedIds' = SealedIds /\ StoredIds' = StoredIds
    BY DEF SealedIds, StoredIds, IdsOf
  <1>2. AnsweredIds' = AnsweredIds
    BY DEF AnsweredIds, IdsOf
  <1> QED
    BY <1>1, <1>2 DEF L!vars

\* The initial state is an empty ledger.
LEMMA LedgerInit == Init => L!Init
  BY DEF Init, L!Init, StoredIds, AnsweredIds, IdsOf

\* Every step of a handler is a step of the ledger or leaves it alone.
LEMMA LedgerStep == IdsInv /\ [Next]_vars => [L!Next]_L!vars
  <1> SUFFICES ASSUME IdsInv, [Next]_vars PROVE [L!Next]_L!vars
    OBVIOUS
  <1>t. TypeOK /\ HoldsEntry
    BY DEF IdsInv, ChainInv, TypeInv
  <1>p. pc \in [Requests -> {"idle", "item", "seal", "link", "publish", "append",
                            "reply", "ok", "failed"}]
    BY <1>t DEF TypeOK, Finished
  <1>e. /\ results \in [Requests -> Seq(Entries)]
        /\ stored \in Seq(Entries) /\ sealed \in Seq(Entries)
    BY <1>t DEF TypeOK
  <1>h. \A q \in Requests : pc[q] \in Holding => entry[q] \in Entries
    BY <1>t DEF HoldsEntry
  <1>1. ASSUME NEW r \in Requests, Arrive(r) PROVE UNCHANGED L!vars
    BY <1>1, <1>p, LedgerStutter DEF Arrive, Goto
  <1>2. ASSUME NEW r \in Requests, SignEntry(r) PROVE UNCHANGED L!vars
    BY <1>2, <1>p, LedgerStutter DEF SignEntry, Goto
  <1>3. ASSUME NEW r \in Requests, ItemFails(r) PROVE UNCHANGED L!vars
    BY <1>3, <1>p, LedgerStutter DEF ItemFails, Goto
  <1>4. ASSUME NEW r \in Requests, SealLock(r) PROVE UNCHANGED L!vars
    BY <1>4, <1>p, LedgerStutter DEF SealLock, Goto
  <1>5. ASSUME NEW r \in Requests, SealLink(r) PROVE UNCHANGED L!vars
    BY <1>5, <1>p, LedgerStutter DEF SealLink, Goto
  <1>6. ASSUME NEW r \in Requests, SealPublish(r) PROVE L!Next
    <2>1. /\ pc' = [pc EXCEPT ![r] = "append"] /\ pc[r] = "publish"
          /\ sealed' = Append(sealed, entry[r])
          /\ UNCHANGED <<entry, results, stored>>
      BY <1>6 DEF SealPublish, Goto
    <2> DEFINE e == entry[r]
               c == ContentOf(e)
    <2>2. e \in Entries
      BY <2>1, <1>h DEF Holding
    <2>3. e.prev = tip /\ e.hash = Append(tip, c)
      BY <2>1 DEF IdsInv, ChainInv, LinkInv, ComputeHash
    <2>4. tip = L!LedgerTip
      BY DEF IdsInv, ChainInv, SealedIsChain, L!LedgerTip, L!ZeroHash
    <2>5. e.id \notin SealedIds
      BY <2>1, FreshIdentity
    <2>6. e = L!SealedEntry(e.id, c, L!LedgerTip)
      BY <2>2, <2>3, <2>4 DEF Entries, L!SealedEntry, ContentOf
    <2>7. c \in Content /\ e.id \in Ids
      BY <2>2 DEF Entries, ContentOf, Content
    <2>8. UNCHANGED <<StoredIds, AnsweredIds>>
      <3>1. \A q \in Requests : pc'[q] = "ok" <=> pc[q] = "ok"
        BY <2>1, <1>p
      <3> QED
        BY <2>1, <3>1 DEF StoredIds, AnsweredIds, IdsOf
    <2>9. e.id \notin L!LedgerIds
      BY <2>5 DEF SealedIds, IdsOf, L!LedgerIds
    <2>10. L!Seal(e.id, c)
      BY <2>1, <2>6, <2>8, <2>9 DEF L!Seal
    <2> QED
      BY <2>7, <2>10 DEF L!Next, L!Content, Content
  <1>7. ASSUME NEW r \in Requests, pc[r] = "append",
               \A q \in Requests : pc'[q] = "ok" <=> pc[q] = "ok",
               \A q \in Requests : pc[q] = "ok" => results'[q] = results[q],
               stored' = Append(stored, entry[r]), UNCHANGED sealed
        PROVE  L!Next
    <2>1. entry[r] \in Entries
      BY <1>7, <1>h DEF Holding
    <2>2. StoredIds' = StoredIds \cup {entry[r].id}
      BY <1>7, <1>e, <2>1, IdsOfAppend DEF StoredIds
    <2>3. entry[r].id \in SealedIds \ StoredIds
      BY <1>7 DEF IdsInv, RecordInv
    <2>4. AnsweredIds' = AnsweredIds
      BY <1>7 DEF AnsweredIds, IdsOf
    <2>5. L!Record(entry[r].id)
      BY <1>7, <2>2, <2>3, <2>4 DEF L!Record, L!LedgerIds, SealedIds, IdsOf
    <2>6. entry[r].id \in Ids
      BY <2>1 DEF Entries
    <2> QED
      BY <2>5, <2>6 DEF L!Next
  <1>8. ASSUME NEW r \in Requests, AppendOk(r) PROVE L!Next
    <2>1. /\ pc[r] = "append" /\ pc'[r] \in {"reply", "item"}
          /\ \A q \in Requests \ {r} : pc'[q] = pc[q] /\ results'[q] = results[q]
          /\ stored' = Append(stored, entry[r]) /\ UNCHANGED sealed
      BY <1>8, <1>p, <1>e DEF AppendOk, Goto
    <2>2. \A q \in Requests : pc'[q] = "ok" <=> pc[q] = "ok"
      BY <2>1
    <2>3. \A q \in Requests : pc[q] = "ok" => results'[q] = results[q]
      BY <2>1
    <2> QED
      BY <2>1, <2>2, <2>3, <1>7
  <1>9. ASSUME NEW r \in Requests, AppendFails(r) PROVE [L!Next]_L!vars
    <2>1. /\ pc[r] = "append" /\ pc' = [pc EXCEPT ![r] = "failed"]
          /\ UNCHANGED <<results, sealed>>
      BY <1>9 DEF AppendFails, Goto
    <2>2. \A q \in Requests : pc'[q] = "ok" <=> pc[q] = "ok"
      BY <2>1, <1>p
    <2>3. CASE stored' = Append(stored, entry[r])
      BY <2>1, <2>2, <2>3, <1>7
    <2>4. CASE UNCHANGED stored
      BY <2>1, <2>2, <2>4, LedgerStutter
    <2> QED
      BY <1>9, <2>3, <2>4 DEF AppendFails
  <1>10. ASSUME NEW r \in Requests, Reply(r) PROVE L!Next
    <2>1. /\ pc' = [pc EXCEPT ![r] = "ok"]
          /\ UNCHANGED <<results, stored, sealed>>
      BY <1>10 DEF Reply, Goto
    <2> DEFINE S == IdsOf(results[r])
    <2>2. S \subseteq StoredIds
      BY DEF IdsInv, RecordInv
    <2>3. StoredIds \subseteq Ids
      <3>1. \A i \in DOMAIN stored : stored[i] \in Entries
        BY <1>e
      <3> QED
        BY <3>1 DEF StoredIds, IdsOf, Entries
    <2>4. {q \in Requests : pc'[q] = "ok"} = {q \in Requests : pc[q] = "ok"} \cup {r}
      BY <2>1, <1>p
    <2>5. AnsweredIds' = AnsweredIds \cup S
      BY <2>1, <2>4 DEF AnsweredIds, IdsOf
    <2>6. UNCHANGED <<sealed, StoredIds>>
      BY <2>1 DEF StoredIds, IdsOf
    <2>7. L!Answer(S)
      BY <2>2, <2>5, <2>6 DEF L!Answer
    <2> QED
      BY <2>2, <2>3, <2>7 DEF L!Next
  <1>11. CASE UNCHANGED vars
    BY <1>11, LedgerStutter DEF vars
  <1> QED
    BY <1>1, <1>2, <1>3, <1>4, <1>5, <1>6, <1>8, <1>9, <1>10, <1>11
    DEF Next, Handler, Served

\* The service, with any number of concurrent requests, failed items and failed
\* insertions, implements the ledger: linking is atomic, no entry is recorded
\* twice or unsealed, and nothing is answered before it is recorded.
THEOREM AuditTrailImplementsLedger == Spec => ImplementsLedger
  <1>1. Init => L!Init
    BY LedgerInit
  <1>2. IdsInv /\ [Next]_vars => [L!Next]_L!vars
    BY LedgerStep
  <1> QED
    BY <1>1, <1>2, IdsInit, IdsStep, PTL DEF Spec, ImplementsLedger, L!Spec
=============================================================================
