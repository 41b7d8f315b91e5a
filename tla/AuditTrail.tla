------------------------------ MODULE AuditTrail ------------------------------
(***************************************************************************)
(* The path every generated value takes through internal/gateway/rest.go   *)
(* into the audit log: one goroutine per HTTP request draws the values of  *)
(* an item, signs an entry, seals it into the one Chain of the process and *)
(* appends it to the Store.  Seal runs under Chain.mu and Append under the *)
(* store's own lock, but nothing covers both, so requests interleave       *)
(* between them.                                                           *)
(*                                                                         *)
(* A request is a /v1/generate (one item), a /v1/shuffle (one item) or a   *)
(* /v1/generate/batch (its items, in turn).                                *)
(***************************************************************************)
EXTENDS HashChain, SequencesExt

CONSTANTS
    Requests,       \* the HTTP requests of a run
    TenantOf,       \* the authenticated tenant of each request
    RoundOf,        \* the round each request names
    Items,          \* how many items each request asks for
    Clients,        \* how many requests are in flight at once
    StoreCanFail,   \* Append may return an error (PostgresStore; never InMemoryStore)
    NoRequest       \* not a request: Chain.mu is free

ASSUME RequestsAssumption ==
    /\ NoRequest \notin Requests
    /\ TenantOf \in [Requests -> Tenants]
    /\ RoundOf \in [Requests -> Rounds]
    /\ Items \in [Requests -> Nat \ {0}]
    /\ StoreCanFail \in BOOLEAN

VARIABLES
    pc,         \* where each request is in its handler
    entry,      \* the entry each handler is building
    results,    \* the entries each handler has collected for its response
    tip,        \* Chain.prevHash
    mu,         \* the holder of Chain.mu, or NoRequest
    stored,     \* the rows of the store, in insertion order
    sealed,     \* history: every entry sealed, in the order of sealing
    lost        \* history: entries sealed whose insertion failed

vars == <<pc, entry, results, tip, mu, stored, sealed, lost>>

\* One identity per item of a request (RequestID, drawn fresh by every generate).
Ids == UNION {{r} \X (1..Items[r]) : r \in Requests}

Entries == [id : Ids, tenant : Tenants, round : Rounds, payload : Payloads,
            prev : Hashes, hash : Hashes]

NoEntry == << >>

\* The entry a handler signs for its next item, before Seal links it.
Signed(r, p) ==
    [id |-> <<r, Len(results[r]) + 1>>, tenant |-> TenantOf[r],
     round |-> RoundOf[r], payload |-> p, prev |-> ZeroHash, hash |-> ZeroHash]

Finished == {"ok", "failed"}
InFlight == {r \in Requests : pc[r] \notin {"idle"} \cup Finished}

Goto(r, from, to) == pc[r] = from /\ pc' = [pc EXCEPT ![r] = to]

Init ==
    /\ pc = [r \in Requests |-> "idle"]
    /\ entry = [r \in Requests |-> NoEntry]
    /\ results = [r \in Requests |-> << >>]
    /\ tip = ZeroHash
    /\ mu = NoRequest
    /\ stored = << >>
    /\ sealed = << >>
    /\ lost = {}

\* A client sends a request and its handler starts.
Arrive(r) ==
    /\ Cardinality(InFlight) < Clients
    /\ Goto(r, "idle", "item")
    /\ UNCHANGED <<entry, results, tip, mu, stored, sealed, lost>>

\* The item is valid and its values are drawn; the entry is built and signed.
SignEntry(r) ==
    /\ Goto(r, "item", "seal")
    /\ \E p \in Payloads : entry' = [entry EXCEPT ![r] = Signed(r, p)]
    /\ UNCHANGED <<results, tip, mu, stored, sealed, lost>>

\* Mutant of ItemFails: the handler gives up without an answer.
ItemFailsUnanswered(r) ==
    /\ Goto(r, "item", "idle")
    /\ UNCHANGED <<entry, results, tip, mu, stored, sealed, lost>>

\* The item is rejected (400), or reseeding, drawing or the key lookup fails
\* (500).  The handler returns; entries of the items before stay where they are.
ItemFails(r) ==
    /\ Goto(r, "item", "failed")
    /\ UNCHANGED <<entry, results, tip, mu, stored, sealed, lost>>

\* Mutant of SealLock: Seal does not take Chain.mu.
SealLockMissing(r) ==
    /\ Goto(r, "seal", "link")
    /\ mu' = r
    /\ UNCHANGED <<entry, results, tip, stored, sealed, lost>>

SealLock(r) ==
    /\ Goto(r, "seal", "link")
    /\ mu = NoRequest
    /\ mu' = r
    /\ UNCHANGED <<entry, results, tip, stored, sealed, lost>>

\* Seal reads Chain.prevHash into the entry and computes the digest.
SealLink(r) ==
    /\ Goto(r, "link", "publish")
    /\ entry' = [entry EXCEPT ![r].prev = tip,
                              ![r].hash = Append(tip, ContentOf(entry[r]))]
    /\ UNCHANGED <<results, tip, mu, stored, sealed, lost>>

\* Seal writes Chain.prevHash and returns, releasing the mutex.
SealPublish(r) ==
    /\ Goto(r, "publish", "append")
    /\ tip' = entry[r].hash
    /\ mu' = NoRequest
    /\ sealed' = Append(sealed, entry[r])
    /\ UNCHANGED <<entry, results, stored, lost>>

\* Append succeeds: the item is done, and the handler goes on to the next.
AppendOk(r) ==
    /\ Goto(r, "append", IF Len(results[r]) + 1 = Items[r] THEN "reply" ELSE "item")
    /\ stored' = Append(stored, entry[r])
    /\ results' = [results EXCEPT ![r] = Append(@, entry[r])]
    /\ UNCHANGED <<entry, tip, mu, sealed, lost>>

\* Mutant of AppendFails: the insertion is retried, as if it had left no row.
AppendFailsRetried(r) ==
    /\ StoreCanFail
    /\ Goto(r, "append", "append")
    /\ \/ entry[r] \notin ToSet(stored) /\ stored' = Append(stored, entry[r])
       \/ UNCHANGED stored
    /\ UNCHANGED <<entry, results, tip, mu, sealed, lost>>

\* Mutant of AppendFails: the error is logged and the item counted as done.
AppendFailsIgnored(r) ==
    /\ StoreCanFail
    /\ Goto(r, "append", IF Len(results[r]) + 1 = Items[r] THEN "reply" ELSE "item")
    /\ results' = [results EXCEPT ![r] = Append(@, entry[r])]
    /\ lost' = lost \cup {entry[r]}
    /\ UNCHANGED <<entry, tip, mu, stored, sealed>>

\* Append returns an error.  ExecContext can report one after the server has
\* committed the row, so the row may or may not be there; nothing is retried.
AppendFails(r) ==
    /\ StoreCanFail
    /\ Goto(r, "append", "failed")
    /\ \/ stored' = Append(stored, entry[r]) /\ UNCHANGED lost
       \/ lost' = lost \cup {entry[r]} /\ UNCHANGED stored
    /\ UNCHANGED <<entry, results, tip, mu, sealed>>

Reply(r) ==
    /\ Goto(r, "reply", "ok")
    /\ UNCHANGED <<entry, results, tip, mu, stored, sealed, lost>>

Handler(r) ==
    \/ SignEntry(r) \/ ItemFails(r)
    \/ SealLock(r) \/ SealLink(r) \/ SealPublish(r)
    \/ AppendOk(r) \/ AppendFails(r) \/ Reply(r)

\* Every request has been answered: the clients are done.
Served == (\A r \in Requests : pc[r] \in Finished) /\ UNCHANGED vars

Next == (\E r \in Requests : Arrive(r) \/ Handler(r)) \/ Served

(***************************************************************************)
(* The Go scheduler runs every runnable goroutine, and sync.Mutex hands the*)
(* lock to a waiter it has starved.  Clients need not send anything.       *)
(***************************************************************************)
Fairness == \A r \in Requests : WF_vars(Handler(r)) /\ SF_vars(SealLock(r))

Spec == Init /\ [][Next]_vars

FairSpec == Spec /\ Fairness

-----------------------------------------------------------------------------
(* What the store answers.  Readers hold its lock for one read, and verify *)
(* a copy, so each answer is a function of one state.                      *)

\* The loop of the store's readers: out after each of the rows of s, when the
\* rows whose index is in K are appended to it.
Walked(s, K) ==
    LET out[i \in 0..Len(s)] ==
            IF i = 0 THEN << >>
            ELSE IF i \in K THEN Append(out[i-1], s[i])
            ELSE out[i-1]
    IN  out

RowsAt(s, K) == Walked(s, K)[Len(s)]

GetByRound(rd) == RowsAt(stored, {i \in DOMAIN stored : stored[i].round = rd})

TenantEntries(t) == RowsAt(stored, {i \in DOMAIN stored : stored[i].tenant = t})

VerifyChain(t) == VerifyEntries(TenantEntries(t), ZeroHash) = -1

\* hash_chain_valid in the answer to GET /v1/audit/{round_id}
HashChainValid(rd) ==
    LET es == GetByRound(rd)
    IN  es # << >> /\ VerifyEntries(es, es[1].prev) = -1

-----------------------------------------------------------------------------
(* Properties.                                                             *)

\* Every variable holds a value of its kind, and no handler is past an item
\* it does not have.
TypeOK ==
    /\ pc \in [Requests -> {"idle", "item", "seal", "link", "publish", "append",
                            "reply"} \cup Finished]
    /\ entry \in [Requests -> Entries \cup {NoEntry}]
    /\ results \in [Requests -> Seq(Entries)]
    /\ \A r \in Requests :
          pc[r] \notin {"reply"} \cup Finished => Len(results[r]) < Items[r]
    /\ tip \in Hashes
    /\ mu \in Requests \cup {NoRequest}
    /\ stored \in Seq(Entries)
    /\ sealed \in Seq(Entries)
    /\ lost \subseteq Entries

\* Seal, called by any number of goroutines, builds one unforked chain from
\* ZeroHash, and Chain.prevHash is always the digest of its last entry
\* (log.go: Chain, Seal).
SealedIsChain ==
    /\ \A i \in DOMAIN sealed :
          /\ sealed[i].prev = (IF i = 1 THEN ZeroHash ELSE sealed[i-1].hash)
          /\ sealed[i].hash = ComputeHash(sealed[i])
    /\ tip = (IF sealed = << >> THEN ZeroHash ELSE sealed[Len(sealed)].hash)

\* An entry that was sealed is in exactly one of three places: a row of the
\* store, a handler about to append it, or the entries whose insertion failed.
\* No row is a duplicate or was never sealed (rest.go: generate, handleShuffle).
SealedAccountedFor ==
    /\ \A e \in ToSet(sealed) :
          LET waiting == \E r \in Requests : pc[r] = "append" /\ entry[r] = e
          IN  Cardinality({p \in {"row", "waiting", "lost"} :
                  \/ p = "row"     /\ e \in ToSet(stored)
                  \/ p = "waiting" /\ waiting
                  \/ p = "lost"    /\ e \in lost}) = 1
    /\ ToSet(stored) \subseteq ToSet(sealed)
    /\ IsInjective(stored)

\* The entries of request r in s, in the order of s.
OwnEntries(s, r) == RowsAt(s, {i \in DOMAIN s : s[i].id[1] = r})

\* A response of status 200 reports one entry per item, and the store holds
\* those entries, in the order of the items, and no other of that request;
\* the chain sealed them in that order too (rest.go: handleGenerateBatch).
OkMeansRecorded ==
    \A r \in Requests : pc[r] = "ok" =>
        /\ Len(results[r]) = Items[r]
        /\ OwnEntries(stored, r) = results[r]
        /\ OwnEntries(sealed, r) = results[r]

\* VerifyChain answers true exactly when the tenant's rows are the first
\* entries of the chain, in order: it misses no gap and no swap
\* (store.go: VerifyChain).
VerifyChainExact ==
    \A t \in Tenants : VerifyChain(t) <=> IsPrefix(TenantEntries(t), sealed)

\* hash_chain_valid is true exactly when the rows of the round are consecutive
\* entries of the chain (rest.go: handleAuditRound).
RoundCheckExact ==
    \A rd \in Rounds :
        HashChainValid(rd) <=>
            \E i, j \in DOMAIN sealed : i <= j /\ GetByRound(rd) = SubSeq(sealed, i, j)

\* What both verifications of the stored rows, by tenant and by round, answer: they
\* miss nothing that Seal and Append, being separate, left wrong in the store.  Nor
\* do they tell it, another tenant's entry or another round's from an alteration:
\* see DivergenceMeansTampering.
VerifiersExact == VerifyChainExact /\ RoundCheckExact

\* When no request is in flight and no row was lost, altered or repeated, neither
\* verification reports a divergence (store.go: VerifyChain returns true "if the
\* chain is intact"; 06-audit-trail.md: any divergence indicates tampering).
DivergenceMeansTampering ==
    InFlight = {} /\ lost = {} =>
        /\ \A t \in Tenants : VerifyChain(t)
        /\ \A rd \in Rounds : GetByRound(rd) # << >> => HashChainValid(rd)

\* Every request that starts is answered (rest.go: every handler path writes a
\* response).
EveryRequestAnswered ==
    \A r \in Requests : pc[r] = "item" ~> pc[r] \in Finished

IdsOf(s) == {s[i].id : i \in DOMAIN s}
SealedIds == IdsOf(sealed)
StoredIds == IdsOf(stored)
AnsweredIds ==
    UNION {IdsOf(results[r]) : r \in {q \in Requests : pc[q] = "ok"}}

L == INSTANCE Ledger WITH
        ledger <- sealed, recorded <- StoredIds, answered <- AnsweredIds

\* The handlers, their locks and their failures implement the ledger in which
\* sealing is one step, recording follows sealing and happens once, and an
\* answer follows recording (rest.go: generate, handleShuffle; log.go: Seal).
ImplementsLedger == L!Spec

-----------------------------------------------------------------------------
(* The inductive invariant behind the properties above.                    *)

\* Chain.mu is held exactly by the handler between the lock and the return of
\* Seal, which excludes every other handler from that section.
MutexInv == \A r \in Requests : pc[r] \in {"link", "publish"} <=> mu = r

\* The entry about to be published is linked to the tip that is still current.
LinkInv ==
    \A r \in Requests : pc[r] = "publish" =>
        entry[r].prev = tip /\ entry[r].hash = ComputeHash(entry[r])

\* Of a request that goes on, only the items collected and the one about to be
\* appended were sealed.
IssuedInv ==
    \A r \in Requests : pc[r] # "failed" =>
        \A i \in DOMAIN sealed : sealed[i].id[1] = r =>
            \/ sealed[i].id[2] <= Len(results[r])
            \/ pc[r] = "append" /\ sealed[i].id = entry[r].id

\* Rows come from sealed entries, an entry about to be appended is sealed and
\* not yet a row, and what a handler collected is in the store.
RecordInv ==
    /\ StoredIds \subseteq SealedIds
    /\ \A r \in Requests : pc[r] = "append" => entry[r].id \in SealedIds \ StoredIds
    /\ \A r \in Requests : IdsOf(results[r]) \subseteq StoredIds

\* Rows and lost entries are different sealed entries; what is neither is in the
\* hands of the handler about to append it, and what that handler holds is not.
PlacesInv ==
    /\ ToSet(stored) \cup lost \subseteq ToSet(sealed)
    /\ ToSet(stored) \cap lost = {}
    /\ IsInjective(stored)
    /\ \A r \in Requests : pc[r] = "append" => entry[r] \in ToSet(sealed) \ lost
    /\ \A e \in ToSet(sealed) \ (ToSet(stored) \cup lost) :
          \E r \in Requests : pc[r] = "append" /\ entry[r] = e

\* Until a request fails, its rows are what its handler collected, and its
\* sealed entries those and the one about to be appended, in the same order.
OrderInv ==
    \A r \in Requests :
        /\ pc[r] # "failed" =>
              /\ OwnEntries(stored, r) = results[r]
              /\ OwnEntries(sealed, r) = IF pc[r] = "append" THEN Append(results[r], entry[r])
                                         ELSE results[r]
        /\ pc[r] \in {"reply", "ok"} => Len(results[r]) = Items[r]

LedgerInv ==
    /\ MutexInv /\ LinkInv /\ SealedIsChain
    /\ IssuedInv /\ RecordInv /\ PlacesInv /\ OrderInv
=============================================================================
