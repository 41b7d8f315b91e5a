------------------------------ MODULE HashChain ------------------------------
(***************************************************************************)
(* The hash chain of internal/audit/log.go.                                *)
(*                                                                         *)
(* SHA-256 is taken to be free of collisions and is modelled by what it    *)
(* hashes: the digest of an entry is the digest of its predecessor with    *)
(* the hashed fields of the entry added at the end.  ZeroHash is then the  *)
(* empty sequence, and two digests are equal exactly when the two          *)
(* histories they commit to are.                                           *)
(***************************************************************************)
EXTENDS Integers, Sequences, FiniteSetsExt

CONSTANTS
    Tenants,    \* tenant_id values
    Rounds,     \* round_id values
    Payloads    \* what else the digest covers: CreatedAt, Values, Signature

\* The fields computeHash writes after the predecessor's digest.  RequestID,
\* GameID, MinValue, MaxValue and ValueCount are not among them.
Content == [tenant : Tenants, round : Rounds, payload : Payloads]

Hashes == Seq(Content)

ZeroHash == << >>

ContentOf(e) == [tenant |-> e.tenant, round |-> e.round, payload |-> e.payload]

ComputeHash(e) == Append(e.prev, ContentOf(e))

(***************************************************************************)
(* VerifyEntries walks the entries carrying the expected predecessor       *)
(* digest and returns the first index whose link or digest is wrong, or -1.*)
(* An entry is reached only when all before it are valid, so the carried   *)
(* digest is the EntryHash of the entry before it.  Indices start at 0.    *)
(***************************************************************************)
\* Mutant of BadEntries: each digest is recomputed, the links are not compared.
BadEntriesUnlinked(es, first) == {i \in DOMAIN es : es[i].hash # ComputeHash(es[i])}

BadEntries(es, first) ==
    {i \in DOMAIN es :
        \/ es[i].prev # (IF i = 1 THEN first ELSE es[i-1].hash)
        \/ es[i].hash # ComputeHash(es[i])}

VerifyEntries(es, first) ==
    LET bad == BadEntries(es, first)
    IN  IF bad = {} THEN -1 ELSE Min(bad) - 1
=============================================================================
