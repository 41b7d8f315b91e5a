-------------------------------- MODULE Ledger --------------------------------
(***************************************************************************)
(* What the audit trail promises, without its threads: sealing an entry is *)
(* one indivisible step that links it to the last one sealed, an entry is  *)
(* recorded only after it was sealed and at most once, and a client is told*)
(* of an entry only after it was recorded (the comments on Chain, Seal and *)
(* Store.Append in internal/audit).                                        *)
(***************************************************************************)
EXTENDS HashChain

CONSTANT Ids    \* identities of entries (RequestID)

VARIABLES
    ledger,     \* the entries sealed so far, in order
    recorded,   \* the identities of those the store holds
    answered    \* the identities of those a client was told of

vars == <<ledger, recorded, answered>>

SealedEntry(id, c, prev) ==
    [id |-> id, tenant |-> c.tenant, round |-> c.round, payload |-> c.payload,
     prev |-> prev, hash |-> Append(prev, c)]

LedgerTip == IF ledger = << >> THEN ZeroHash ELSE ledger[Len(ledger)].hash

LedgerIds == {ledger[i].id : i \in DOMAIN ledger}

Init == ledger = << >> /\ recorded = {} /\ answered = {}

Seal(id, c) ==
    /\ id \notin LedgerIds
    /\ ledger' = Append(ledger, SealedEntry(id, c, LedgerTip))
    /\ UNCHANGED <<recorded, answered>>

Record(id) ==
    /\ id \in LedgerIds \ recorded
    /\ recorded' = recorded \cup {id}
    /\ UNCHANGED <<ledger, answered>>

Answer(S) ==
    /\ S \subseteq recorded
    /\ answered' = answered \cup S
    /\ UNCHANGED <<ledger, recorded>>

Next ==
    \/ \E id \in Ids, c \in Content : Seal(id, c)
    \/ \E id \in Ids : Record(id)
    \/ \E S \in SUBSET Ids : Answer(S)

Spec == Init /\ [][Next]_vars
=============================================================================
