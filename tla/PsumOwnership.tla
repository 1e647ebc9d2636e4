---------------------------- MODULE PsumOwnership ----------------------------
(***************************************************************************)
(* What the partial-PSUM banks promise, without credits, ports or error    *)
(* flags: a bank has at most one owning context; the owner's writer stores *)
(* words, its reader takes words that were stored before and hands each    *)
(* response back, and the bank changes hands only after every word the     *)
(* owner asked for was stored, taken and returned.                         *)
(***************************************************************************)
EXTENDS Naturals

CONSTANTS Banks, Owner, Addr

VARIABLES
  owned,      \* owned[b]: does a context hold bank b?
  owner,      \* owner[b]: the context that holds b, or held it last
  due,        \* due[b]: the addresses the owner will store
  stored,     \* stored[b]: the addresses the owner has written
  taken,      \* taken[b]: the addresses its reader has asked for
  awaited     \* awaited[b]: how many responses are outstanding

ownershipVars == <<owned, owner, due, stored, taken, awaited>>

OwnershipInit ==
  /\ owned = [b \in Banks |-> FALSE]
  /\ owner \in [Banks -> Owner]
  /\ due = [b \in Banks |-> {}]
  /\ stored = [b \in Banks |-> {}]
  /\ taken = [b \in Banks |-> {}]
  /\ awaited = [b \in Banks |-> 0]

\* A free bank goes to a new owner, that has stored nothing in it yet: what
\* is left in the memory is nobody's.
Grant(b) ==
  /\ ~owned[b] /\ owned'[b]
  /\ owner'[b] \in Owner
  /\ due'[b] \subseteq Addr /\ due'[b] # {}
  /\ stored'[b] = {} /\ taken'[b] = {} /\ awaited'[b] = 0

\* The writer stores at most one new word.
Store(b) ==
  \/ stored'[b] = stored[b]
  \/ \E a \in due[b] \ stored[b] : stored'[b] = stored[b] \cup {a}

\* The reader takes at most one word that was stored before this edge, and at
\* most one response comes back, to an earlier request.
TakeAndReturn(b) ==
  \/ /\ taken'[b] = taken[b]
     /\ \/ awaited'[b] = awaited[b]
        \/ awaited[b] > 0 /\ awaited'[b] = awaited[b] - 1
  \/ /\ \E a \in stored[b] \ taken[b] : taken'[b] = taken[b] \cup {a}
     /\ \/ awaited'[b] = awaited[b] + 1
        \/ awaited[b] > 0 /\ awaited'[b] = awaited[b]

Use(b) ==
  /\ owned[b] /\ owned'[b]
  /\ owner'[b] = owner[b] /\ due'[b] = due[b]
  /\ Store(b) /\ TakeAndReturn(b)

Free(b) ==
  /\ owned[b] /\ ~owned'[b]
  /\ stored[b] = due[b] /\ taken[b] = due[b] /\ awaited[b] = 0

Rest(b) == ~owned[b] /\ ~owned'[b]

OwnershipNext ==
  \/ \A b \in Banks : Grant(b) \/ Use(b) \/ Free(b) \/ Rest(b)
  \/ owned' = [b \in Banks |-> FALSE]      \* reset

OwnershipSpec == OwnershipInit /\ [][OwnershipNext]_ownershipVars
=============================================================================
