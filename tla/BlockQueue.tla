----------------------------- MODULE BlockQueue -----------------------------
(***************************************************************************)
(* The in-RAM body queue of crates/rbitcoin-store/src/block_queue.rs: peer *)
(* frames wait here, one row per height, until lookup takes them or a      *)
(* confirm write or a reject removes them.  Every operation runs under the *)
(* one mutex of Query::block_queue, so each is one action.  A payload is   *)
(* its length, a block hash a member of Hashes.                            *)
(***************************************************************************)
EXTENDS Naturals, Functions

CONSTANTS Heights,   \* heights a peer may offer a body for
          Hashes,    \* block hashes
          Lens,      \* wire lengths of a payload
          Charges,   \* decoded sizes charged after promote_wave
          MaxId      \* bound: rows enqueued in one behaviour

ASSUME QueueAssumption ==
    /\ Heights \subseteq Nat
    /\ Lens \subseteq Nat
    /\ Charges \subseteq Nat
    /\ MaxId \in Nat

VARIABLES next_id,        \* id of the next row
          index,          \* id -> row
          height_to_id,   \* height -> id, first wins
          by_hash,        \* hash -> heights of the rows that carry it
          bytes           \* charge of every row, kept incrementally

bqVars == <<next_id, index, height_to_id, by_hash, bytes>>

Ids == 1 .. MaxId

Row == [height : Heights, hash : Hashes, raw : BOOLEAN,
        charge : Lens \cup Charges, resolve_complete : BOOLEAN]

Empty == [x \in {} |-> x]

Put(f, x, v) == [y \in DOMAIN f \cup {x} |-> IF y = x THEN v ELSE f[y]]

DropBody(f, x) == [y \in DOMAIN f \ {x} |-> f[y]]

SatSub(a, b) == IF b <= a THEN a - b ELSE 0

-----------------------------------------------------------------------------

BqInit == /\ next_id = 1
          /\ index = Empty
          /\ height_to_id = Empty
          /\ by_hash = Empty
          /\ bytes = 0

RememberHash(hash, height) ==
    by_hash' = Put(by_hash, hash,
                   (IF hash \in DOMAIN by_hash THEN by_hash[hash] ELSE {}) \cup {height})

(* Mutated form: the whole entry goes although another height still carries the hash. *)
ForgetWholeHash(hash, height) == by_hash' = DropBody(by_hash, hash)

ForgetHash(hash, height) ==
    by_hash' = IF hash \notin DOMAIN by_hash THEN by_hash
               ELSE LET left == by_hash[hash] \ {height}
                    IN IF left = {} THEN DropBody(by_hash, hash)
                       ELSE Put(by_hash, hash, left)

(* A second body for a height already queued leaves the queue alone. *)
Enqueue(height, hash, len) ==
    /\ height \notin DOMAIN height_to_id
    /\ next_id <= MaxId
    /\ next_id' = next_id + 1
    /\ bytes' = bytes + len
    /\ index' = Put(index, next_id,
                    [height |-> height, hash |-> hash, raw |-> TRUE,
                     charge |-> len, resolve_complete |-> FALSE])
    /\ height_to_id' = Put(height_to_id, height, next_id)
    /\ RememberHash(hash, height)

RemoveBody(id, charge) ==
    /\ index' = DropBody(index, id)
    /\ bytes' = SatSub(bytes, charge)
    /\ height_to_id' = IF /\ index[id].height \in DOMAIN height_to_id
                          /\ height_to_id[index[id].height] = id
                       THEN DropBody(height_to_id, index[id].height)
                       ELSE height_to_id
    /\ ForgetHash(index[id].hash, index[id].height)
    /\ UNCHANGED next_id

DequeueHeight(height) ==
    /\ height \in DOMAIN height_to_id
    /\ RemoveBody(height_to_id[height], index[height_to_id[height]].charge)

(* The payload leaves the row first, so the dequeue charges nothing. *)
TakeRaw(height) ==
    /\ height \in DOMAIN height_to_id
    /\ index[height_to_id[height]].raw
    /\ RemoveBody(height_to_id[height], index[height_to_id[height]].charge)

MarkResolveComplete(height) ==
    /\ height \in DOMAIN height_to_id
    /\ index' = [index EXCEPT ![height_to_id[height]].resolve_complete = TRUE]
    /\ UNCHANGED <<next_id, height_to_id, by_hash, bytes>>

Promote(height, charge) ==
    /\ height \in DOMAIN height_to_id
    /\ index[height_to_id[height]].raw
    /\ index' = [index EXCEPT ![height_to_id[height]].raw = FALSE,
                              ![height_to_id[height]].charge = charge]
    /\ bytes' = SatSub(bytes, index[height_to_id[height]].charge) + charge
    /\ UNCHANGED <<next_id, height_to_id, by_hash>>

BqNext == \E h \in Heights :
            \/ \E x \in Hashes, n \in Lens : Enqueue(h, x, n)
            \/ DequeueHeight(h)
            \/ TakeRaw(h)
            \/ MarkResolveComplete(h)
            \/ \E c \in Charges : Promote(h, c)

BqSpec == BqInit /\ [][BqNext]_bqVars

-----------------------------------------------------------------------------

(* Every variable keeps its shape. *)
BqTypeOK ==
    /\ next_id \in 1 .. MaxId + 1
    /\ DOMAIN index \subseteq Ids /\ \A i \in DOMAIN index : index[i] \in Row
    /\ DOMAIN height_to_id \subseteq Heights
    /\ \A h \in DOMAIN height_to_id : height_to_id[h] \in Ids
    /\ DOMAIN by_hash \subseteq Hashes
    /\ \A x \in DOMAIN by_hash : by_hash[x] \in SUBSET Heights
    /\ bytes \in Nat

(* The three maps of the queue name the same rows: a height leads to its own *)
(* row, every row is reached from its height, and has_hash answers for       *)
(* exactly the rows that remain.                                             *)
MapsAgree ==
    /\ \A h \in DOMAIN height_to_id :
         height_to_id[h] \in DOMAIN index /\ index[height_to_id[h]].height = h
    /\ \A i \in DOMAIN index :
         index[i].height \in DOMAIN height_to_id /\ height_to_id[index[i].height] = i
    /\ \A x \in Hashes : \A h \in Heights :
         (x \in DOMAIN by_hash /\ h \in by_hash[x])
           <=> (\E i \in DOMAIN index : index[i].hash = x /\ index[i].height = h)
    /\ \A x \in DOMAIN by_hash : by_hash[x] # {}

(* The running byte counter is the sum of the charges of the rows, so the    *)
(* saturating subtractions never clip and the assign-stop reads a true size. *)
BytesExact == bytes = SumFunction([i \in DOMAIN index |-> index[i].charge])
=============================================================================
