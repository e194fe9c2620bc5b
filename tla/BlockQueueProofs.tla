-------------------------- MODULE BlockQueueProofs --------------------------
(***************************************************************************)
(* The row maps of the body queue agree, for every set of heights, hashes  *)
(* and lengths.                                                            *)
(***************************************************************************)
EXTENDS BlockQueue, TLAPS

(* The inductive invariant: shapes, agreement of the maps, and every id     *)
(* already handed out is below the next one.                                *)
QueueInv == BqTypeOK /\ MapsAgree /\ \A i \in DOMAIN index : i < next_id

(* The empty queue of BlockQueue::empty satisfies the invariant. *)
LEMMA QueueInit == BqInit => QueueInv
  BY QueueAssumption DEF BqInit, QueueInv, BqTypeOK, MapsAgree, Empty, Ids

(* dequeue keeps the invariant. *)
LEMMA RemoveKeeps ==
  ASSUME QueueInv, NEW h \in DOMAIN height_to_id, NEW c \in Nat,
         RemoveBody(height_to_id[h], c)
  PROVE  QueueInv'
<1> DEFINE id == height_to_id[h]
           row == index[id]
<1>1. /\ id \in DOMAIN index /\ row.height = h /\ row \in Row /\ h \in Heights
      /\ row.hash \in Hashes
  BY DEF QueueInv, BqTypeOK, MapsAgree, Row
<1>2. /\ index' = [i \in DOMAIN index \ {id} |-> index[i]]
      /\ height_to_id' = [k \in DOMAIN height_to_id \ {h} |-> height_to_id[k]]
      /\ next_id' = next_id /\ bytes' = SatSub(bytes, c)
  BY <1>1 DEF RemoveBody, DropBody
<1>3. row.hash \in DOMAIN by_hash /\ h \in by_hash[row.hash]
  BY <1>1 DEF QueueInv, MapsAgree
<1>4. \A x \in Hashes : \A k \in Heights :
         (x \in DOMAIN by_hash' /\ k \in by_hash'[x])
           <=> (x \in DOMAIN by_hash /\ k \in by_hash[x] /\ ~(x = row.hash /\ k = h))
  BY <1>1, <1>3 DEF RemoveBody, ForgetHash, DropBody, Put
<1>5. /\ DOMAIN by_hash' \subseteq Hashes
      /\ \A x \in DOMAIN by_hash' : by_hash'[x] \in SUBSET Heights /\ by_hash'[x] # {}
  BY <1>1, <1>3 DEF RemoveBody, ForgetHash, DropBody, Put, QueueInv, BqTypeOK, MapsAgree
<1>6. bytes' \in Nat
  BY <1>2 DEF SatSub, QueueInv, BqTypeOK
<1>7. BqTypeOK'
  BY <1>2, <1>5, <1>6 DEF QueueInv, BqTypeOK
<1>8. \A i \in DOMAIN index' : index'[i] = index[i] /\ i \in DOMAIN index /\ i # id
  BY <1>2
<1>9. \A x \in Hashes : \A k \in Heights :
         (x \in DOMAIN by_hash' /\ k \in by_hash'[x])
           <=> (\E i \in DOMAIN index' : index'[i].hash = x /\ index'[i].height = k)
  BY <1>1, <1>2, <1>4 DEF QueueInv, MapsAgree
<1>10. MapsAgree'
  BY <1>1, <1>2, <1>5, <1>8, <1>9 DEF QueueInv, MapsAgree
<1> QED BY <1>2, <1>7, <1>10 DEF QueueInv

(* enqueue_vec keeps the invariant. *)
LEMMA EnqueueKeeps ==
  ASSUME QueueInv, NEW h \in Heights, NEW x \in Hashes, NEW n \in Lens,
         Enqueue(h, x, n)
  PROVE  QueueInv'
<1> DEFINE row == [height |-> h, hash |-> x, raw |-> TRUE,
                   charge |-> n, resolve_complete |-> FALSE]
<1>1. /\ row \in Row /\ next_id \in Ids /\ next_id \notin DOMAIN index
      /\ h \notin DOMAIN height_to_id
  BY QueueAssumption DEF Enqueue, QueueInv, BqTypeOK, Row, Ids
<1>2. /\ index' = [i \in DOMAIN index \cup {next_id} |->
                     IF i = next_id THEN row ELSE index[i]]
      /\ height_to_id' = [k \in DOMAIN height_to_id \cup {h} |->
                            IF k = h THEN next_id ELSE height_to_id[k]]
      /\ next_id' = next_id + 1 /\ bytes' = bytes + n
  BY DEF Enqueue, Put
<1>3. \A y \in Hashes : \A k \in Heights :
         (y \in DOMAIN by_hash' /\ k \in by_hash'[y])
           <=> ((y \in DOMAIN by_hash /\ k \in by_hash[y]) \/ (y = x /\ k = h))
  BY DEF Enqueue, RememberHash, Put
<1>4. /\ DOMAIN by_hash' \subseteq Hashes
      /\ \A y \in DOMAIN by_hash' : by_hash'[y] \in SUBSET Heights /\ by_hash'[y] # {}
  BY DEF Enqueue, RememberHash, Put, QueueInv, BqTypeOK, MapsAgree
<1>5. BqTypeOK'
  BY <1>1, <1>2, <1>4, QueueAssumption DEF QueueInv, BqTypeOK, Ids
<1>8. /\ DOMAIN index' = DOMAIN index \cup {next_id}
      /\ DOMAIN height_to_id' = DOMAIN height_to_id \cup {h}
      /\ \A i \in DOMAIN index : index'[i] = index[i]
      /\ \A k \in DOMAIN height_to_id : height_to_id'[k] = height_to_id[k]
      /\ index'[next_id].height = h /\ index'[next_id].hash = x
      /\ height_to_id'[h] = next_id
  BY <1>1, <1>2
<1>6. \A y \in Hashes : \A k \in Heights :
         (y \in DOMAIN by_hash' /\ k \in by_hash'[y])
           <=> (\E i \in DOMAIN index' : index'[i].hash = y /\ index'[i].height = k)
  BY <1>3, <1>8 DEF QueueInv, MapsAgree
<1>7. /\ \A k \in DOMAIN height_to_id' :
           height_to_id'[k] \in DOMAIN index' /\ index'[height_to_id'[k]].height = k
      /\ \A i \in DOMAIN index' :
           index'[i].height \in DOMAIN height_to_id' /\ height_to_id'[index'[i].height] = i
  BY <1>1, <1>8 DEF QueueInv, MapsAgree
<1>9. MapsAgree'
  BY <1>4, <1>6, <1>7 DEF MapsAgree
<1> QED BY <1>1, <1>2, <1>5, <1>9, QueueAssumption DEF QueueInv, BqTypeOK, Ids

(* A step that only edits fields other than height and hash of one row keeps *)
(* the invariant: mark_resolve_complete and promote_wave.                    *)
LEMMA EditKeeps ==
  ASSUME QueueInv, NEW h \in DOMAIN height_to_id, NEW row \in Row,
         row.height = index[height_to_id[h]].height,
         row.hash = index[height_to_id[h]].hash,
         index' = [index EXCEPT ![height_to_id[h]] = row],
         bytes' \in Nat, UNCHANGED <<next_id, height_to_id, by_hash>>
  PROVE  QueueInv'
<1>1. BqTypeOK'
  BY DEF QueueInv, BqTypeOK
<1>2. /\ DOMAIN index' = DOMAIN index
      /\ \A i \in DOMAIN index : /\ index'[i].height = index[i].height
                                 /\ index'[i].hash = index[i].hash
  BY DEF QueueInv, MapsAgree
<1>3. MapsAgree'
  BY <1>2 DEF QueueInv, MapsAgree
<1> QED BY <1>1, <1>2, <1>3 DEF QueueInv

(* The three maps of the body queue agree in every reachable state: no row   *)
(* is lost from, or left behind in, the height index or the hash index by    *)
(* any order of enqueue, take, dequeue, promote and resolve.                 *)
THEOREM QueueMapsAgree == BqSpec => [](BqTypeOK /\ MapsAgree)
<1>1. QueueInv /\ [BqNext]_bqVars => QueueInv'
  <2> SUFFICES ASSUME QueueInv, [BqNext]_bqVars PROVE QueueInv'
    OBVIOUS
  <2>1. CASE UNCHANGED bqVars
    BY <2>1 DEF bqVars, QueueInv, BqTypeOK, MapsAgree
  <2>2. ASSUME NEW h \in Heights, NEW x \in Hashes, NEW n \in Lens, Enqueue(h, x, n)
        PROVE  QueueInv'
    BY <2>2, EnqueueKeeps
  <2>3. ASSUME NEW h \in Heights, DequeueHeight(h) PROVE QueueInv'
    <3>1. h \in DOMAIN height_to_id
      BY <2>3 DEF DequeueHeight
    <3>2. index[height_to_id[h]] \in Row
      BY <3>1 DEF QueueInv, BqTypeOK, MapsAgree
    <3>3. index[height_to_id[h]].charge \in Nat
      BY <3>2, QueueAssumption DEF Row
    <3> QED BY <2>3, <3>3, RemoveKeeps DEF DequeueHeight
  <2>4. ASSUME NEW h \in Heights, TakeRaw(h) PROVE QueueInv'
    <3>1. h \in DOMAIN height_to_id
      BY <2>4 DEF TakeRaw
    <3>2. index[height_to_id[h]] \in Row
      BY <3>1 DEF QueueInv, BqTypeOK, MapsAgree
    <3>3. index[height_to_id[h]].charge \in Nat
      BY <3>2, QueueAssumption DEF Row
    <3> QED BY <2>4, <3>3, RemoveKeeps DEF TakeRaw
  <2>5. ASSUME NEW h \in Heights, MarkResolveComplete(h) PROVE QueueInv'
    <3> DEFINE row == [index[height_to_id[h]] EXCEPT !.resolve_complete = TRUE]
    <3>1. /\ index' = [index EXCEPT ![height_to_id[h]] = row]
          /\ UNCHANGED <<next_id, height_to_id, by_hash, bytes>>
          /\ h \in DOMAIN height_to_id
      BY <2>5 DEF MarkResolveComplete
    <3>2. index[height_to_id[h]] \in Row
      BY <3>1 DEF QueueInv, BqTypeOK, MapsAgree
    <3>3. row \in Row /\ row.height = index[height_to_id[h]].height
                      /\ row.hash = index[height_to_id[h]].hash
      BY <3>2 DEF Row
    <3>4. bytes' \in Nat
      BY <3>1 DEF QueueInv, BqTypeOK
    <3> QED BY <3>1, <3>3, <3>4, EditKeeps
  <2>6. ASSUME NEW h \in Heights, NEW c \in Charges, Promote(h, c) PROVE QueueInv'
    <3> DEFINE row == [index[height_to_id[h]] EXCEPT !.raw = FALSE, !.charge = c]
    <3>1. /\ index' = [index EXCEPT ![height_to_id[h]] = row]
          /\ UNCHANGED <<next_id, height_to_id, by_hash>>
          /\ h \in DOMAIN height_to_id
          /\ bytes' = SatSub(bytes, index[height_to_id[h]].charge) + c
      BY <2>6 DEF Promote
    <3>2. index[height_to_id[h]] \in Row
      BY <3>1 DEF QueueInv, BqTypeOK, MapsAgree
    <3>3. row \in Row /\ row.height = index[height_to_id[h]].height
                      /\ row.hash = index[height_to_id[h]].hash
      BY <3>2 DEF Row
    <3>4. bytes' \in Nat
      BY <3>1, <3>2, QueueAssumption DEF QueueInv, BqTypeOK, SatSub, Row
    <3> QED BY <3>1, <3>3, <3>4, EditKeeps
  <2> QED BY <2>1, <2>2, <2>3, <2>4, <2>5, <2>6 DEF BqNext
<1> QED BY <1>1, QueueInit, PTL DEF BqSpec, QueueInv
=============================================================================
