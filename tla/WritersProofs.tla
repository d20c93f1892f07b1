---------------------------- MODULE WritersProofs ----------------------------
(***************************************************************************)
(* Theorems about Writers, for any namespaces, ciphertexts, batches and    *)
(* number of restarts.                                                     *)
(***************************************************************************)
EXTENDS Writers, TLAPS, SequenceTheorems

Rec(ns, h) == [ns |-> ns, hash |-> h]

(***************************************************************************)
(* The inductive invariant.                                                *)
(***************************************************************************)
\* Every phone stands at a slot of its batch.
AtSlot == \A ns \in Namespaces : phone[ns].slot \in DOMAIN Batch[ns]

\* The index has exactly the records that are here and not released ..
RefsExact ==
    \A ns \in Namespaces, h \in Hashes : IsTrackedFor(content, ns, h) <=> Rec(ns, h) \in replica \ released

\* .. and a state for exactly the hashes they name.
StateExact ==
    \A h \in Hashes : IsTracked(content, h) <=> \E ns \in Namespaces : IsTrackedFor(content, ns, h)

\* An upload under way is for a record that is here; what has been added is tagged.
UploadsHere ==
    \A ns \in Namespaces :
        /\ phone[ns].pc \in {"checked", "added"} => Slot(ns) \in replica
        /\ phone[ns].pc = "added" => Slot(ns).hash \in tagged

\* What was uploaded has a tag, which outlasts every collection; what the
\* settle loop marks present need not be in the store any more.
ReceiptsPresent ==
    \A r \in receipts : /\ r \in replica /\ r.hash \in tagged
                        /\ r \notin released => IsPresent(content, r.hash)

ReadsHere == \A g \in Reads : gets[g] \in {"read", "200"} => Rec(g[1], g[2]) \in replica

IInv == TypeOK /\ AtSlot /\ RefsExact /\ StateExact /\ UploadsHere
        /\ ReceiptsPresent /\ ReadsHere

(***************************************************************************)
(* Records and batches.                                                    *)
(***************************************************************************)
LEMMA RecordIsPair ==
    \A r \in Records : /\ r.ns \in Namespaces /\ r.hash \in Hashes
                       /\ r = Rec(r.ns, r.hash)
  <1> SUFFICES ASSUME NEW r \in Records
               PROVE  r \in [ns : Namespaces, hash : Hashes]
    BY DEF Rec
  <1> DEFINE Pairs == [ns : Namespaces, hash : Hashes]
  <1>1. PICK n \in Namespaces : \E i \in DOMAIN Batch[n] : r = Batch[n][i]
    BY DEF Records
  <1>2. Batch[n] \in Seq(Pairs)
    BY WritersAssumption
  <1>3. \A i \in DOMAIN Batch[n] : Batch[n][i] \in Pairs
    <2> HIDE DEF Pairs
    <2> QED BY <1>2, ElementOfSeq, LenProperties
  <1> QED BY <1>1, <1>3

LEMMA SlotIsRecord ==
    ASSUME NEW ns \in Namespaces, AtSlot
    PROVE  Slot(ns) \in Records /\ Slot(ns).ns = ns /\ Slot(ns).hash \in Hashes
  <1>1. phone[ns].slot \in DOMAIN Batch[ns]
    BY DEF AtSlot
  <1>2. Slot(ns) \in Records /\ Slot(ns).ns = ns
    BY <1>1, WritersAssumption DEF Slot, Records
  <1> QED BY <1>2, RecordIsPair

\* Whatever the answer, the phone goes on at a slot of its batch.
LEMMA AfterPutType ==
    ASSUME NEW ns \in Namespaces, TypeOK, AtSlot, NEW status
    PROVE  /\ AfterPut(ns, status) \in [pc : PhonePc, slot : DOMAIN Batch[ns]]
           /\ AfterPut(ns, status).pc \notin {"checked", "added"}
  <1>1. Batch[ns] \in Seq([ns : Namespaces, hash : Hashes]) /\ Batch[ns] # <<>>
    BY WritersAssumption
  <1>2. Len(Batch[ns]) \in Nat /\ Len(Batch[ns]) >= 1 /\ DOMAIN Batch[ns] = 1..Len(Batch[ns])
    BY <1>1
  <1>3. phone[ns].slot \in 1..Len(Batch[ns])
    BY <1>2 DEF AtSlot
  <1>4. 1 \in DOMAIN Batch[ns]
    BY <1>2
  <1>5. phone[ns].slot < Len(Batch[ns]) => phone[ns].slot + 1 \in DOMAIN Batch[ns]
    BY <1>2, <1>3
  <1> QED BY <1>4, <1>5 DEF AfterPut, NextSlot, PhonePc

LEMMA IndexType ==
    ASSUME NEW ix \in Index, NEW h \in Hashes
    PROVE  /\ MarkPresent(ix, h) \in Index
           /\ \A ns \in Namespaces : Want(ix, ns, h) \in Index /\ Forget(ix, ns, h) \in Index
  <1>1. MarkPresent(ix, h) \in Index
    BY DEF MarkPresent, Index, State
  <1>2. ASSUME NEW ns \in Namespaces PROVE Want(ix, ns, h) \in Index
    BY DEF Want, Index, State
  <1>3. ASSUME NEW ns \in Namespaces PROVE Forget(ix, ns, h) \in Index
    BY DEF Forget, Index, State
  <1> QED BY <1>1, <1>2, <1>3

\* mark_present changes neither references nor which hashes have a state.
LEMMA MarkProps ==
    ASSUME NEW ix \in Index, NEW h \in Hashes
    PROVE  /\ \A ns \in Namespaces, k \in Hashes :
                  IsTrackedFor(MarkPresent(ix, h), ns, k) <=> IsTrackedFor(ix, ns, k)
           /\ \A k \in Hashes : IsTracked(MarkPresent(ix, h), k) <=> IsTracked(ix, k)
           /\ \A k \in Hashes : IsPresent(MarkPresent(ix, h), k)
                                    <=> IsPresent(ix, k) \/ (k = h /\ IsTracked(ix, h))
  BY DEF MarkPresent, Index, State, IsTrackedFor, IsTracked, IsPresent

LEMMA WantProps ==
    ASSUME NEW ix \in Index, NEW ns \in Namespaces, NEW h \in Hashes
    PROVE  /\ \A n \in Namespaces, k \in Hashes :
                  IsTrackedFor(Want(ix, ns, h), n, k) <=> IsTrackedFor(ix, n, k) \/ (n = ns /\ k = h)
           /\ \A k \in Hashes : IsTracked(Want(ix, ns, h), k) <=> IsTracked(ix, k) \/ k = h
           /\ \A k \in Hashes : IsPresent(Want(ix, ns, h), k) <=> IsPresent(ix, k)
  <1>1. \A n \in Namespaces, k \in Hashes :
            IsTrackedFor(Want(ix, ns, h), n, k) <=> IsTrackedFor(ix, n, k) \/ (n = ns /\ k = h)
    BY DEF Want, Index, IsTrackedFor
  <1>2. \A k \in Hashes : IsTracked(Want(ix, ns, h), k) <=> IsTracked(ix, k) \/ k = h
    BY DEF Want, Index, State, IsTracked
  <1>3. \A k \in Hashes : IsPresent(Want(ix, ns, h), k) <=> IsPresent(ix, k)
    BY DEF Want, Index, State, IsPresent
  <1> QED BY <1>1, <1>2, <1>3

LEMMA ForgetProps ==
    ASSUME NEW ix \in Index, NEW ns \in Namespaces, NEW h \in Hashes
    PROVE  /\ \A n \in Namespaces, k \in Hashes :
                  IsTrackedFor(Forget(ix, ns, h), n, k) <=> IsTrackedFor(ix, n, k) /\ ~(n = ns /\ k = h)
           /\ \A k \in Hashes : IsTracked(Forget(ix, ns, h), k)
                                    <=> IsTracked(ix, k) /\ ~(k = h /\ DropsLast(ix, ns, h))
           /\ \A k \in Hashes : IsPresent(Forget(ix, ns, h), k)
                                    <=> IsPresent(ix, k) /\ ~(k = h /\ DropsLast(ix, ns, h))
  <1>1. \A n \in Namespaces, k \in Hashes :
            IsTrackedFor(Forget(ix, ns, h), n, k) <=> IsTrackedFor(ix, n, k) /\ ~(n = ns /\ k = h)
    BY DEF Forget, Index, IsTrackedFor
  <1> DEFINE drops == DropsLast(ix, ns, h)
  <1>2. Forget(ix, ns, h).state = [ix.state EXCEPT ![h] = IF drops THEN "Absent" ELSE @]
    BY DEF Forget
  <1> HIDE DEF drops
  <1>3. \A k \in Hashes : IsTracked(Forget(ix, ns, h), k) <=> IsTracked(ix, k) /\ ~(k = h /\ drops)
    BY <1>2 DEF Index, State, IsTracked
  <1>4. \A k \in Hashes : IsPresent(Forget(ix, ns, h), k) <=> IsPresent(ix, k) /\ ~(k = h /\ drops)
    BY <1>2 DEF Index, State, IsPresent
  <1> QED BY <1>1, <1>3, <1>4 DEF drops

LEMMA InitInv == Init => IInv
  <1> SUFFICES ASSUME Init PROVE IInv
    OBVIOUS
  <1>1. \A ns \in Namespaces : 1 \in DOMAIN Batch[ns]
    <2> TAKE ns \in Namespaces
    <2>1. Batch[ns] \in Seq([ns : Namespaces, hash : Hashes]) /\ Batch[ns] # <<>>
      BY WritersAssumption
    <2> QED BY <2>1
  <1>2. NewIndex \in Index
    BY DEF NewIndex, Index, State
  <1>3. TypeOK
    BY <1>2, WritersAssumption DEF Init, TypeOK, PhonePc, GetPc
  <1>4. AtSlot /\ UploadsHere
    BY <1>1 DEF Init, AtSlot, UploadsHere
  <1>5. RefsExact /\ StateExact
    BY DEF Init, RefsExact, StateExact, NewIndex, IsTrackedFor, IsTracked
  <1>6. ReceiptsPresent /\ ReadsHere
    BY DEF Init, ReceiptsPresent, ReadsHere
  <1> QED BY <1>3, <1>4, <1>5, <1>6 DEF IInv

(***************************************************************************)
(* Steps that leave a part of the state alone leave its invariants alone.  *)
(***************************************************************************)
LEMMA SameIndex ==
    ASSUME IInv, UNCHANGED <<content, replica, released>>
    PROVE  (RefsExact /\ StateExact)'
  BY DEF IInv, RefsExact, StateExact

LEMMA SameReceipts ==
    ASSUME IInv, UNCHANGED <<content, replica, released, receipts>>, tagged \subseteq tagged'
    PROVE  ReceiptsPresent'
  BY DEF IInv, ReceiptsPresent

LEMMA SameReads ==
    ASSUME IInv, UNCHANGED gets, replica \subseteq replica'
    PROVE  ReadsHere'
  BY DEF IInv, ReadsHere

LEMMA SamePhones ==
    ASSUME IInv, UNCHANGED phone, replica \subseteq replica', tagged \subseteq tagged'
    PROVE  AtSlot' /\ UploadsHere'
  BY DEF IInv, AtSlot, UploadsHere, Slot

\* A phone that moves to a slot without an upload under way.
LEMMA PhoneMoves ==
    ASSUME IInv, NEW ns \in Namespaces, NEW x \in [pc : PhonePc, slot : DOMAIN Batch[ns]],
           x.pc \notin {"checked", "added"},
           phone' = [phone EXCEPT ![ns] = x], UNCHANGED <<replica, tagged>>
    PROVE  phone' \in [Namespaces -> [pc : PhonePc, slot : Nat]] /\ AtSlot' /\ UploadsHere'
  <1>1. DOMAIN Batch[ns] \subseteq Nat
    BY WritersAssumption
  <1>2. phone' \in [Namespaces -> [pc : PhonePc, slot : Nat]]
    BY <1>1 DEF IInv, TypeOK
  <1>3. phone'[ns] = x /\ \A n \in Namespaces \ {ns} : phone'[n] = phone[n]
    BY DEF IInv, TypeOK
  <1>4. AtSlot'
    BY <1>3 DEF IInv, AtSlot
  <1>5. UploadsHere'
    BY <1>3 DEF IInv, UploadsHere, Slot
  <1> QED BY <1>2, <1>4, <1>5

(***************************************************************************)
(* The phones.                                                             *)
(***************************************************************************)
LEMMA FirstSlot ==
    ASSUME NEW ns \in Namespaces
    PROVE  Offering(ns) \in [pc : PhonePc, slot : DOMAIN Batch[ns]] /\ Offering(ns).pc = "offer"
  <1>1. Batch[ns] \in Seq([ns : Namespaces, hash : Hashes]) /\ Batch[ns] # <<>>
    BY WritersAssumption
  <1>2. 1 \in DOMAIN Batch[ns]
    BY <1>1
  <1> QED BY <1>2 DEF Offering, PhonePc

LEMMA SyncInv ==
    ASSUME IInv, NEW ns \in Namespaces, Sync(ns) \/ Register(ns) PROVE IInv'
  <1>1. /\ phone' = [phone EXCEPT ![ns] = Offering(ns)]
        /\ UNCHANGED <<up, restarts, replica, content, stored, tagged, pulled, gets, receipts, released>>
        /\ known' \subseteq Namespaces
    BY DEF Sync, Register, store, history, IInv, TypeOK
  <1>2. phone' \in [Namespaces -> [pc : PhonePc, slot : Nat]] /\ AtSlot' /\ UploadsHere'
    BY <1>1, FirstSlot, PhoneMoves
  <1>3. TypeOK'
    BY <1>1, <1>2 DEF IInv, TypeOK
  <1> QED BY <1>1, <1>2, <1>3, SameIndex, SameReceipts, SameReads DEF IInv

\* An answer that is not a receipt changes only what the phone does next.
LEMMA RefusedInv ==
    ASSUME IInv, NEW ns \in Namespaces, NEW status, phone' = [phone EXCEPT ![ns] = AfterPut(ns, status)],
           UNCHANGED <<up, restarts, known, replica, content, stored, tagged, pulled, gets, receipts, released>>
    PROVE  IInv'
  <1>1. /\ AfterPut(ns, status) \in [pc : PhonePc, slot : DOMAIN Batch[ns]]
        /\ AfterPut(ns, status).pc \notin {"checked", "added"}
    BY AfterPutType DEF IInv
  <1>2. phone' \in [Namespaces -> [pc : PhonePc, slot : Nat]] /\ AtSlot' /\ UploadsHere'
    BY <1>1, PhoneMoves
  <1>3. TypeOK'
    BY <1>2 DEF IInv, TypeOK
  <1> QED BY <1>2, <1>3, SameIndex, SameReceipts, SameReads DEF IInv

LEMMA PutCheckInv ==
    ASSUME IInv, NEW ns \in Namespaces, PutCheck(ns) PROVE IInv'
  <1>1. UNCHANGED <<up, restarts, known, replica, content, stored, tagged, pulled, gets, receipts, released>>
    BY DEF PutCheck, store, history
  <1>2. CASE Verdict(Slot(ns)) # "checked"
    <2>1. phone' = [phone EXCEPT ![ns] = AfterPut(ns, Status(Verdict(Slot(ns))))]
      BY <1>2 DEF PutCheck
    <2> QED BY <1>1, <2>1, RefusedInv
  <1>3. CASE Verdict(Slot(ns)) = "checked"
    <2>1. phone' = [phone EXCEPT ![ns] = [@ EXCEPT !.pc = "checked"]]
      BY <1>3 DEF PutCheck
    <2>2. Slot(ns) \in Records /\ Slot(ns).ns = ns /\ Slot(ns).hash \in Hashes
      BY SlotIsRecord DEF IInv
    <2>3. IsTrackedFor(content, ns, Slot(ns).hash)
      BY <1>3, <2>2 DEF Verdict
    <2>4. Slot(ns) \in replica
      BY <2>2, <2>3, RecordIsPair DEF IInv, RefsExact
    <2>5. phone' \in [Namespaces -> [pc : PhonePc, slot : Nat]]
      BY <2>1 DEF IInv, TypeOK, PhonePc
    <2>6. TypeOK'
      BY <1>1, <2>5 DEF IInv, TypeOK
    <2>7. \A n \in Namespaces : /\ phone'[n].slot = phone[n].slot
                                /\ phone'[n].pc = IF n = ns THEN "checked" ELSE phone[n].pc
      BY <2>1 DEF IInv, TypeOK
    <2>8. AtSlot'
      BY <2>7 DEF IInv, AtSlot
    <2>9. UploadsHere'
      BY <1>1, <2>4, <2>7 DEF IInv, UploadsHere, Slot
    <2> QED BY <1>1, <2>6, <2>8, <2>9, SameIndex, SameReceipts, SameReads DEF IInv
  <1> QED BY <1>2, <1>3

LEMMA PutAddInv ==
    ASSUME IInv, NEW ns \in Namespaces, PutAdd(ns) PROVE IInv'
  <1>1. /\ phone[ns].pc = "checked"
        /\ stored' = stored \cup {Slot(ns).hash} /\ tagged' = tagged \cup {Slot(ns).hash}
        /\ phone' = [phone EXCEPT ![ns].pc = "added"]
        /\ UNCHANGED <<up, restarts, known, replica, content, pulled, gets, receipts, released>>
    BY DEF PutAdd, history
  <1>2. Slot(ns).hash \in Hashes
    BY SlotIsRecord DEF IInv
  <1>3. phone' \in [Namespaces -> [pc : PhonePc, slot : Nat]]
    BY <1>1 DEF IInv, TypeOK, PhonePc
  <1>4. TypeOK'
    BY <1>1, <1>2, <1>3 DEF IInv, TypeOK
  <1>5. \A n \in Namespaces : /\ phone'[n].slot = phone[n].slot
                              /\ phone'[n].pc = IF n = ns THEN "added" ELSE phone[n].pc
    BY <1>1 DEF IInv, TypeOK
  <1>6. AtSlot'
    BY <1>5 DEF IInv, AtSlot
  <1>7. UploadsHere'
    BY <1>1, <1>5 DEF IInv, UploadsHere, Slot
  <1> QED BY <1>1, <1>4, <1>6, <1>7, SameIndex, SameReceipts, SameReads DEF IInv

LEMMA PutMarkInv ==
    ASSUME IInv, NEW ns \in Namespaces, PutMark(ns) PROVE IInv'
  <1> DEFINE h == Slot(ns).hash
  <1>1. /\ phone[ns].pc = "added"
        /\ content' = MarkPresent(content, h) /\ receipts' = receipts \cup {Slot(ns)}
        /\ phone' = [phone EXCEPT ![ns] = AfterPut(ns, Status("Stored"))]
        /\ UNCHANGED <<up, restarts, known, replica, stored, tagged, pulled, gets, released>>
    BY DEF PutMark, store
  <1>2. Slot(ns) \in Records /\ Slot(ns).ns = ns /\ h \in Hashes
    BY SlotIsRecord DEF IInv
  <1>3. Slot(ns) \in replica /\ h \in tagged /\ h \in stored /\ content \in Index
    BY <1>1 DEF IInv, UploadsHere, TypeOK
  <1>4. /\ AfterPut(ns, Status("Stored")) \in [pc : PhonePc, slot : DOMAIN Batch[ns]]
        /\ AfterPut(ns, Status("Stored")).pc \notin {"checked", "added"}
    BY AfterPutType DEF IInv
  <1>5. phone' \in [Namespaces -> [pc : PhonePc, slot : Nat]] /\ AtSlot' /\ UploadsHere'
    BY <1>1, <1>4, PhoneMoves
  <1> HIDE DEF h
  <1>6. /\ \A n \in Namespaces, k \in Hashes : IsTrackedFor(content', n, k) <=> IsTrackedFor(content, n, k)
        /\ \A k \in Hashes : IsTracked(content', k) <=> IsTracked(content, k)
        /\ \A k \in Hashes : IsPresent(content', k) <=> IsPresent(content, k) \/ (k = h /\ IsTracked(content, h))
        /\ content' \in Index
    BY <1>1, <1>2, <1>3, MarkProps, IndexType
  <1>7. TypeOK'
    BY <1>1, <1>2, <1>5, <1>6 DEF IInv, TypeOK
  <1>8. RefsExact' /\ StateExact'
    BY <1>1, <1>6 DEF IInv, RefsExact, StateExact
  <1>10. Slot(ns) \notin released => IsPresent(content', h)
    <2> SUFFICES ASSUME Slot(ns) \notin released PROVE IsPresent(content', h)
      OBVIOUS
    <2>1. Slot(ns) = Rec(ns, h)
      BY <1>2, RecordIsPair DEF h
    <2>2. IsTrackedFor(content, ns, h)
      BY <1>2, <1>3, <2>1 DEF IInv, RefsExact
    <2> QED BY <1>2, <1>6, <2>2 DEF IInv, StateExact
  <1>11. ReceiptsPresent'
    <2> SUFFICES ASSUME NEW r \in receipts'
                 PROVE  r \in replica /\ r.hash \in tagged /\ (r \notin released => IsPresent(content', r.hash))
      BY <1>1 DEF ReceiptsPresent
    <2>1. CASE r = Slot(ns)
      BY <1>3, <1>10, <2>1 DEF h
    <2>2. CASE r \in receipts
      BY <1>6, <2>2, RecordIsPair DEF IInv, ReceiptsPresent, TypeOK
    <2> QED BY <1>1, <2>1, <2>2
  <1> QED BY <1>1, <1>5, <1>7, <1>8, <1>11, SameReads DEF IInv

(***************************************************************************)
(* Reads, the process and the other tasks.                                 *)
(***************************************************************************)
LEMMA GetInv ==
    ASSUME IInv, NEW g \in Reads, GetCheck(g) \/ GetRead(g) PROVE IInv'
  <1>1. UNCHANGED <<up, restarts, known, replica, content, stored, tagged, pulled, phone, receipts, released>>
    BY DEF GetCheck, GetRead, store, history
  <1>2. g[1] \in Namespaces /\ g[2] \in Hashes
    BY WritersAssumption
  <1>3. PICK x \in GetPc : /\ gets' = [gets EXCEPT ![g] = x]
                           /\ x \in {"read", "200"} => Rec(g[1], g[2]) \in replica
    <2>1. CASE GetCheck(g)
      <3>1. Readable(g[1], g[2]) => Rec(g[1], g[2]) \in replica
        BY <1>2 DEF Readable, IsPresentFor, IInv, RefsExact
      <3> QED BY <2>1, <3>1 DEF GetCheck, GetPc
    <2>2. CASE GetRead(g)
      <3>1. Rec(g[1], g[2]) \in replica
        BY <2>2 DEF GetRead, IInv, ReadsHere
      <3> QED BY <2>2, <3>1 DEF GetRead, GetPc
    <2> QED BY <2>1, <2>2
  <1>4. TypeOK'
    BY <1>1, <1>3 DEF IInv, TypeOK
  <1>5. ReadsHere'
    BY <1>1, <1>3 DEF IInv, ReadsHere, TypeOK
  <1> QED BY <1>1, <1>4, <1>5, SameIndex, SameReceipts, SamePhones DEF IInv

LEMMA CrashInv ==
    ASSUME IInv, Crash PROVE IInv'
  <1>1. /\ known' = {} /\ replica' = {} /\ content' = NewIndex /\ stored' = {} /\ tagged' = {} /\ pulled' = {}
        /\ gets' = [g \in Reads |-> "idle"] /\ receipts' = {} /\ released' = {}
        /\ up' = FALSE /\ restarts < MaxRestarts /\ restarts' = restarts + 1
    BY DEF Crash
  <1>2. \A ns \in Namespaces : /\ phone'[ns] \in [pc : PhonePc, slot : DOMAIN Batch[ns]]
                               /\ phone'[ns].pc \notin {"checked", "added"}
    <2> TAKE ns \in Namespaces
    <2>1. phone'[ns] = IF phone[ns].pc \in {"checked", "added"} THEN AfterPut(ns, Status("Err")) ELSE phone[ns]
      BY DEF Crash
    <2>2. phone[ns] \in [pc : PhonePc, slot : DOMAIN Batch[ns]]
      BY DEF IInv, TypeOK, AtSlot
    <2> QED BY <2>1, <2>2, AfterPutType DEF IInv
  <1>3. \A ns \in Namespaces : DOMAIN Batch[ns] \subseteq Nat
    <2> TAKE ns \in Namespaces
    <2>1. Batch[ns] \in Seq([ns : Namespaces, hash : Hashes])
      BY WritersAssumption
    <2> QED BY <2>1
  <1>4. phone' \in [Namespaces -> [pc : PhonePc, slot : Nat]]
    <2>1. phone' = [ns \in Namespaces |-> phone'[ns]]
      BY DEF Crash
    <2>2. \A ns \in Namespaces : phone'[ns] \in [pc : PhonePc, slot : Nat]
      BY <1>2, <1>3
    <2> QED BY <2>1, <2>2
  <1>5. NewIndex \in Index
    BY DEF NewIndex, Index, State
  <1>6. restarts' \in 0..MaxRestarts
    BY <1>1, WritersAssumption DEF IInv, TypeOK
  <1>7. TypeOK'
    BY <1>1, <1>4, <1>5, <1>6 DEF TypeOK, GetPc
  <1>8. AtSlot' /\ UploadsHere'
    BY <1>2 DEF AtSlot, UploadsHere
  <1>9. (RefsExact /\ StateExact)'
    BY <1>1 DEF RefsExact, StateExact, NewIndex, IsTrackedFor, IsTracked
  <1>10. ReceiptsPresent' /\ ReadsHere'
    BY <1>1 DEF ReceiptsPresent, ReadsHere
  <1> QED BY <1>7, <1>8, <1>9, <1>10 DEF IInv

LEMMA RestartInv ==
    ASSUME IInv, Restart PROVE IInv'
  <1>1. up' = TRUE /\ UNCHANGED <<restarts, known, replica, content, stored, tagged, pulled, phone, gets, receipts, released>>
    BY DEF Restart, store, history
  <1>2. TypeOK'
    BY <1>1 DEF IInv, TypeOK
  <1> QED BY <1>1, <1>2, SameIndex, SameReceipts, SamePhones, SameReads DEF IInv

LEMMA ReconcileInv ==
    ASSUME IInv, NEW r \in Records, Reconcile(r) PROVE IInv'
  <1>1. /\ r \notin replica /\ replica' = replica \cup {r} /\ content' = Want(content, r.ns, r.hash)
        /\ UNCHANGED <<up, restarts, known, stored, tagged, pulled, phone, gets, receipts, released>>
    BY DEF Reconcile, store, history
  <1>2. r.ns \in Namespaces /\ r.hash \in Hashes /\ r = Rec(r.ns, r.hash)
    BY RecordIsPair
  <1>3. /\ \A n \in Namespaces, k \in Hashes :
               IsTrackedFor(content', n, k) <=> IsTrackedFor(content, n, k) \/ (n = r.ns /\ k = r.hash)
        /\ \A k \in Hashes : IsTracked(content', k) <=> IsTracked(content, k) \/ k = r.hash
        /\ \A k \in Hashes : IsPresent(content', k) <=> IsPresent(content, k)
        /\ content' \in Index
    <2> DEFINE ns == r.ns
               h  == r.hash
    <2>1. content \in Index /\ ns \in Namespaces /\ h \in Hashes /\ content' = Want(content, ns, h)
      BY <1>1, <1>2 DEF IInv, TypeOK
    <2> HIDE DEF ns, h
    <2>2. /\ \A n \in Namespaces, k \in Hashes :
                 IsTrackedFor(content', n, k) <=> IsTrackedFor(content, n, k) \/ (n = ns /\ k = h)
          /\ \A k \in Hashes : IsTracked(content', k) <=> IsTracked(content, k) \/ k = h
          /\ \A k \in Hashes : IsPresent(content', k) <=> IsPresent(content, k)
      BY <2>1, WantProps, Zenon
    <2>3. content' \in Index
      BY <2>1, IndexType
    <2> QED BY <2>2, <2>3 DEF ns, h
  <1>4. TypeOK'
    BY <1>1, <1>3 DEF IInv, TypeOK
  <1>5. \A n \in Namespaces, k \in Hashes : Rec(n, k) = r <=> n = r.ns /\ k = r.hash
    BY <1>2 DEF Rec
  <1>6. r \notin released
    BY <1>1 DEF IInv, TypeOK
  <1>7. RefsExact'
    BY <1>1, <1>3, <1>5, <1>6 DEF IInv, RefsExact
  <1>8. StateExact'
    BY <1>2, <1>3 DEF IInv, StateExact
  <1>9. ReceiptsPresent'
    BY <1>1, <1>3, RecordIsPair DEF IInv, ReceiptsPresent, TypeOK
  <1> QED BY <1>1, <1>4, <1>7, <1>8, <1>9, SamePhones, SameReads DEF IInv

LEMMA FetchInv ==
    ASSUME IInv, NEW h \in Hashes, Fetch(h) PROVE IInv'
  <1>1. /\ stored' = stored \cup {h} /\ pulled' = {h}
        /\ UNCHANGED <<up, restarts, known, replica, content, tagged, phone, gets, receipts, released>>
    BY DEF Fetch, history
  <1>2. TypeOK'
    BY <1>1 DEF IInv, TypeOK
  <1> QED BY <1>1, <1>2, SameIndex, SameReceipts, SamePhones, SameReads DEF IInv

\* The settle loop marks what it found, whether or not it is still there.
LEMMA ApplyInv ==
    ASSUME IInv, NEW h \in Hashes, Apply(h) PROVE IInv'
  <1>1. /\ pulled' = {} /\ content' = MarkPresent(content, h)
        /\ UNCHANGED <<up, restarts, known, replica, stored, tagged, phone, gets, receipts, released>>
    BY DEF Apply, history
  <1>2. /\ \A n \in Namespaces, k \in Hashes : IsTrackedFor(content', n, k) <=> IsTrackedFor(content, n, k)
        /\ \A k \in Hashes : IsTracked(content', k) <=> IsTracked(content, k)
        /\ \A k \in Hashes : IsPresent(content', k) <=> IsPresent(content, k) \/ (k = h /\ IsTracked(content, h))
        /\ content' \in Index
    BY <1>1, MarkProps, IndexType DEF IInv, TypeOK
  <1>3. TypeOK'
    BY <1>1, <1>2 DEF IInv, TypeOK
  <1>4. RefsExact' /\ StateExact'
    BY <1>1, <1>2 DEF IInv, RefsExact, StateExact
  <1>5. ReceiptsPresent'
    BY <1>1, <1>2, RecordIsPair DEF IInv, ReceiptsPresent, TypeOK
  <1> QED BY <1>1, <1>3, <1>4, <1>5, SamePhones, SameReads DEF IInv

\* A release of one namespace leaves the state of a hash that another names.
LEMMA ReleaseInv ==
    ASSUME IInv, NEW r \in Records, Release(r) PROVE IInv'
  <1>1. /\ r \in replica \ released /\ content' = Forget(content, r.ns, r.hash)
        /\ released' = released \cup {s \in replica : s.ns = r.ns /\ s.hash = r.hash}
        /\ UNCHANGED <<up, restarts, known, replica, stored, tagged, pulled, phone, gets, receipts>>
    BY DEF Release, store
  <1>2. r.ns \in Namespaces /\ r.hash \in Hashes /\ r = Rec(r.ns, r.hash)
    BY RecordIsPair
  <1>3. released' = released \cup {r}
    BY <1>1, <1>2, RecordIsPair DEF IInv, TypeOK
  <1> DEFINE last == DropsLast(content, r.ns, r.hash)
  <1>4. /\ \A n \in Namespaces, k \in Hashes :
               IsTrackedFor(content', n, k) <=> IsTrackedFor(content, n, k) /\ ~(n = r.ns /\ k = r.hash)
        /\ \A k \in Hashes : IsTracked(content', k) <=> IsTracked(content, k) /\ ~(k = r.hash /\ last)
        /\ \A k \in Hashes : IsPresent(content', k) <=> IsPresent(content, k) /\ ~(k = r.hash /\ last)
        /\ content' \in Index
    BY <1>1, <1>2, ForgetProps, IndexType DEF IInv, TypeOK
  <1>5. last <=> \A n \in Namespaces : ~IsTrackedFor(content', n, r.hash)
    <2>1. IsTrackedFor(content, r.ns, r.hash)
      BY <1>1, <1>2 DEF IInv, RefsExact
    <2> QED BY <1>2, <1>4, <2>1 DEF DropsLast, IsTrackedFor
  <1> HIDE DEF last
  <1>6. TypeOK'
    BY <1>1, <1>3, <1>4 DEF IInv, TypeOK
  <1>7. \A n \in Namespaces, k \in Hashes : Rec(n, k) = r <=> n = r.ns /\ k = r.hash
    BY <1>2 DEF Rec
  <1>8. RefsExact'
    BY <1>1, <1>3, <1>4, <1>7 DEF IInv, RefsExact
  <1>9. StateExact'
    <2> SUFFICES ASSUME NEW k \in Hashes
                 PROVE  IsTracked(content', k) <=> \E n \in Namespaces : IsTrackedFor(content', n, k)
      BY DEF StateExact
    <2>1. CASE k = r.hash
      BY <1>4, <1>5, <2>1 DEF IInv, StateExact
    <2>2. CASE k # r.hash
      BY <1>4, <2>2 DEF IInv, StateExact
    <2> QED BY <2>1, <2>2
  <1>10. ReceiptsPresent'
    <2> SUFFICES ASSUME NEW t \in receipts, t \notin released' PROVE IsPresent(content', t.hash)
      BY <1>1 DEF IInv, ReceiptsPresent
    <2>1. t \in replica \ released /\ IsPresent(content, t.hash) /\ t # r
      BY <1>3 DEF IInv, ReceiptsPresent
    <2>2. t.ns \in Namespaces /\ t.hash \in Hashes /\ t = Rec(t.ns, t.hash)
      BY RecordIsPair DEF IInv, TypeOK
    <2>3. IsTrackedFor(content', t.ns, t.hash)
      BY <1>4, <1>7, <2>1, <2>2 DEF IInv, RefsExact
    <2> QED BY <1>4, <1>5, <2>1, <2>2, <2>3
  <1> QED BY <1>1, <1>6, <1>8, <1>9, <1>10, SamePhones, SameReads DEF IInv

LEMMA CollectInv ==
    ASSUME IInv, Collect PROVE IInv'
  <1>1. /\ stored' = stored \cap (Referenced(content) \cup tagged)
        /\ UNCHANGED <<up, restarts, known, replica, content, tagged, pulled, phone, gets, receipts, released>>
    BY DEF Collect, history
  <1>2. TypeOK'
    BY <1>1 DEF IInv, TypeOK
  <1> QED BY <1>1, <1>2, SameIndex, SameReceipts, SamePhones, SameReads DEF IInv

LEMMA NextInv == IInv /\ [Next]_vars => IInv'
  <1> SUFFICES ASSUME IInv, [Next]_vars PROVE IInv'
    OBVIOUS
  <1>1. ASSUME NEW ns \in Namespaces, Writer(ns) PROVE IInv'
    BY <1>1, SyncInv, PutCheckInv, PutAddInv, PutMarkInv DEF Writer
  <1>2. ASSUME NEW ns \in Namespaces, PutFails(ns) PROVE IInv'
    BY <1>2, RefusedInv DEF PutFails, store, history
  <1>3. ASSUME UNCHANGED vars PROVE IInv'
    <2>1. UNCHANGED <<up, restarts, known, replica, content, stored, tagged, pulled, phone, gets, receipts, released>>
      BY <1>3 DEF vars
    <2>2. TypeOK'
      BY <2>1 DEF IInv, TypeOK
    <2> QED BY <2>1, <2>2, SameIndex, SameReceipts, SamePhones, SameReads DEF IInv
  <1> QED BY <1>1, <1>2, <1>3, GetInv, CrashInv, RestartInv, ReconcileInv, FetchInv, ApplyInv, ReleaseInv, CollectInv
          DEF Next

LEMMA Inductive == Spec => []IInv
  BY InitInv, NextInv, PTL DEF Spec

(***************************************************************************)
(* The theorems.                                                           *)
(***************************************************************************)
\* Every reachable state is well typed; what has a tag is never collected.
THEOREM TypeCorrect == Spec => []TypeOK
  BY Inductive, PTL DEF IInv

\* A receipt of put_content_handler is good until a sweep releases that very
\* record, whatever happens to the same ciphertext in other namespaces.
THEOREM ReceiptsLast == Spec => []ReceiptHonoured
  <1>1. IInv => ReceiptHonoured
    <2> SUFFICES ASSUME IInv, NEW r \in receipts, r \notin released PROVE Servable(r.ns, r.hash)
      BY DEF ReceiptHonoured
    <2>1. r \in replica \ released /\ IsPresent(content, r.hash) /\ r.hash \in tagged
      BY DEF IInv, ReceiptsPresent
    <2>2. r.ns \in Namespaces /\ r.hash \in Hashes /\ r = Rec(r.ns, r.hash)
      BY RecordIsPair DEF IInv, TypeOK
    <2>3. IsTrackedFor(content, r.ns, r.hash)
      BY <2>1, <2>2 DEF IInv, RefsExact
    <2> QED BY <2>1, <2>2, <2>3 DEF IInv, TypeOK, Servable, Readable, IsPresentFor
  <1> QED BY <1>1, Inductive, PTL

\* content_handler returns ciphertext only through a namespace that names it.
THEOREM ReadsStayInside == Spec => []NoCrossRead
  <1>1. IInv => NoCrossRead
    <2> SUFFICES ASSUME IInv, NEW g \in Reads, gets[g] = "200"
                 PROVE  \E r \in replica : r.ns = g[1] /\ r.hash = g[2]
      BY DEF NoCrossRead
    <2>1. Rec(g[1], g[2]) \in replica
      BY DEF IInv, ReadsHere
    <2> QED BY <2>1 DEF Rec
  <1> QED BY <1>1, Inductive, PTL

=============================================================================
