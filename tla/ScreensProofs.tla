---------------------------- MODULE ScreensProofs -----------------------------
(***************************************************************************)
(* What the staff see: the lists of tickets and products out of Redis, for *)
(* any rows, readers and writers; and the pages of the web front end, for  *)
(* any lines and amounts, and any order of the buttons.                    *)
(***************************************************************************)
EXTENDS ListCaches, Screens, Sums, SequenceTheorems

-----------------------------------------------------------------------------
(***************************************************************************)
(* The lists in Redis.  A reader that is not late holds the list as it is; *)
(* a writer that has checked a transition goes where it may from what it   *)
(* has seen.                                                               *)
(***************************************************************************)
RowsTyped ==
  /\ ticket \in [Tickets -> {NoRow} \cup TicketRow]
  /\ product \in [Products -> {NoRow} \cup ProductRow]

SelectedUnlessLate ==
  \A r \in Readers, k \in Keys :
    reader[r] # Idle /\ reader[r].key = k /\ ~reader[r].late => reader[r].list = ListOf(k)

SeenAllows ==
  \A w \in Writers : writer[w].pc = "checked" => writer[w].status \in TRANSITIONS(writer[w].seen)

ListsInv == ListsTypeOK /\ SelectedUnlessLate /\ StaleOnlyIfLate /\ SeenAllows

LEMMA ListsOfRows == RowsTyped => \A k \in Keys : ListOf(k) \in List
<1> SUFFICES ASSUME RowsTyped, NEW k \in Keys PROVE ListOf(k) \in List
  OBVIOUS
<1>1. ASSUME NEW t \in Tickets, ticket[t] # NoRow PROVE ticket[t].edition \in 0..MaxWrites
  BY <1>1 DEF RowsTyped, TicketRow
<1>2. ASSUME NEW p \in Products, product[p] # NoRow PROVE product[p].edition \in 0..MaxWrites
  BY <1>2 DEF RowsTyped, ProductRow
<1> QED BY <1>1, <1>2 DEF ListOf, List

LEMMA States ==
  /\ \A x \in Selected : x # Idle
  /\ \A x \in Checked \cup Written : x # Idle
  /\ \A x \in {Idle} \cup Checked \cup Written :
       (x.pc = "checked" => x \in Checked) /\ (x.pc = "written" => x \in Written)
  /\ \A x \in CachedList : x # Empty
<1>1. \A x \in Selected : x.pc = "selected"
  BY DEF Selected
<1>2. \A x \in Checked : x.pc = "checked"
  BY DEF Checked
<1>3. \A x \in Written : x.pc = "written"
  BY DEF Written
<1>4. Idle.pc = "idle"
  BY DEF Idle
<1>5. \A x \in CachedList : x.ttl # -1
  BY DEF CachedList
<1> QED BY <1>1, <1>2, <1>3, <1>4, <1>5 DEF Empty

LEMMA CommittedKeeps ==
  ASSUME ListsInv, RowsTyped', NEW w \in Writers, NEW keys \in SUBSET Keys, Committed(w, keys),
         writer[w] \in {Idle} \cup Checked
  PROVE  ListsInv'
<1> DEFINE changed == {k \in Keys : ListOf(k)' # ListOf(k)}
<1>1. /\ writes < MaxWrites /\ writes' = writes + 1
      /\ writer' = [writer EXCEPT ![w] = [pc |-> "written", keys |-> keys]]
      /\ reader' = [r \in Readers |->
           IF reader[r] # Idle /\ reader[r].key \in changed THEN [reader[r] EXCEPT !.late = TRUE]
           ELSE reader[r]]
      /\ cache' = [k \in Keys |->
           IF cache[k] # Empty /\ k \in changed \ keys THEN [cache[k] EXCEPT !.late = TRUE]
           ELSE cache[k]]
  BY DEF Committed
<1>2. \A k \in Keys \ changed : ListOf(k)' = ListOf(k)
  OBVIOUS
<1> HIDE DEF changed
<1>3. ASSUME NEW r \in Readers
      PROVE  /\ reader'[r] \in {Idle} \cup Selected
             /\ \A k \in Keys : reader'[r] # Idle /\ reader'[r].key = k /\ ~reader'[r].late =>
                                 reader'[r].list = ListOf(k)'
  <2>1. reader[r] \in {Idle} \cup Selected
    BY DEF ListsInv, ListsTypeOK
  <2>2. CASE reader[r] # Idle /\ reader[r].key \in changed
    <3>1. reader[r] \in Selected /\ reader'[r] = [reader[r] EXCEPT !.late = TRUE]
      BY <1>1, <2>1, <2>2
    <3> QED BY <3>1 DEF Selected
  <2>3. CASE ~(reader[r] # Idle /\ reader[r].key \in changed)
    <3>1. reader'[r] = reader[r]
      BY <1>1, <2>3
    <3>2. reader[r] # Idle => reader[r].key \in Keys \ changed
      BY <2>1, <2>3 DEF Selected
    <3> QED BY <1>2, <2>1, <3>1, <3>2 DEF ListsInv, SelectedUnlessLate
  <2> QED BY <2>2, <2>3
<1>4. ASSUME NEW k \in Keys
      PROVE  /\ cache'[k] \in {Empty} \cup CachedList
             /\ cache'[k] # Empty /\ ~cache'[k].late =>
                  \/ cache'[k].list = ListOf(k)'
                  \/ \E u \in Writers : writer'[u].pc = "written" /\ k \in writer'[u].keys
  <2>1. cache[k] \in {Empty} \cup CachedList
    BY DEF ListsInv, ListsTypeOK
  <2>2. writer'[w] = [pc |-> "written", keys |-> keys] /\ writer'[w].pc = "written" /\ writer'[w].keys = keys
    BY <1>1 DEF ListsInv, ListsTypeOK
  <2>3. \A u \in Writers : writer[u].pc = "written" => writer'[u] = writer[u]
    BY <1>1, States DEF ListsInv, ListsTypeOK, Checked, Idle
  <2>4. CASE cache[k] # Empty /\ k \in changed \ keys
    <3>1. cache[k] \in CachedList /\ cache'[k] = [cache[k] EXCEPT !.late = TRUE]
      BY <1>1, <2>1, <2>4
    <3> QED BY <3>1 DEF CachedList
  <2>5. CASE ~(cache[k] # Empty /\ k \in changed \ keys)
    <3>1. cache'[k] = cache[k]
      BY <1>1, <2>5
    <3>2. CASE k \in keys
      BY <2>1, <2>2, <3>1, <3>2
    <3>3. CASE k \notin keys /\ cache[k] # Empty
      <4>1. ListOf(k)' = ListOf(k)
        BY <1>2, <2>5, <3>3
      <4>2. ~cache[k].late =>
              \/ cache[k].list = ListOf(k)
              \/ \E u \in Writers : writer[u].pc = "written" /\ k \in writer[u].keys
        BY <3>3 DEF ListsInv, StaleOnlyIfLate
      <4> QED BY <2>1, <2>3, <3>1, <4>1, <4>2
    <3> QED BY <2>1, <3>1, <3>2, <3>3
  <2> QED BY <2>4, <2>5
<1>5. ASSUME NEW u \in Writers
      PROVE  /\ writer'[u] \in {Idle} \cup Checked \cup Written
             /\ writer'[u].pc = "checked" => writer'[u].status \in TRANSITIONS(writer'[u].seen)
  <2>1. [pc |-> "written", keys |-> keys] \in Written
    BY DEF Written
  <2>2. writer'[u] = [pc |-> "written", keys |-> keys] \/ writer'[u] = writer[u]
    BY <1>1 DEF ListsInv, ListsTypeOK
  <2> QED BY <2>1, <2>2 DEF ListsInv, ListsTypeOK, SeenAllows
<1>6. writes' \in 0..MaxWrites
  BY <1>1, CacheAssumption DEF ListsInv, ListsTypeOK
<1>7. ListsTypeOK'
  <2>1. cache' \in [Keys -> {Empty} \cup CachedList]
    BY <1>1, <1>4
  <2>2. reader' \in [Readers -> {Idle} \cup Selected]
    BY <1>1, <1>3
  <2>3. writer' \in [Writers -> {Idle} \cup Checked \cup Written]
    BY <1>1, <1>5 DEF ListsInv, ListsTypeOK
  <2> QED BY <1>6, <2>1, <2>2, <2>3 DEF ListsTypeOK, RowsTyped
<1>8. SelectedUnlessLate'
  BY <1>3 DEF SelectedUnlessLate
<1>9. StaleOnlyIfLate'
  BY <1>4 DEF StaleOnlyIfLate
<1>10. SeenAllows'
  BY <1>5 DEF SeenAllows
<1> QED BY <1>7, <1>8, <1>9, <1>10 DEF ListsInv

LEMMA ListsStep == ListsInv /\ [ListsNext]_listVars => ListsInv'
<1> SUFFICES ASSUME ListsInv, [ListsNext]_listVars PROVE ListsInv'
  OBVIOUS
<1>0. /\ ticket \in [Tickets -> {NoRow} \cup TicketRow]
      /\ product \in [Products -> {NoRow} \cup ProductRow]
      /\ cache \in [Keys -> {Empty} \cup CachedList]
      /\ reader \in [Readers -> {Idle} \cup Selected]
      /\ writer \in [Writers -> {Idle} \cup Checked \cup Written]
      /\ writes \in 0..MaxWrites /\ MaxWrites \in Nat
      /\ Wanted \subseteq Keys
  BY CacheAssumption DEF ListsInv, ListsTypeOK
<1>1. UNCHANGED tables => RowsTyped' /\ \A k \in Keys : ListOf(k)' = ListOf(k)
  BY <1>0 DEF tables, RowsTyped, ListOf
<1>2. CASE UNCHANGED listVars
  BY <1>1, <1>2 DEF listVars, tables, ListsInv, ListsTypeOK, SelectedUnlessLate, StaleOnlyIfLate, SeenAllows
<1>3. ASSUME NEW r \in Readers, NEW k \in Wanted, Select(r, k) PROVE ListsInv'
  <2>1. ListOf(k) \in List
    BY <1>0, ListsOfRows DEF RowsTyped
  <2> DEFINE s == [pc |-> "selected", key |-> k, list |-> ListOf(k), late |-> FALSE]
  <2>2. s \in Selected /\ s.key = k /\ s.list = ListOf(k)
    BY <1>0, <2>1 DEF Selected
  <2>3. reader' = [reader EXCEPT ![r] = s] /\ UNCHANGED <<ticket, product, cache, writer, writes>>
    BY <1>3 DEF Select, tables
  <2>4. \A j \in Keys : ListOf(j)' = ListOf(j)
    BY <1>1, <2>3 DEF tables
  <2> HIDE DEF s
  <2>5. ListsTypeOK'
    BY <1>0, <2>2, <2>3 DEF ListsTypeOK
  <2>6. SelectedUnlessLate'
    BY <1>0, <2>2, <2>3, <2>4 DEF ListsInv, SelectedUnlessLate
  <2>7. StaleOnlyIfLate'
    BY <2>3, <2>4 DEF ListsInv, StaleOnlyIfLate
  <2> QED BY <2>3, <2>5, <2>6, <2>7 DEF ListsInv, SeenAllows
<1>4. ASSUME NEW r \in Readers, Fill(r) \/ FillFails(r) PROVE ListsInv'
  <2>1. reader[r] \in Selected /\ reader' = [reader EXCEPT ![r] = Idle]
        /\ UNCHANGED <<ticket, product, writer, writes>>
    BY <1>0, <1>4 DEF Fill, FillFails, tables
  <2>2. \A j \in Keys : ListOf(j)' = ListOf(j)
    BY <1>1, <2>1 DEF tables
  <2> DEFINE c == [list |-> reader[r].list, ttl |-> 60, late |-> reader[r].late]
  <2>3. cache' = [cache EXCEPT ![reader[r].key] = c] \/ cache' = cache
    BY <1>4 DEF Fill, FillFails
  <2>4. c \in CachedList /\ reader[r].key \in Keys /\ (~c.late => c.list = ListOf(reader[r].key))
    BY <2>1, States DEF Selected, CachedList, ListsInv, SelectedUnlessLate
  <2> HIDE DEF c
  <2>5. ListsTypeOK'
    BY <1>0, <2>1, <2>3, <2>4 DEF ListsTypeOK
  <2>6. SelectedUnlessLate'
    BY <1>0, <2>1, <2>2 DEF ListsInv, SelectedUnlessLate
  <2>7. StaleOnlyIfLate'
    BY <1>0, <2>1, <2>2, <2>3, <2>4 DEF ListsInv, StaleOnlyIfLate
  <2> QED BY <2>1, <2>5, <2>6, <2>7 DEF ListsInv, SeenAllows
<1>5. ASSUME NEW k \in Keys, Expire(k) PROVE ListsInv'
  <2>1. cache' = [cache EXCEPT ![k] = Empty] /\ UNCHANGED <<ticket, product, reader, writer, writes>>
    BY <1>5 DEF Expire, tables
  <2>2. \A j \in Keys : ListOf(j)' = ListOf(j)
    BY <1>1, <2>1 DEF tables
  <2>3. ListsTypeOK'
    BY <1>0, <2>1 DEF ListsTypeOK
  <2>4. SelectedUnlessLate' /\ SeenAllows'
    BY <2>1, <2>2 DEF ListsInv, SelectedUnlessLate, SeenAllows
  <2>5. StaleOnlyIfLate'
    BY <1>0, <2>1, <2>2 DEF ListsInv, StaleOnlyIfLate
  <2> QED BY <2>3, <2>4, <2>5 DEF ListsInv
<1>6. ASSUME NEW w \in Writers, Delete(w) \/ DeleteFails(w) PROVE ListsInv'
  <2>1. /\ writer[w] \in Written /\ writer' = [writer EXCEPT ![w] = Idle]
        /\ UNCHANGED <<ticket, product, reader, writes>>
    BY <1>0, <1>6, States DEF Delete, DeleteFails, tables
  <2>2. \A j \in Keys : ListOf(j)' = ListOf(j)
    BY <1>1, <2>1 DEF tables
  <2>3. cache' = [k \in Keys |-> cache'[k]]
    BY <1>6 DEF Delete, DeleteFails
  <2>4. ASSUME NEW k \in Keys
        PROVE  /\ cache'[k] \in {Empty} \cup CachedList
               /\ cache'[k] # Empty /\ ~cache'[k].late => cache'[k] = cache[k] /\ k \notin writer[w].keys
    <3>1. CASE Delete(w)
      BY <1>0, <3>1 DEF Delete
    <3>2. CASE DeleteFails(w)
      <4>1. CASE k \in writer[w].keys /\ cache[k] # Empty
        <5>1. cache[k] \in CachedList /\ cache'[k] = [cache[k] EXCEPT !.late = TRUE]
          BY <1>0, <3>2, <4>1 DEF DeleteFails
        <5> QED BY <5>1 DEF CachedList
      <4>2. CASE ~(k \in writer[w].keys /\ cache[k] # Empty)
        BY <1>0, <3>2, <4>2 DEF DeleteFails
      <4> QED BY <4>1, <4>2
    <3> QED BY <1>6, <3>1, <3>2
  <2>5. ListsTypeOK'
    <3>1. cache' \in [Keys -> {Empty} \cup CachedList]
      BY <2>3, <2>4
    <3> QED BY <1>0, <2>1, <3>1 DEF ListsTypeOK
  <2>6. SelectedUnlessLate'
    BY <2>1, <2>2 DEF ListsInv, SelectedUnlessLate
  <2>7. SeenAllows'
    BY <1>0, <2>1 DEF ListsInv, SeenAllows, Idle
  <2>8. StaleOnlyIfLate'
    <3>1. \A u \in Writers \ {w} : writer'[u] = writer[u]
      BY <1>0, <2>1
    <3> QED BY <2>2, <2>4, <3>1 DEF ListsInv, StaleOnlyIfLate
  <2> QED BY <2>5, <2>6, <2>7, <2>8 DEF ListsInv
<1>7. ASSUME NEW w \in Writers, NEW t \in Tickets, NEW status \in Status, CheckTransition(w, t, status)
      PROVE  ListsInv'
  <2> DEFINE c == [pc |-> "checked", ticket |-> t, seen |-> ticket[t].status, status |-> status]
  <2>1. /\ writer[w] = Idle /\ writer' = [writer EXCEPT ![w] = c]
        /\ UNCHANGED <<ticket, product, cache, reader, writes>>
    BY <1>7 DEF CheckTransition, tables
  <2>2. c \in Checked /\ c.status \in TRANSITIONS(c.seen)
    BY <1>0, <1>7 DEF CheckTransition, Checked, TicketRow
  <2>3. \A j \in Keys : ListOf(j)' = ListOf(j)
    BY <1>1, <2>1 DEF tables
  <2> HIDE DEF c
  <2>4. ListsTypeOK'
    BY <1>0, <2>1, <2>2 DEF ListsTypeOK
  <2>5. SelectedUnlessLate'
    BY <2>1, <2>3 DEF ListsInv, SelectedUnlessLate
  <2>6. SeenAllows'
    BY <1>0, <2>1, <2>2 DEF ListsInv, SeenAllows
  <2>7. StaleOnlyIfLate'
    <3>1. \A u \in Writers : writer[u].pc = "written" => writer'[u] = writer[u]
      BY <1>0, <2>1 DEF Idle
    <3> QED BY <2>1, <2>3, <3>1 DEF ListsInv, StaleOnlyIfLate
  <2> QED BY <2>4, <2>5, <2>6, <2>7 DEF ListsInv
<1>8. ASSUME NEW t \in Tickets, NEW status \in Status, TicketBecomes(t, status),
             UNCHANGED product, writes < MaxWrites
      PROVE  RowsTyped'
  <2>1. [status |-> status, edition |-> writes + 1] \in TicketRow
    BY <1>0, <1>8 DEF TicketRow
  <2> QED BY <1>0, <1>8, <2>1 DEF TicketBecomes, RowsTyped
<1>9. ASSUME NEW p \in Products, NEW b \in Branches, ProductBecomes(p, b),
             UNCHANGED ticket, writes < MaxWrites
      PROVE  RowsTyped'
  <2>1. [branch |-> b, edition |-> writes + 1] \in ProductRow
    BY <1>0, <1>9 DEF ProductRow
  <2> QED BY <1>0, <1>9, <2>1 DEF ProductBecomes, RowsTyped
<1>10. OpenKey \in Keys /\ {OpenKey} \in SUBSET Keys /\ \A b \in Branches : KeysOf(b) \in SUBSET Keys
  BY DEF Keys, KeysOf
<1>11. \A w \in Writers : \A keys : Committed(w, keys) => writes < MaxWrites
  BY DEF Committed
<1>12. ASSUME NEW w \in Writers, MakeTransition(w) PROVE ListsInv'
  <2>1. writer[w] \in Checked /\ TicketBecomes(writer[w].ticket, writer[w].status) /\ UNCHANGED product
        /\ Committed(w, {OpenKey})
    BY <1>0, <1>12, States DEF MakeTransition
  <2>2. writer[w].ticket \in Tickets /\ writer[w].status \in Status
    BY <2>1 DEF Checked
  <2>3. RowsTyped'
    BY <1>8, <1>11, <2>1, <2>2
  <2> QED BY <1>10, <2>1, <2>3, CommittedKeeps
<1>13. ASSUME NEW w \in Writers, NEW t \in Tickets, NEW status \in Status,
              CreateTicket(w, t, status) \/ UpdateTicket(w, t, status)
       PROVE  ListsInv'
  <2>1. writer[w] = Idle /\ TicketBecomes(t, status) /\ UNCHANGED product /\ Committed(w, {OpenKey})
    BY <1>13 DEF CreateTicket, UpdateTicket
  <2>2. RowsTyped'
    BY <1>8, <1>11, <2>1
  <2> QED BY <1>10, <2>1, <2>2, CommittedKeeps
<1>14. ASSUME NEW w \in Writers, NEW p \in Products, UpdateProduct(w, p) \/ DeleteProduct(w, p)
       PROVE  ListsInv'
  <2> DEFINE b == product[p].branch
  <2>1. writer[w] = Idle /\ product[p] \in ProductRow /\ UNCHANGED ticket /\ Committed(w, KeysOf(b))
        /\ (ProductBecomes(p, b) \/ product' = [product EXCEPT ![p] = NoRow])
    BY <1>0, <1>14 DEF UpdateProduct, DeleteProduct
  <2>2. b \in Branches
    BY <2>1 DEF ProductRow
  <2> HIDE DEF b
  <2>3. RowsTyped'
    BY <1>0, <1>9, <1>11, <2>1, <2>2 DEF RowsTyped
  <2> QED BY <1>10, <2>1, <2>2, <2>3, CommittedKeeps
<1>15. ASSUME NEW w \in Writers, NEW p \in Products, NEW b \in Branches,
              CreateProduct(w, p, b) \/ SellOrRefund(w, p, b)
       PROVE  ListsInv'
  <2>1. writer[w] = Idle /\ UNCHANGED ticket /\ Committed(w, KeysOf(b))
        /\ \E a \in Branches : ProductBecomes(p, a)
    BY <1>0, <1>15 DEF CreateProduct, SellOrRefund, ProductRow
  <2>2. RowsTyped'
    BY <1>9, <1>11, <2>1
  <2> QED BY <1>10, <2>1, <2>2, CommittedKeeps
<1> QED
  BY <1>2, <1>3, <1>4, <1>5, <1>6, <1>7, <1>12, <1>13, <1>14, <1>15
  DEF ListsNext, ReaderStep, WriterStep

LEMMA ListsAtFirst == ListsInit => ListsInv
<1> SUFFICES ASSUME ListsInit PROVE ListsInv
  OBVIOUS
<1>1. 0 \in 0..MaxWrites
  BY CacheAssumption
<1>2. ticket \in [Tickets -> {NoRow} \cup TicketRow]
  <2>1. [status |-> "OPEN", edition |-> 0] \in TicketRow
    BY <1>1 DEF TicketRow, Status
  <2> QED BY <2>1 DEF ListsInit
<1>3. product \in [Products -> {NoRow} \cup ProductRow]
  <2>1. [branch : Branches, edition : {0}] \subseteq ProductRow
    BY <1>1 DEF ProductRow
  <2> QED BY <2>1 DEF ListsInit
<1>4. ListsTypeOK
  BY <1>1, <1>2, <1>3 DEF ListsInit, ListsTypeOK
<1>5. SelectedUnlessLate /\ StaleOnlyIfLate
  BY DEF ListsInit, SelectedUnlessLate, StaleOnlyIfLate
<1>6. SeenAllows
  BY DEF ListsInit, SeenAllows, Idle
<1> QED BY <1>4, <1>5, <1>6 DEF ListsInv

(***************************************************************************)
(* For any number of requests in flight, and a Redis that may fail: a list *)
(* is out of date only while its deletion is still to come, or if it was   *)
(* selected before a change that was committed before it was cached.       *)
(***************************************************************************)
THEOREM StaleListsAreLate == ListsSpec => []StaleOnlyIfLate
<1> QED BY ListsAtFirst, ListsStep, PTL DEF ListsSpec, ListsInv

(***************************************************************************)
(* For any number of requests in flight: what takes a closed ticket out of *)
(* its state is PATCH, or a transition checked before it was closed.       *)
(***************************************************************************)
THEOREM ClosedStaysClosed == ListsSpec => ClosedUnlessLate
<1> DEFINE Cause(t) ==
             \E w \in Writers :
               IF writer[w] = Idle THEN \E status \in Status : UpdateTicket(w, t, status)
               ELSE writer[w].pc = "checked" /\ writer[w].ticket = t /\ writer[w].seen # "CLOSED"
           A == \A t \in Tickets : ticket[t] # NoRow /\ ticket[t].status = "CLOSED" /\ ticket'[t].status # "CLOSED" =>
                  Cause(t)
<1>1. ListsInv /\ [ListsNext]_listVars => [A]_listVars
  <2> SUFFICES ASSUME ListsInv, ListsNext, NEW t \in Tickets,
                      ticket[t] # NoRow, ticket[t].status = "CLOSED", ticket'[t].status # "CLOSED"
               PROVE  Cause(t)
    OBVIOUS
  <2>1. ticket' # ticket
    OBVIOUS
  <2>2. PICK w \in Writers :
          \/ MakeTransition(w)
          \/ \E u \in Tickets, status \in Status : CreateTicket(w, u, status) \/ UpdateTicket(w, u, status)
    BY <2>1 DEF ListsNext, ReaderStep, WriterStep, Select, Fill, FillFails, Expire, Delete, DeleteFails,
                CheckTransition, UpdateProduct, DeleteProduct, CreateProduct, SellOrRefund, tables
  <2>3. ticket \in [Tickets -> {NoRow} \cup TicketRow]
    BY DEF ListsInv, ListsTypeOK
  <2>4. CASE MakeTransition(w)
    <3>1. writer[w] \in Checked /\ TicketBecomes(writer[w].ticket, writer[w].status)
      BY <2>4, States DEF MakeTransition, ListsInv, ListsTypeOK
    <3>2. writer[w].ticket = t /\ writer[w].status # "CLOSED" /\ writer[w].seen \in Status
      BY <2>3, <3>1 DEF TicketBecomes, Checked
    <3>3. writer[w].status \in TRANSITIONS(writer[w].seen) /\ writer[w].pc = "checked"
      BY <2>4 DEF MakeTransition, ListsInv, SeenAllows
    <3>4. writer[w].seen # "CLOSED"
      BY <3>3 DEF TRANSITIONS
    <3> QED BY <3>1, <3>2, <3>3, <3>4, States
  <2>5. ASSUME NEW u \in Tickets, NEW status \in Status, CreateTicket(w, u, status) \/ UpdateTicket(w, u, status)
        PROVE  Cause(t)
    <3>1. u = t
      BY <2>3, <2>5 DEF CreateTicket, UpdateTicket, TicketBecomes
    <3>2. UpdateTicket(w, t, status)
      BY <2>5, <3>1 DEF CreateTicket
    <3>3. writer[w] = Idle
      BY <3>2 DEF UpdateTicket
    <3> QED BY <3>2, <3>3
  <2> QED BY <2>2, <2>4, <2>5
<1>2. ListsSpec => [][A]_listVars
  <2> HIDE DEF A
  <2> QED BY <1>1, ListsAtFirst, ListsStep, PTL DEF ListsSpec
<1> QED BY <1>2 DEF ClosedUnlessLate

-----------------------------------------------------------------------------
(***************************************************************************)
(* Amounts.  Math.round is off by half a cent at most, and by nothing from *)
(* whole cents.                                                            *)
(***************************************************************************)
LEMMA RoundedIsNear ==
  ASSUME NEW num \in Int
  PROVE  /\ Rounded(num, 100) # {} /\ Rounded(num, 100) \subseteq Int
         /\ \A x \in Rounded(num, 100) : num - 50 <= 100 * x /\ 100 * x <= num + 50
<1> DEFINE up == (2 * num + 100) \div 200
<1>1. up \in Int /\ 200 * up <= 2 * num + 100 /\ 2 * num + 100 < 200 * up + 200
  OBVIOUS
<1>2. (2 * num + 100) % 200 = 2 * num + 100 - 200 * up
  OBVIOUS
<1> HIDE DEF up
<1>3. Rounded(num, 100) = IF (2 * num + 100) % 200 = 0 THEN {up - 1, up} ELSE {up}
  BY DEF Rounded, up
<1> QED BY <1>1, <1>2, <1>3

LEMMA TaxIsNear ==
  ASSUME NEW num \in Int
  PROVE  /\ Rounded(num, 10000) # {} /\ Rounded(num, 10000) \subseteq Int
         /\ \A x \in Rounded(num, 10000) : num - 5000 <= 10000 * x /\ 10000 * x <= num + 5000
<1> DEFINE up == (2 * num + 10000) \div 20000
<1>1. up \in Int /\ 20000 * up <= 2 * num + 10000 /\ 2 * num + 10000 < 20000 * up + 20000
  OBVIOUS
<1>2. (2 * num + 10000) % 20000 = 2 * num + 10000 - 20000 * up
  OBVIOUS
<1> HIDE DEF up
<1>3. Rounded(num, 10000) = IF (2 * num + 10000) % 20000 = 0 THEN {up - 1, up} ELSE {up}
  BY DEF Rounded, up
<1>4. CASE (2 * num + 10000) % 20000 = 0
  <2>1. 20000 * up = 2 * num + 10000
    BY <1>1, <1>2, <1>4
  <2>2. 10000 * up = num + 5000 /\ 10000 * (up - 1) = num - 5000
    BY <1>1, <2>1
  <2>3. \A x \in {up - 1, up} : x \in Int /\ num - 5000 <= 10000 * x /\ 10000 * x <= num + 5000
    BY <1>1, <2>2
  <2> QED BY <1>3, <1>4, <2>3
<1>5. CASE (2 * num + 10000) % 20000 # 0
  <2>1. num - 5000 <= 10000 * up /\ 10000 * up <= num + 5000
    BY <1>1
  <2> QED BY <1>1, <1>3, <1>5, <2>1
<1> QED BY <1>4, <1>5

LEMMA WholeIsExact == ASSUME NEW cents \in Int PROVE Rounded(100 * cents, 100) = {cents}
<1>1. (2 * (100 * cents) + 100) \div 200 = cents /\ (2 * (100 * cents) + 100) % 200 = 100
  OBVIOUS
<1> QED BY <1>1 DEF Rounded

LEMMA SameTax == ASSUME NEW num \in Int PROVE Rounded(100 * num, 10000) = Rounded(num, 100)
<1>1. (2 * (100 * num) + 10000) \div 20000 = (2 * num + 100) \div 200
  OBVIOUS
<1>2. (2 * (100 * num) + 10000) % 20000 = 0 <=> (2 * num + 100) % 200 = 0
  OBVIOUS
<1> QED BY <1>1, <1>2 DEF Rounded

-----------------------------------------------------------------------------
(* A sum from sets is the sum of numbers out of them, and there is one. *)
LEMMA SumsAreFrom ==
  ASSUME NEW n \in Nat, NEW sets, DOMAIN sets = 1..n, \A i \in 1..n : sets[i] \subseteq Int
  PROVE  /\ \A s \in SumsFrom(sets) :
              \E f \in [1..n -> Int] : (\A i \in 1..n : f[i] \in sets[i]) /\ s = SumFunctionOnSet(f, 1..n)
         /\ SumsFrom(sets) \subseteq Int
         /\ (\A i \in 1..n : sets[i] # {}) => SumsFrom(sets) # {}
<1>1. IsFiniteSet(1..n)
  BY FS_Interval
<1>2. \A f : DOMAIN f = 1..n => SumFunction(f) = SumFunctionOnSet(f, 1..n)
  BY DEF SumFunction, SumFunctionOnSet, FoldFunction
<1>3. \A i \in 1..n : sets[i] \subseteq UNION Range(sets)
  BY DEF Range
<1>4. \A s \in SumsFrom(sets) :
        \E f \in [1..n -> Int] : (\A i \in 1..n : f[i] \in sets[i]) /\ s = SumFunctionOnSet(f, 1..n)
  <2> SUFFICES ASSUME NEW s \in SumsFrom(sets)
               PROVE  \E f \in [1..n -> Int] : (\A i \in 1..n : f[i] \in sets[i]) /\ s = SumFunctionOnSet(f, 1..n)
    OBVIOUS
  <2>1. PICK f \in [1..n -> UNION Range(sets)] : (\A i \in 1..n : f[i] \in sets[i]) /\ s = SumFunction(f)
    BY DEF SumsFrom
  <2>2. f \in [1..n -> Int]
    BY <2>1
  <2> QED BY <1>2, <2>1, <2>2
<1>5. SumsFrom(sets) \subseteq Int
  <2> SUFFICES ASSUME NEW s \in SumsFrom(sets) PROVE s \in Int
    OBVIOUS
  <2>1. PICK f \in [1..n -> Int] : s = SumFunctionOnSet(f, 1..n)
    BY <1>4
  <2>2. \A i \in 1..n : f[i] \in Int
    BY <2>1
  <2> QED BY <1>1, <2>1, <2>2, SumIsInt
<1>6. ASSUME \A i \in 1..n : sets[i] # {} PROVE SumsFrom(sets) # {}
  <2> DEFINE f == [i \in 1..n |-> CHOOSE x \in sets[i] : TRUE]
  <2>1. \A i \in 1..n : f[i] \in sets[i]
    BY <1>6
  <2>2. f \in [1..n -> UNION Range(sets)]
    BY <1>3, <2>1
  <2>3. SumFunction(f) \in SumsFrom(sets)
    BY <2>1, <2>2 DEF SumsFrom
  <2> QED BY <2>3
<1> QED BY <1>4, <1>5, <1>6

(* The lines a form may be submitted with. *)
ValidLine == {line \in Line : line.described /\ line.qty > 0}

LEMMA LastIsThere ==
  ASSUME NEW n \in Nat, NEW s \in SUBSET (1..n), s # {}
  PROVE  Max(s) \in s
<1> DEFINE S == 1..n
           G == {T \in SUBSET S : T # {} => \E x \in T : \A y \in T : x >= y}
<1>1. ASSUME NEW T \in SUBSET S, \A U \in SUBSET T : U # T => U \in G
      PROVE  T \in G
  <2> SUFFICES ASSUME T # {} PROVE \E x \in T : \A y \in T : x >= y
    OBVIOUS
  <2>1. PICK x \in T : TRUE
    OBVIOUS
  <2>2. T \ {x} \in G
    BY <1>1, <2>1
  <2>3. CASE T \ {x} = {}
    BY <2>1, <2>3
  <2>4. CASE T \ {x} # {}
    <3>1. PICK m \in T \ {x} : \A y \in T \ {x} : m >= y
      BY <2>2, <2>4
    <3>2. x \in Nat /\ m \in Nat /\ \A y \in T : y \in Nat
      OBVIOUS
    <3>3. CASE x >= m
      <4>1. \A y \in T : x >= y
        BY <3>1, <3>2, <3>3
      <4> QED BY <4>1
    <3>4. CASE m >= x
      <4>1. \A y \in T : m >= y
        BY <3>1, <3>2, <3>4
      <4> QED BY <4>1
    <3> QED BY <3>2, <3>3, <3>4
  <2> QED BY <2>3, <2>4
<1>2. s \in G
  <2>1. IsFiniteSet(S) /\ s \in SUBSET S
    BY FS_Interval
  <2> HIDE DEF G, S
  <2>2. \A T \in SUBSET S : (\A U \in SUBSET T : U # T => U \in G) => T \in G
    BY <1>1
  <2>3. \A T \in SUBSET S : T \in G
    BY ONLY <2>1, <2>2, BySubsets
  <2> QED BY <2>1, <2>3
<1> QED BY <1>2 DEF Max

LEMMA ValidAreKept ==
  ASSUME NEW lines \in Seq(Line)
  PROVE  FoldLeft(LAMBDA kept, line : IF line.described /\ line.qty > 0 THEN Append(kept, line) ELSE kept,
                  <<>>, lines) \in Seq(ValidLine)
<1> DEFINE Kept == FoldLeft(LAMBDA kept, line : IF line.described /\ line.qty > 0 THEN Append(kept, line) ELSE kept,
                            <<>>, lines)
           S == 1..Len(lines)
           next == [p \in (SUBSET S) \X Seq(ValidLine) |->
                      LET line == lines[Max(p[1])] IN
                      IF p[1] # {} /\ line.described /\ line.qty > 0 THEN Append(p[2], line) ELSE p[2]]
           pick == [s \in SUBSET S |-> Max(s)]
<1>1. S = DOMAIN lines /\ IsFiniteSet(S) /\ Len(lines) \in Nat
  BY FS_Interval
<1>2. \A s \in SUBSET S : s # {} => pick[s] \in s
  BY <1>1, LastIsThere
<1>3. next \in [(SUBSET S) \X Seq(ValidLine) -> Seq(ValidLine)]
  <2> SUFFICES ASSUME NEW p \in (SUBSET S) \X Seq(ValidLine) PROVE next[p] \in Seq(ValidLine)
    OBVIOUS
  <2>1. CASE p[1] # {} /\ lines[Max(p[1])].described /\ lines[Max(p[1])].qty > 0
    <3>1. Max(p[1]) \in DOMAIN lines
      BY <1>1, <2>1, LastIsThere
    <3>2. lines[Max(p[1])] \in Line
      BY <3>1
    <3>3. lines[Max(p[1])] \in ValidLine
      BY <2>1, <3>2 DEF ValidLine
    <3> QED BY <2>1, <3>3
  <2>2. CASE ~(p[1] # {} /\ lines[Max(p[1])].described /\ lines[Max(p[1])].qty > 0)
    BY <2>2
  <2> QED BY <2>1, <2>2
<1>4. <<>> \in Seq(ValidLine)
  OBVIOUS
<1>5. PICK g : IsFoldUpTo(g, next, pick, <<>>, S)
  <2> DEFINE none == <<>>
  <2> HIDE DEF S, next, pick, none
  <2>1. \E g : IsFoldUpTo(g, next, pick, none, S)
    BY ONLY <1>1, <1>2, FoldUpToExists
  <2> QED BY <2>1 DEF none
<1>6. g \in [SUBSET S -> Seq(ValidLine)]
  <2> DEFINE G == {s \in SUBSET S : g[s] \in Seq(ValidLine)}
  <2>1. ASSUME NEW s \in SUBSET S, \A u \in SUBSET s : u # s => u \in G
        PROVE  s \in G
    <3>1. g[s] = IF s = {} THEN <<>> ELSE next[<<s, g[s \ {pick[s]}]>>]
      <4> HIDE DEF S, next, pick
      <4> QED BY <1>5 DEF IsFoldUpTo
    <3>2. CASE s # {}
      <4>1. g[s \ {pick[s]}] \in Seq(ValidLine)
        BY <1>2, <2>1, <3>2
      <4>2. <<s, g[s \ {pick[s]}]>> \in (SUBSET S) \X Seq(ValidLine)
        BY <4>1
      <4>3. next[<<s, g[s \ {pick[s]}]>>] \in Seq(ValidLine)
        <5> HIDE DEF S, next, pick
        <5> QED BY ONLY <1>3, <4>2
      <4>4. g[s] \in Seq(ValidLine)
        <5> HIDE DEF S, next, pick
        <5> QED BY ONLY <3>1, <3>2, <4>3
      <4> QED BY <4>4
    <3>3. CASE s = {}
      <4> HIDE DEF S, next, pick
      <4>1. g[s] \in Seq(ValidLine)
        BY <3>1, <3>3
      <4> QED BY <4>1
    <3> QED BY ONLY <3>2, <3>3
  <2>2. \A s \in SUBSET S : s \in G
    <3> HIDE DEF G, S
    <3> QED BY ONLY <1>1, <2>1, BySubsets
  <2> HIDE DEF S, next, pick
  <2> QED BY <1>5, <2>2 DEF IsFoldUpTo
<1> DEFINE Iter(s, x) == IF lines[Max(s)].described /\ lines[Max(s)].qty > 0
                         THEN Append(x, lines[Max(s)]) ELSE x
           Is(h) == h = [s \in SUBSET S |-> IF s = {} THEN <<>> ELSE Iter(s, h[s \ {Max(s)}])]
<1>7. Is(g)
  <2>1. ASSUME NEW s \in SUBSET S, s # {} PROVE g[s] = Iter(s, g[s \ {Max(s)}])
    <3>1. Max(s) \in s /\ pick[s] = Max(s)
      BY <1>1, <2>1, LastIsThere
    <3>2. g[s \ {Max(s)}] \in Seq(ValidLine)
      BY <1>6, <3>1
    <3>3. g[s] = next[<<s, g[s \ {pick[s]}]>>]
      <4> HIDE DEF S, next, pick
      <4> QED BY <1>5, <2>1 DEF IsFoldUpTo
    <3>4. g[s] = next[<<s, g[s \ {Max(s)}]>>]
      <4> HIDE DEF S, next, pick
      <4> QED BY <3>1, <3>3
    <3>5. <<s, g[s \ {Max(s)}]>> \in (SUBSET S) \X Seq(ValidLine)
      BY <3>2
    <3> QED BY <2>1, <3>4, <3>5
  <2>2. g[{}] = <<>>
    <3> HIDE DEF S, next, pick
    <3> QED BY <1>5 DEF IsFoldUpTo
  <2>3. DOMAIN g = SUBSET S
    BY <1>6
  <2> HIDE DEF S, Iter
  <2> QED BY <1>6, <2>1, <2>2, <2>3
<1> DEFINE h == CHOOSE h : Is(h)
<1>8. Is(h)
  <2> HIDE DEF Is
  <2> QED BY <1>7, Zenon
<1>9. h \in [SUBSET S -> Seq(ValidLine)]
  <2> DEFINE A == Seq(ValidLine)
             none == <<>>
  <2> HIDE DEF h
  <2>1. \A s \in SUBSET S : s # {} => Max(s) \in s /\ pick[s] = Max(s)
    BY <1>1, LastIsThere
  <2> DEFINE G == {s \in SUBSET S : h[s] \in A}
  <2>2. ASSUME NEW s \in SUBSET S, \A u \in SUBSET s : u # s => u \in G
        PROVE  s \in G
    <3>1. CASE s = {}
      BY <1>8, <3>1
    <3>2. CASE s # {}
      <4>1. h[s \ {Max(s)}] \in A
        BY <2>1, <2>2, <3>2
      <4>2. h[s] = Iter(s, h[s \ {Max(s)}])
        <5> HIDE DEF Iter, S
        <5> QED BY <1>8, <3>2
      <4>3. <<s, h[s \ {Max(s)}]>> \in (SUBSET S) \X A
        BY <4>1
      <4>4. h[s] = next[<<s, h[s \ {Max(s)}]>>]
        BY <3>2, <4>2, <4>3
      <4> QED BY <1>3, <4>3, <4>4
    <3> QED BY <3>1, <3>2
  <2>3. \A s \in SUBSET S : s \in G
    <3> HIDE DEF G, S
    <3> QED BY ONLY <1>1, <2>2, BySubsets
  <2> HIDE DEF S
  <2> QED BY <1>8, <2>3
<1>10. Kept = h[S]
  BY <1>1 DEF FoldLeft, MapThenFoldSet
<1> HIDE DEF h, S
<1> QED BY <1>9, <1>10

LEMMA ValidLinesAreValid ==
  ASSUME ScreensAssumption, form \in Seq(Lines \cup {BlankLine})
  PROVE  ValidLines \in Seq(ValidLine)
<1>1. BlankLine \in Line
  BY DEF BlankLine, Line
<1>2. Lines \subseteq Line
  BY DEF ScreensAssumption
<1>3. form \in Seq(Line)
  BY <1>1, <1>2
<1> QED BY <1>3, ValidAreKept DEF ValidLines

-----------------------------------------------------------------------------
(* What lines come to, line by line and in all. *)
GrossAt(lines)    == [i \in DOMAIN lines |-> Gross(lines[i])]
DiscountAt(lines) == [i \in DOMAIN lines |-> lines[i].discount]

LEMMA LinesAreCounted ==
  ASSUME NEW lines \in Seq(Line)
  PROVE  \A i \in 1..Len(lines) :
           /\ lines[i] \in Line
           /\ Gross(lines[i]) \in Nat /\ GrossAt(lines)[i] = Gross(lines[i])
           /\ lines[i].discount \in Nat /\ DiscountAt(lines)[i] = lines[i].discount
<1> SUFFICES ASSUME NEW i \in 1..Len(lines)
             PROVE  /\ lines[i] \in Line
                    /\ Gross(lines[i]) \in Nat /\ GrossAt(lines)[i] = Gross(lines[i])
                    /\ lines[i].discount \in Nat /\ DiscountAt(lines)[i] = lines[i].discount
  OBVIOUS
<1>1. i \in DOMAIN lines /\ lines[i] \in Line
  OBVIOUS
<1>2. lines[i].qty \in Nat /\ lines[i].price \in Nat /\ lines[i].discount \in Nat
  BY <1>1 DEF Line
<1>3. \A q \in Nat, p \in Nat : q * p \in Nat
  OBVIOUS
<1>4. Gross(lines[i]) \in Nat
  BY <1>2, <1>3 DEF Gross
<1> QED BY <1>1, <1>2, <1>4 DEF GrossAt, DiscountAt

LEMMA LineSums ==
  ASSUME NEW lines \in Seq(Line)
  PROVE  /\ GrossOf(lines) = SumFunctionOnSet(GrossAt(lines), 1..Len(lines))
         /\ DiscountOf(lines) = SumFunctionOnSet(DiscountAt(lines), 1..Len(lines))
         /\ GrossOf(lines) \in Nat /\ DiscountOf(lines) \in Nat
<1> DEFINE S == 1..Len(lines)
<1>1. DOMAIN GrossAt(lines) = S /\ DOMAIN DiscountAt(lines) = S /\ IsFiniteSet(S)
  BY FS_Interval DEF GrossAt, DiscountAt
<1>2. \A i \in S : GrossAt(lines)[i] \in Nat /\ DiscountAt(lines)[i] \in Nat
  BY LinesAreCounted
<1>3. GrossOf(lines) = SumFunctionOnSet(GrossAt(lines), S)
      /\ DiscountOf(lines) = SumFunctionOnSet(DiscountAt(lines), S)
  BY <1>1 DEF GrossOf, DiscountOf, GrossAt, DiscountAt, SumFunction
<1> HIDE DEF S
<1>4. ASSUME NEW f, \A i \in S : f[i] \in Nat PROVE SumFunctionOnSet(f, S) \in Nat
  <2>1. \A i \in S : f[i] \in Int
    BY <1>4
  <2>2. SumFunctionOnSet(f, S) \in Int
    BY <1>1, <2>1, SumIsInt
  <2>3. SumFunctionOnSet(f, {}) \in 0..SumFunctionOnSet(f, S)
    BY <1>1, <1>4, SumOfPart
  <2> QED BY <2>2, <2>3
<1> QED BY <1>2, <1>3, <1>4 DEF S

(***************************************************************************)
(* The API's items: each within half a cent of its line, and none below    *)
(* its discount if the service accepts the lines.                          *)
(***************************************************************************)
ItemsOf(lines) ==
  {r \in [1..Len(lines) -> Int] : \A i \in 1..Len(lines) : r[i] \in Rounded(Gross(lines[i]), 100)}

LEMMA ItemsAreSummed ==
  ASSUME NEW lines \in Seq(Line)
  PROVE  /\ \A t \in ItemsTotals(lines) : \E r \in ItemsOf(lines) : t = SumFunctionOnSet(r, 1..Len(lines))
         /\ ItemsTotals(lines) \subseteq Int
         /\ ItemsTotals(lines) # {}
<1> DEFINE sets == [i \in DOMAIN lines |-> Rounded(Gross(lines[i]), 100)]
           n == Len(lines)
<1>1. n \in Nat /\ DOMAIN sets = 1..n
  OBVIOUS
<1>2. \A i \in 1..n : sets[i] \subseteq Int /\ sets[i] # {} /\ sets[i] = Rounded(Gross(lines[i]), 100)
  <2>1. \A i \in 1..n : Gross(lines[i]) \in Int
    BY LinesAreCounted
  <2>2. \A i \in 1..n : sets[i] = Rounded(Gross(lines[i]), 100)
    BY <1>1
  <2> HIDE DEF sets, n
  <2> QED BY <2>1, <2>2, RoundedIsNear
<1>3. ItemsTotals(lines) = SumsFrom(sets)
  BY DEF ItemsTotals
<1> HIDE DEF sets, n
<1>4. /\ \A s \in SumsFrom(sets) :
            \E f \in [1..n -> Int] : (\A i \in 1..n : f[i] \in sets[i]) /\ s = SumFunctionOnSet(f, 1..n)
      /\ SumsFrom(sets) \subseteq Int
      /\ SumsFrom(sets) # {}
  BY <1>1, <1>2, SumsAreFrom
<1>5. ASSUME NEW t \in ItemsTotals(lines)
      PROVE  \E r \in ItemsOf(lines) : t = SumFunctionOnSet(r, 1..Len(lines))
  <2>1. PICK f \in [1..n -> Int] : (\A i \in 1..n : f[i] \in sets[i]) /\ t = SumFunctionOnSet(f, 1..n)
    BY <1>3, <1>4
  <2>2. f \in ItemsOf(lines)
    BY <1>2, <2>1 DEF ItemsOf, n
  <2> QED BY <2>1, <2>2 DEF n
<1> QED BY <1>3, <1>4, <1>5

LEMMA ItemsAreNear ==
  ASSUME NEW lines \in Seq(Line), NEW r \in ItemsOf(lines)
  PROVE  LET n == Len(lines)
             t == SumFunctionOnSet(r, 1..n) IN
         /\ t \in Int
         /\ GrossOf(lines) - 50 * n <= 100 * t /\ 100 * t <= GrossOf(lines) + 50 * n
         /\ Accepts(lines) => t >= DiscountOf(lines)
<1> DEFINE n == Len(lines)
           S == 1..n
           gross == GrossAt(lines)
           discount == DiscountAt(lines)
           near == <<100, -1, 0, 0, 50>>
           far == <<-100, 1, 0, 0, 50>>
           most == <<-1, 0, 1, 0, 0>>
<1>1. n \in Nat /\ IsFiniteSet(S) /\ Cardinality(S) = n
  <2>1. n \in Nat
    OBVIOUS
  <2> HIDE DEF n
  <2> QED BY <2>1, FS_Interval
<1>2. \A i \in S : gross[i] \in Int /\ discount[i] \in Int /\ r[i] \in Int
  <2>1. \A i \in S : r[i] \in Int
    BY DEF ItemsOf
  <2> QED BY <2>1, LinesAreCounted
<1>3. \A i \in S : gross[i] - 50 <= 100 * r[i] /\ 100 * r[i] <= gross[i] + 50
  <2>1. \A i \in S : r[i] \in Rounded(gross[i], 100)
    BY LinesAreCounted DEF ItemsOf
  <2> HIDE DEF gross, S
  <2> QED BY <1>2, <2>1, RoundedIsNear
<1>4. Accepts(lines) => \A i \in S : discount[i] <= r[i]
  BY LinesAreCounted DEF Accepts, AcceptsLine, ItemsOf
<1>5. GrossOf(lines) = SumFunctionOnSet(gross, S) /\ DiscountOf(lines) = SumFunctionOnSet(discount, S)
  BY LineSums
<1>6. /\ \A i \in 1..5 : near[i] \in Int /\ far[i] \in Int /\ most[i] \in Int
      /\ near[1] = 100 /\ near[2] = -1 /\ near[3] = 0 /\ near[4] = 0 /\ near[5] = 50
      /\ far[1] = -100 /\ far[2] = 1 /\ far[3] = 0 /\ far[4] = 0 /\ far[5] = 50
      /\ most[1] = -1 /\ most[2] = 0 /\ most[3] = 1 /\ most[4] = 0 /\ most[5] = 0
  OBVIOUS
<1> HIDE DEF n, S, gross, discount, near, far, most
<1>7. /\ SumFunctionOnSet(r, S) \in Int /\ SumFunctionOnSet(gross, S) \in Int
      /\ SumFunctionOnSet(discount, S) \in Int
  BY <1>1, <1>2, SumIsInt
<1>8. Weighed(near, r, gross, discount, discount, S)
  <2>1. \A i \in S : WeighedAt(near, r, gross, discount, discount, i)
    BY <1>2, <1>3 DEF WeighedAt, near
  <2> QED BY <1>1, <1>2, <1>6, <2>1, SumsAreWeighed
<1>9. Weighed(far, r, gross, discount, discount, S)
  <2>1. ASSUME NEW i \in S PROVE WeighedAt(far, r, gross, discount, discount, i)
    <3>1. r[i] \in Int /\ gross[i] \in Int /\ discount[i] \in Int /\ gross[i] - 50 <= 100 * r[i]
      BY <1>2, <1>3
    <3>2. (-100) * r[i] + 1 * gross[i] + 0 * discount[i] + 0 * discount[i] <= 50
      BY <3>1
    <3> QED BY <3>2 DEF WeighedAt, far
  <2> QED BY <1>1, <1>2, <1>6, <2>1, SumsAreWeighed
<1>10. Accepts(lines) => Weighed(most, r, gross, discount, discount, S)
  <2> SUFFICES ASSUME Accepts(lines) PROVE Weighed(most, r, gross, discount, discount, S)
    OBVIOUS
  <2>1. \A i \in S : WeighedAt(most, r, gross, discount, discount, i)
    BY <1>2, <1>4 DEF WeighedAt, most
  <2> QED BY <1>1, <1>2, <1>6, <2>1, SumsAreWeighed
<1>11. /\ GrossOf(lines) - 50 * n <= 100 * SumFunctionOnSet(r, S)
       /\ 100 * SumFunctionOnSet(r, S) <= GrossOf(lines) + 50 * n
  BY <1>1, <1>5, <1>7, <1>8, <1>9 DEF Weighed, near, far
<1>12. Accepts(lines) => SumFunctionOnSet(r, S) >= DiscountOf(lines)
  BY <1>1, <1>5, <1>7, <1>10 DEF Weighed, most
<1> QED BY <1>7, <1>11, <1>12 DEF n, S

-----------------------------------------------------------------------------
(* The totals of the API and of the screens, and the tax in them. *)
LEMMA ApiIsNear ==
  ASSUME NEW lines \in Seq(Line), NEW grand \in ApiGrandTotals(lines)
  PROVE  /\ grand \in Int
         /\ \E r \in ItemsOf(lines) :
              LET net == SumFunctionOnSet(r, 1..Len(lines)) - DiscountOf(lines) IN
              /\ net \in Int /\ grand - net \in Rounded(6 * net, 100)
              /\ 106 * net - 50 <= 100 * grand /\ 100 * grand <= 106 * net + 50
<1>1. PICK t \in ItemsTotals(lines) :
        \E sst \in Rounded(6 * (t - DiscountOf(lines)), 100) : grand = t - DiscountOf(lines) + sst
  BY DEF ApiGrandTotals
<1> DEFINE net == t - DiscountOf(lines)
<1>2. PICK r \in ItemsOf(lines) : t = SumFunctionOnSet(r, 1..Len(lines))
  BY ItemsAreSummed
<1>3. net \in Int
  <2>1. t \in Int /\ DiscountOf(lines) \in Int
    BY ItemsAreSummed, LineSums
  <2> QED BY <2>1
<1>4. PICK sst \in Rounded(6 * net, 100) : grand = net + sst
  BY <1>1
<1> HIDE DEF net
<1>5. sst \in Int /\ 6 * net - 50 <= 100 * sst /\ 100 * sst <= 6 * net + 50
  <2>1. 6 * net \in Int
    BY <1>3
  <2> QED BY <1>4, <2>1, RoundedIsNear
<1>6. /\ grand \in Int /\ grand - net = sst
      /\ 106 * net - 50 <= 100 * grand /\ 100 * grand <= 106 * net + 50
  BY <1>3, <1>4, <1>5
<1> QED BY <1>2, <1>3, <1>4, <1>6 DEF net

LEMMA ApiTotalsExist ==
  ASSUME NEW lines \in Seq(Line)
  PROVE  ApiGrandTotals(lines) # {}
<1>1. PICK t \in ItemsTotals(lines) : TRUE
  BY ItemsAreSummed
<1> DEFINE net == t - DiscountOf(lines)
<1>2. net \in Int
  <2>1. t \in Int /\ DiscountOf(lines) \in Int
    BY ItemsAreSummed, LineSums
  <2> QED BY <2>1
<1>3. PICK sst \in Rounded(6 * net, 100) : TRUE
  <2>1. 6 * net \in Int
    BY <1>2
  <2> HIDE DEF net
  <2> QED BY <2>1, RoundedIsNear
<1>4. net + sst \in ApiGrandTotals(lines)
  BY <1>1, <1>3 DEF ApiGrandTotals
<1> QED BY <1>4

LEMMA WebIsNear ==
  ASSUME NEW lines \in Seq(Line), NEW grand \in WebGrandTotals(lines)
  PROVE  LET T == TaxableOf(lines) IN
         /\ grand \in Int /\ T \in Nat
         /\ T = GrossOf(lines) - 100 * DiscountOf(lines) \/ (T = 0 /\ T > GrossOf(lines) - 100 * DiscountOf(lines))
         /\ \E sst \in Rounded(6 * T, 10000) : grand \in Rounded(T + 100 * sst, 100)
         /\ 106 * T - 10000 <= 10000 * grand /\ 10000 * grand <= 106 * T + 10000
<1> DEFINE T == TaxableOf(lines)
<1>1. /\ T \in Nat
      /\ T = GrossOf(lines) - 100 * DiscountOf(lines) \/ (T = 0 /\ T > GrossOf(lines) - 100 * DiscountOf(lines))
  <2> DEFINE net == GrossOf(lines) - 100 * DiscountOf(lines)
  <2>1. net \in Int
    BY LineSums
  <2>2. T = IF net < 0 THEN 0 ELSE net
    BY DEF TaxableOf
  <2> HIDE DEF net, T
  <2>3. T \in Nat /\ (T = net \/ (T = 0 /\ T > net))
    BY <2>1, <2>2
  <2> QED BY <2>3 DEF net
<1>2. PICK sst \in Rounded(6 * T, 10000) : grand \in Rounded(T + 100 * sst, 100)
  BY DEF WebGrandTotals
<1> HIDE DEF T
<1>3. sst \in Int /\ 6 * T - 5000 <= 10000 * sst /\ 10000 * sst <= 6 * T + 5000
  <2> DEFINE num == 6 * T
  <2>1. num \in Int /\ sst \in Rounded(num, 10000)
    BY <1>1, <1>2
  <2> HIDE DEF num
  <2>2. sst \in Int /\ num - 5000 <= 10000 * sst /\ 10000 * sst <= num + 5000
    BY <2>1, TaxIsNear
  <2> QED BY <2>2 DEF num
<1>4. grand \in Int /\ T + 100 * sst - 50 <= 100 * grand /\ 100 * grand <= T + 100 * sst + 50
  <2> DEFINE num == T + 100 * sst
  <2>1. num \in Int /\ grand \in Rounded(num, 100)
    BY <1>1, <1>2, <1>3
  <2> HIDE DEF num
  <2>2. grand \in Int /\ num - 50 <= 100 * grand /\ 100 * grand <= num + 50
    BY <2>1, RoundedIsNear
  <2> QED BY <1>1, <1>3, <2>2 DEF num
<1>5. 106 * T - 10000 <= 10000 * grand /\ 10000 * grand <= 106 * T + 10000
  BY <1>1, <1>3, <1>4
<1> QED BY <1>1, <1>2, <1>4, <1>5 DEF T

-----------------------------------------------------------------------------
(***************************************************************************)
(* The first half of FormNearApi, for any lines: up to a cent a line and   *)
(* one for the tax.                                                        *)
(***************************************************************************)
LEMMA TotalsAreNear ==
  ASSUME NEW lines \in Seq(Line), Accepts(lines),
         NEW web \in WebGrandTotals(lines), NEW grand \in ApiGrandTotals(lines)
  PROVE  Near(web, grand, 1 + Len(lines))
<1> DEFINE n == Len(lines)
           T == TaxableOf(lines)
           G == GrossOf(lines)
           D == DiscountOf(lines)
<1>1. PICK r \in ItemsOf(lines) :
        LET net == SumFunctionOnSet(r, 1..n) - D IN
        net \in Int /\ 106 * net - 50 <= 100 * grand /\ 100 * grand <= 106 * net + 50
  BY ApiIsNear
<1> DEFINE t == SumFunctionOnSet(r, 1..n)
<1>2. /\ grand \in Int /\ web \in Int /\ n \in Nat /\ T \in Nat /\ G \in Nat /\ D \in Nat
      /\ T = G - 100 * D \/ (T = 0 /\ T > G - 100 * D)
      /\ 106 * T - 10000 <= 10000 * web /\ 10000 * web <= 106 * T + 10000
  BY ApiIsNear, WebIsNear, LineSums
<1>3. t \in Int /\ G - 50 * n <= 100 * t /\ 100 * t <= G + 50 * n /\ t >= D
  BY ItemsAreNear
<1>4. 106 * (t - D) - 50 <= 100 * grand /\ 100 * grand <= 106 * (t - D) + 50
  BY <1>1
<1> HIDE DEF n, T, G, D, t
<1>5. T - 50 * n <= 100 * (t - D) /\ 100 * (t - D) <= T + 50 * n
  BY <1>2, <1>3
<1>6. 10000 * (web - grand) < 10000 * (n + 2) /\ 10000 * (grand - web) < 10000 * (n + 2)
  BY <1>2, <1>3, <1>4, <1>5
<1>7. web - grand \in -(1 + n)..(1 + n)
  BY <1>2, <1>6
<1> QED BY <1>7 DEF Near, n

(* The other: to the cent, if the quantities are whole. *)
LEMMA WholeLinesAreExact ==
  ASSUME NEW lines \in Seq(Line), \A i \in DOMAIN lines : lines[i].qty % 100 = 0
  PROVE  \A t \in ItemsTotals(lines) : 100 * t = GrossOf(lines)
<1> DEFINE S == 1..Len(lines)
           gross == GrossAt(lines)
           exact == <<100, -1, 0, 0, 0>>
           other == <<-100, 1, 0, 0, 0>>
<1>1. IsFiniteSet(S) /\ Cardinality(S) \in Nat
  BY FS_Interval, FS_CardinalityType
<1>2. \A i \in S : \E c \in Nat : Gross(lines[i]) = 100 * c
  <2> SUFFICES ASSUME NEW i \in S PROVE \E c \in Nat : Gross(lines[i]) = 100 * c
    OBVIOUS
  <2> DEFINE q == lines[i].qty
             p == lines[i].price
  <2>1. q \in Nat /\ p \in Nat /\ q % 100 = 0 /\ Gross(lines[i]) = q * p
    BY LinesAreCounted DEF Line, Gross
  <2> HIDE DEF q, p
  <2>2. q = 100 * (q \div 100) /\ q \div 100 \in Nat
    BY <2>1
  <2> DEFINE d == q \div 100
  <2>3. d \in Nat /\ q = 100 * d
    BY <2>2
  <2> HIDE DEF d
  <2>4. q * p = 100 * (d * p) /\ d * p \in Nat
    BY <2>1, <2>3
  <2> QED BY <2>1, <2>4
<1>3. ASSUME NEW t \in ItemsTotals(lines) PROVE 100 * t = GrossOf(lines)
  <2>1. PICK r \in ItemsOf(lines) : t = SumFunctionOnSet(r, S)
    BY ItemsAreSummed
  <2>2. \A i \in S : r[i] \in Int /\ gross[i] \in Int /\ gross[i] = 100 * r[i]
    <3> SUFFICES ASSUME NEW i \in S PROVE r[i] \in Int /\ gross[i] \in Int /\ gross[i] = 100 * r[i]
      OBVIOUS
    <3>1. PICK c \in Nat : Gross(lines[i]) = 100 * c
      BY <1>2
    <3>2. Rounded(Gross(lines[i]), 100) = {c}
      <4>1. c \in Int
        OBVIOUS
      <4>2. Rounded(100 * c, 100) = {c}
        BY <4>1, WholeIsExact
      <4> QED BY <3>1, <4>2
    <3>3. r[i] = c
      BY <3>2 DEF ItemsOf
    <3> QED BY <3>1, <3>3, LinesAreCounted
  <2>3. GrossOf(lines) = SumFunctionOnSet(gross, S)
    BY LineSums
  <2>4. \A i \in 1..5 : exact[i] \in Int /\ other[i] \in Int
    OBVIOUS
  <2> HIDE DEF S, gross, exact, other
  <2>5. SumFunctionOnSet(r, S) \in Int /\ SumFunctionOnSet(gross, S) \in Int
    BY <1>1, <2>2, SumIsInt
  <2>6. Weighed(exact, r, gross, gross, gross, S)
    <3>1. \A i \in S : WeighedAt(exact, r, gross, gross, gross, i)
      BY <2>2 DEF WeighedAt, exact
    <3> QED BY <1>1, <2>2, <2>4, <3>1, SumsAreWeighed
  <2>7. Weighed(other, r, gross, gross, gross, S)
    <3>1. ASSUME NEW i \in S PROVE WeighedAt(other, r, gross, gross, gross, i)
      <4>1. r[i] \in Int /\ gross[i] \in Int /\ gross[i] = 100 * r[i]
        BY <2>2
      <4>2. (-100) * r[i] + 1 * gross[i] + 0 * gross[i] + 0 * gross[i] <= 0
        BY <4>1
      <4> QED BY <4>2 DEF WeighedAt, other
    <3> QED BY <1>1, <2>2, <2>4, <3>1, SumsAreWeighed
  <2>8. 100 * SumFunctionOnSet(r, S) <= SumFunctionOnSet(gross, S)
    BY <1>1, <2>5, <2>6 DEF Weighed, exact
  <2>9. SumFunctionOnSet(gross, S) <= 100 * SumFunctionOnSet(r, S)
    BY <1>1, <2>5, <2>7 DEF Weighed, other
  <2> QED BY <2>1, <2>3, <2>5, <2>8, <2>9
<1> QED BY <1>3

-----------------------------------------------------------------------------
(***************************************************************************)
(* A line in whole quantities is whole cents, and then only the tax may be *)
(* rounded either way; so is the one line of a sale's draft.               *)
(***************************************************************************)
LEMMA RoundedIsOneOrTwo ==
  ASSUME NEW num \in Int
  PROVE  \E up \in Int :
           \/ Rounded(num, 100) = {up} /\ Cardinality(Rounded(num, 100)) = 1
           \/ Rounded(num, 100) = {up - 1, up} /\ Cardinality(Rounded(num, 100)) = 2
<1> DEFINE up == (2 * num + 100) \div 200
<1>1. up \in Int
  OBVIOUS
<1> HIDE DEF up
<1>2. Rounded(num, 100) = {up} \/ Rounded(num, 100) = {up - 1, up}
  BY DEF Rounded, up
<1>3. Cardinality({up}) = 1
  BY FS_Singleton
<1>4. Cardinality({up - 1, up}) = 2
  <2>1. {up - 1, up} = {up - 1} \cup {up} /\ up \notin {up - 1}
    BY <1>1
  <2>2. Cardinality({up - 1} \cup {up}) = Cardinality({up - 1}) + 1
    BY <2>1, FS_Singleton, FS_AddElement
  <2> QED BY <2>1, <2>2, FS_Singleton
<1> QED BY <1>1, <1>2, <1>3, <1>4

LEMMA WholeTotalsAreNear ==
  ASSUME NEW lines \in Seq(Line), Accepts(lines), \A i \in DOMAIN lines : lines[i].qty % 100 = 0,
         NEW web \in WebGrandTotals(lines), NEW grand \in ApiGrandTotals(lines)
  PROVE  Near(web, grand, Cardinality(ApiGrandTotals(lines)) - 1)
<1>1. PICK t \in ItemsTotals(lines) : TRUE
  BY ItemsAreSummed
<1> DEFINE D == DiscountOf(lines)
           net == t - D
           num == 6 * net
           T == TaxableOf(lines)
<1>2. t \in Int /\ D \in Nat /\ 100 * t = GrossOf(lines) /\ t >= D
  <2>1. PICK r \in ItemsOf(lines) : t = SumFunctionOnSet(r, 1..Len(lines))
    BY ItemsAreSummed
  <2>2. t >= D
    BY <2>1, ItemsAreNear
  <2> QED BY <2>2, ItemsAreSummed, LineSums, WholeLinesAreExact
<1>3. \A u \in ItemsTotals(lines) : u = t
  <2>1. \A u \in ItemsTotals(lines) : u \in Int /\ 100 * u = GrossOf(lines)
    BY ItemsAreSummed, WholeLinesAreExact
  <2> QED BY <1>2, <2>1
<1>4. net \in Nat /\ num \in Int /\ T = 100 * net
  <2> HIDE DEF D, T
  <2>1. T \in Nat /\ (T = GrossOf(lines) - 100 * D \/ (T = 0 /\ T > GrossOf(lines) - 100 * D))
    BY WebIsNear DEF T, D
  <2> QED BY <1>2, <2>1
<1>5. ApiGrandTotals(lines) = {net + sst : sst \in Rounded(num, 100)}
  <2>1. {u - D : u \in ItemsTotals(lines)} = {net}
    BY <1>1, <1>3
  <2>2. ApiGrandTotals(lines) =
          UNION {{x + sst : sst \in Rounded(6 * x, 100)} : x \in {u - D : u \in ItemsTotals(lines)}}
    BY DEF ApiGrandTotals
  <2> HIDE DEF D, net
  <2>3. UNION {{x + sst : sst \in Rounded(6 * x, 100)} : x \in {net}} = {net + sst : sst \in Rounded(num, 100)}
    OBVIOUS
  <2> QED BY <2>1, <2>2, <2>3
<1>6. web \in {net + sst : sst \in Rounded(num, 100)}
  <2>1. PICK sst \in Rounded(6 * T, 10000) : web \in Rounded(T + 100 * sst, 100)
    BY WebIsNear
  <2>2. 6 * T = 100 * num
    BY <1>4
  <2>3. sst \in Rounded(num, 100) /\ sst \in Int
    <3>1. Rounded(100 * num, 10000) = Rounded(num, 100)
      <4> HIDE DEF num
      <4> QED BY <1>4, SameTax
    <3>2. Rounded(num, 100) \subseteq Int
      <4> HIDE DEF num
      <4> QED BY <1>4, RoundedIsNear
    <3> QED BY <2>1, <2>2, <3>1, <3>2
  <2> DEFINE sum == net + sst
  <2>4. sum \in Int /\ T + 100 * sst = 100 * sum
    <3> HIDE DEF net, T
    <3> QED BY <1>4, <2>3
  <2>5. Rounded(100 * sum, 100) = {sum}
    <3> HIDE DEF sum
    <3> QED BY <2>4, WholeIsExact
  <2>6. web = sum
    <3> HIDE DEF sum, T
    <3> QED BY <2>1, <2>4, <2>5
  <2> QED BY <2>3, <2>6
<1> HIDE DEF D, net, num, T
<1>7. PICK up \in Int : \/ Rounded(num, 100) = {up} /\ Cardinality(Rounded(num, 100)) = 1
                        \/ Rounded(num, 100) = {up - 1, up} /\ Cardinality(Rounded(num, 100)) = 2
  BY <1>4, RoundedIsOneOrTwo
<1>8. CASE Rounded(num, 100) = {up}
  <2>1. ApiGrandTotals(lines) = {net + up}
    BY <1>5, <1>8
  <2>2. Cardinality(ApiGrandTotals(lines)) = 1
    BY <2>1, FS_Singleton
  <2>3. web = net + up /\ grand = net + up
    BY <1>6, <1>8, <2>1
  <2>4. web - grand \in -(1 - 1)..(1 - 1)
    BY <1>4, <2>3
  <2> QED BY <2>2, <2>4 DEF Near
<1>9. CASE Rounded(num, 100) = {up - 1, up}
  <2>1. ApiGrandTotals(lines) = {net + up - 1} \cup {net + up}
    BY <1>4, <1>5, <1>9
  <2>2. Cardinality({net + up - 1} \cup {net + up}) = Cardinality({net + up - 1}) + 1
    <3>1. net + up \notin {net + up - 1}
      BY <1>4
    <3> QED BY <3>1, FS_Singleton, FS_AddElement
  <2>3. Cardinality(ApiGrandTotals(lines)) = 2
    <3>1. Cardinality({net + up - 1}) = 1
      BY FS_Singleton
    <3> QED BY <2>1, <2>2, <3>1
  <2>4. web \in {net + up - 1, net + up} /\ grand \in {net + up - 1, net + up}
    BY <1>4, <1>6, <1>9, <2>1
  <2>5. web - grand \in -(2 - 1)..(2 - 1)
    BY <1>4, <2>4
  <2> QED BY <2>3, <2>5 DEF Near
<1> QED BY <1>7, <1>8, <1>9

-----------------------------------------------------------------------------
(* One line: the sums over it are what is in it. *)
LEMMA OneLine ==
  ASSUME NEW line \in Line
  PROVE  /\ <<line>> \in Seq(Line) /\ Len(<<line>>) = 1
         /\ DiscountOf(<<line>>) = line.discount
         /\ ItemsTotals(<<line>>) = Rounded(Gross(line), 100)
<1>1. <<line>> \in Seq(Line) /\ Len(<<line>>) = 1 /\ <<line>>[1] = line /\ 1..1 = {1} /\ DOMAIN <<line>> = {1}
  OBVIOUS
<1>2. Gross(line) \in Int /\ line.discount \in Int
  <2>1. \A i \in 1..1 : Gross(<<line>>[i]) \in Nat /\ <<line>>[i].discount \in Nat
    BY <1>1, LinesAreCounted
  <2> QED BY <1>1, <2>1
<1>3. DiscountOf(<<line>>) = line.discount
  <2>1. DiscountOf(<<line>>) = SumFunctionOnSet(DiscountAt(<<line>>), {1})
    BY <1>1, LineSums
  <2>2. DiscountAt(<<line>>)[1] = line.discount
    BY <1>1 DEF DiscountAt
  <2> QED BY <1>2, <2>1, <2>2, SumOfOne
<1>4. Rounded(Gross(line), 100) \subseteq Int
  BY <1>2, RoundedIsNear
<1>5. ItemsTotals(<<line>>) \subseteq Rounded(Gross(line), 100)
  <2> SUFFICES ASSUME NEW t \in ItemsTotals(<<line>>) PROVE t \in Rounded(Gross(line), 100)
    OBVIOUS
  <2>1. PICK r \in ItemsOf(<<line>>) : t = SumFunctionOnSet(r, 1..1)
    BY <1>1, ItemsAreSummed
  <2>2. r[1] \in Rounded(Gross(line), 100)
    BY <1>1 DEF ItemsOf
  <2>3. SumFunctionOnSet(r, {1}) = r[1]
    BY <1>4, <2>2, SumOfOne
  <2> QED BY <1>1, <2>1, <2>2, <2>3
<1>6. Rounded(Gross(line), 100) \subseteq ItemsTotals(<<line>>)
  <2> SUFFICES ASSUME NEW x \in Rounded(Gross(line), 100) PROVE x \in ItemsTotals(<<line>>)
    OBVIOUS
  <2> DEFINE sets == [i \in DOMAIN <<line>> |-> Rounded(Gross(<<line>>[i]), 100)]
             f == [i \in {1} |-> x]
  <2>1. DOMAIN sets = {1} /\ sets[1] = Rounded(Gross(line), 100)
    BY <1>1
  <2>2. Rounded(Gross(line), 100) \in Range(sets)
    <3> HIDE DEF sets
    <3> QED BY <2>1 DEF Range
  <2>3. f \in [{1} -> UNION Range(sets)] /\ f[1] = x
    <3> HIDE DEF sets
    <3> QED BY <2>2
  <2>4. SumFunction(f) = x
    <3>1. SumFunction(f) = SumFunctionOnSet(f, {1})
      BY DEF SumFunction
    <3>2. f[1] = x /\ x \in Int
      BY <1>4
    <3> HIDE DEF f
    <3>3. SumFunctionOnSet(f, {1}) = f[1]
      BY <3>2, SumOfOne
    <3> QED BY <3>1, <3>2, <3>3
  <2>5. SumFunction(f) \in SumsFrom(sets)
    <3> HIDE DEF sets, f
    <3> QED BY <2>1, <2>3 DEF SumsFrom
  <2> QED BY <2>4, <2>5 DEF ItemsTotals
<1> QED BY <1>1, <1>3, <1>5, <1>6

(* The other half of FormNearApi. *)
LEMMA SaleIsExact ==
  ASSUME NEW order, order.net \in Nat
  PROVE  order.net + Sst(order.net) \in ApiGrandTotals(<<DraftItem(order)>>)
<1> DEFINE line == DraftItem(order)
           net == order.net
<1>1. line \in Line /\ Gross(line) = 100 * net /\ line.discount = 0
  BY DEF DraftItem, Line, Gross
<1> HIDE DEF line
<1>2. ItemsTotals(<<line>>) = {net} /\ DiscountOf(<<line>>) = 0
  <2> HIDE DEF net
  <2>1. net \in Int
    BY DEF net
  <2> QED BY <1>1, <2>1, OneLine, WholeIsExact
<1>3. Sst(net) \in Rounded(6 * net, 100)
  <2>1. 2 * (6 * net) + 100 = 12 * net + 100 /\ 2 * 100 = 200
    OBVIOUS
  <2> HIDE DEF net
  <2> QED BY <2>1 DEF Sst, Rounded
<1>4. net - 0 = net
  OBVIOUS
<1> HIDE DEF net
<1>5. net + Sst(net) \in ApiGrandTotals(<<line>>)
  BY <1>2, <1>3, <1>4 DEF ApiGrandTotals
<1> QED BY <1>5 DEF line, net

-----------------------------------------------------------------------------
(* An item of a credit note that names a line is that line, or part of it. *)
PartOf(line, qty) ==
  [described |-> line.described, qty |-> qty, price |-> line.price, discount |-> line.discount]

LEMMA ItemIsItsLine ==
  ASSUME NEW lines \in Seq(ValidLine), NEW i \in 1..Len(lines), NEW qty \in Nat
  PROVE  /\ lines[i] \in ValidLine /\ lines[i] \in Line
         /\ ResolvedItem(lines, Item(i, NotGiven)) = lines[i]
         /\ ResolvedItem(lines, Item(i, qty)) = PartOf(lines[i], qty)
         /\ PartOf(lines[i], qty) \in Line
<1> DEFINE line == lines[i]
<1>1. line \in ValidLine /\ line \in Line /\ i # 0 /\ i \in DOMAIN lines
  BY DEF ValidLine
<1>2. /\ line = [described |-> TRUE, qty |-> line.qty, price |-> line.price, discount |-> line.discount]
      /\ line.described = TRUE /\ line.qty \in Nat /\ line.price \in Nat /\ line.discount \in Nat
  <2> HIDE DEF line
  <2> QED BY <1>1 DEF ValidLine, Line
<1>3. PartOf(line, qty) = [described |-> TRUE, qty |-> qty, price |-> line.price, discount |-> line.discount]
  <2> HIDE DEF line
  <2> QED BY <1>2 DEF PartOf
<1>4. ResolvedItem(lines, Item(i, NotGiven))
        = [described |-> FALSE \/ line.described, qty |-> Given(NotGiven, line.qty),
           price |-> Given(NotGiven, line.price), discount |-> Given(NotGiven, line.discount)]
  BY <1>1 DEF ResolvedItem, Item
<1>5. ResolvedItem(lines, Item(i, qty))
        = [described |-> FALSE \/ line.described, qty |-> Given(qty, line.qty),
           price |-> Given(NotGiven, line.price), discount |-> Given(NotGiven, line.discount)]
  BY <1>1 DEF ResolvedItem, Item
<1>6. /\ Given(NotGiven, line.qty) = line.qty /\ Given(qty, line.qty) = qty
      /\ Given(NotGiven, line.price) = line.price /\ Given(NotGiven, line.discount) = line.discount
  BY DEF Given, NotGiven
<1>7. ResolvedItem(lines, Item(i, NotGiven)) = line
  <2> HIDE DEF line
  <2> QED BY <1>2, <1>4, <1>6
<1>8. ResolvedItem(lines, Item(i, qty)) = PartOf(line, qty)
  <2> HIDE DEF line
  <2> QED BY <1>2, <1>3, <1>5, <1>6
<1>9. PartOf(line, qty) \in Line
  BY <1>2, <1>3 DEF Line
<1> QED BY <1>1, <1>7, <1>8, <1>9

LEMMA NoteForALine ==
  ASSUME NEW lines \in Seq(ValidLine), Accepts(lines), NEW i \in 1..Len(lines)
  PROVE  CreditGrandTotals(lines, <<Item(i, NotGiven)>>) = ApiGrandTotals(<<lines[i]>>)
<1> DEFINE items == <<Item(i, NotGiven)>>
           resolved == [j \in DOMAIN items |-> ResolvedItem(lines, items[j])]
           line == lines[i]
<1>1. line \in ValidLine /\ line \in Line /\ ResolvedItem(lines, Item(i, NotGiven)) = line
  BY ItemIsItsLine
<1>2. DOMAIN items = {1} /\ items[1] = Item(i, NotGiven) /\ items # <<>>
  OBVIOUS
<1>3. resolved = <<line>>
  <2>1. DOMAIN resolved = 1..1 /\ resolved[1] = line
    <3> HIDE DEF items, line
    <3> QED BY <1>1, <1>2
  <2>2. <<line>> \in [1..1 -> {line}] /\ <<line>>[1] = line
    OBVIOUS
  <2>3. resolved = [j \in 1..1 |-> line]
    <3> HIDE DEF items, line
    <3> QED BY <1>1, <1>2
  <2>4. <<line>> = [j \in 1..1 |-> line]
    OBVIOUS
  <2> QED BY <2>3, <2>4
<1>4. Resolves(lines, items)
  <2>1. items[1].line \in {0} \cup DOMAIN lines
    BY <1>2 DEF Item
  <2>2. line.described /\ line.qty # NotGiven /\ line.price # NotGiven /\ line.discount >= 0
    <3> HIDE DEF line
    <3> QED BY <1>1 DEF ValidLine, Line, NotGiven
  <2> HIDE DEF items, line
  <2> QED BY <1>1, <1>2, <2>1, <2>2 DEF Resolves
<1>5. Accepts(<<line>>)
  <2>1. AcceptsLine(line)
    BY DEF Accepts
  <2> HIDE DEF line
  <2> QED BY <2>1 DEF Accepts
<1> HIDE DEF line
<1>6. CreditGrandTotals(lines, items) = ApiGrandTotals(<<line>>)
  BY <1>3, <1>4, <1>5 DEF CreditGrandTotals
<1> QED BY <1>6 DEF line

(* The lines that two notes over half of every quantity are made of. *)
HalvesOf(lines) == [i \in 1..Len(lines) |-> PartOf(lines[i], lines[i].qty \div 2)]

LEMMA NoteForHalves ==
  ASSUME NEW lines \in Seq(ValidLine), NEW half \in CreditGrandTotals(lines, Halves(lines))
  PROVE  /\ HalvesOf(lines) \in Seq(Line) /\ Len(HalvesOf(lines)) = Len(lines)
         /\ half \in ApiGrandTotals(HalvesOf(lines))
         /\ \A i \in 1..Len(lines) : /\ HalvesOf(lines)[i].discount = lines[i].discount
                                     /\ 2 * Gross(HalvesOf(lines)[i]) <= Gross(lines[i])
<1> DEFINE n == Len(lines)
           items == Halves(lines)
           resolved == [i \in DOMAIN items |-> ResolvedItem(lines, items[i])]
<1>1. \A i \in 1..n : lines[i].qty \in Nat /\ lines[i].qty \div 2 \in Nat
  <2>1. \A i \in 1..n : lines[i] \in Line
    BY ItemIsItsLine
  <2>2. \A i \in 1..n : lines[i].qty \in Nat
    BY <2>1 DEF Line
  <2>3. \A q \in Nat : q \div 2 \in Nat
    OBVIOUS
  <2> QED BY <2>2, <2>3
<1>2. n \in Nat /\ DOMAIN items = 1..n /\ \A i \in 1..n : items[i] = Item(i, lines[i].qty \div 2)
  BY DEF Halves
<1>3. \A i \in 1..n : /\ ResolvedItem(lines, items[i]) = PartOf(lines[i], lines[i].qty \div 2)
                      /\ PartOf(lines[i], lines[i].qty \div 2) \in Line /\ lines[i] \in Line
  <2> SUFFICES ASSUME NEW i \in 1..n
               PROVE  /\ ResolvedItem(lines, items[i]) = PartOf(lines[i], lines[i].qty \div 2)
                      /\ PartOf(lines[i], lines[i].qty \div 2) \in Line /\ lines[i] \in Line
    OBVIOUS
  <2> DEFINE q == lines[i].qty \div 2
  <2>1. q \in Nat /\ items[i] = Item(i, q)
    BY <1>1, <1>2
  <2> HIDE DEF q, items
  <2>2. ResolvedItem(lines, Item(i, q)) = PartOf(lines[i], q) /\ PartOf(lines[i], q) \in Line /\ lines[i] \in Line
    BY <2>1, ItemIsItsLine
  <2> QED BY <2>1, <2>2 DEF q
<1>4. resolved = HalvesOf(lines)
  <2> HIDE DEF items
  <2> QED BY <1>2, <1>3 DEF HalvesOf
<1>5. HalvesOf(lines) \in Seq(Line) /\ Len(HalvesOf(lines)) = n
  <2>1. HalvesOf(lines) \in [1..n -> Line]
    BY <1>3 DEF HalvesOf
  <2> HIDE DEF n
  <2> QED BY <1>2, <2>1
<1>6. half \in ApiGrandTotals(HalvesOf(lines))
  <2> HIDE DEF items
  <2> QED BY <1>4 DEF CreditGrandTotals, items
<1>7. ASSUME NEW i \in 1..n
      PROVE  /\ HalvesOf(lines)[i].discount = lines[i].discount
             /\ 2 * Gross(HalvesOf(lines)[i]) <= Gross(lines[i])
  <2> DEFINE q == lines[i].qty
             p == lines[i].price
             h == q \div 2
  <2>1. lines[i] \in Line /\ HalvesOf(lines)[i] = PartOf(lines[i], h)
    BY <1>3 DEF HalvesOf
  <2>2. q \in Nat /\ p \in Nat
    BY <2>1 DEF Line
  <2>3. PartOf(lines[i], h).discount = lines[i].discount /\ PartOf(lines[i], h).qty = h
        /\ PartOf(lines[i], h).price = p
    BY DEF PartOf
  <2>4. Gross(lines[i]) = q * p /\ Gross(HalvesOf(lines)[i]) = h * p
    BY <2>1, <2>3 DEF Gross
  <2>5. 2 * h <= q /\ h \in Nat
    <3> HIDE DEF q
    <3> QED BY <2>2
  <2> HIDE DEF q, p, h
  <2>6. 2 * (h * p) <= q * p
    <3>1. (2 * h) * p <= q * p
      <4>1. q * p - (2 * h) * p = (q - 2 * h) * p
        BY <2>2, <2>5
      <4>2. q - 2 * h \in Nat
        BY <2>2, <2>5
      <4> DEFINE d == q - 2 * h
      <4>3. d \in Nat /\ d * p \in Nat
        <5>1. d \in Nat
          BY <4>2
        <5> HIDE DEF d
        <5> QED BY <2>2, <5>1
      <4> QED BY <2>2, <2>5, <4>1, <4>3
    <3>2. (2 * h) * p = 2 * (h * p)
      BY <2>2, <2>5
    <3> QED BY <3>1, <3>2
  <2> QED BY <2>1, <2>3, <2>4, <2>6
<1> QED BY <1>5, <1>6, <1>7

-----------------------------------------------------------------------------
(***************************************************************************)
(* A note for one line is within half a cent of what the line is in the    *)
(* invoice with its tax; a cent and its tax more if it comes to half a     *)
(* cent, as it may be rounded otherwise there.                             *)
(***************************************************************************)
IsHalfCent(lines) ==
  [i \in 1..Len(lines) |-> IF Cardinality(Rounded(Gross(lines[i]), 100)) = 2 THEN 1 ELSE 0]

LEMMA HalfCentsAreCounted ==
  ASSUME NEW lines \in Seq(Line)
  PROVE  /\ \A i \in 1..Len(lines) : IsHalfCent(lines)[i] \in {0, 1}
         /\ SumFunctionOnSet(IsHalfCent(lines), 1..Len(lines)) = HalfCents(lines)
         /\ HalfCents(lines) \in Nat
<1> DEFINE S == 1..Len(lines)
           is == IsHalfCent(lines)
<1>1. IsFiniteSet(S) /\ \A i \in S : is[i] \in {0, 1}
  BY FS_Interval DEF IsHalfCent
<1>2. {i \in S : is[i] = 1} = {i \in DOMAIN lines : Cardinality(Rounded(Gross(lines[i]), 100)) = 2}
  BY DEF IsHalfCent
<1>3. SumFunctionOnSet(is, S) = Cardinality({i \in S : is[i] = 1})
  <2> HIDE DEF is, S
  <2> QED BY <1>1, SumCounts
<1>4. Cardinality({i \in S : is[i] = 1}) \in Nat
  <2> HIDE DEF is, S
  <2>1. IsFiniteSet({i \in S : is[i] = 1})
    BY <1>1, FS_Subset
  <2> QED BY <2>1, FS_CardinalityType
<1> QED BY <1>1, <1>2, <1>3, <1>4 DEF HalfCents

LEMMA NoteIsNear ==
  ASSUME NEW lines \in Seq(Line), NEW r \in ItemsOf(lines), NEW i \in 1..Len(lines),
         NEW note \in ApiGrandTotals(<<lines[i]>>)
  PROVE  /\ note \in Int /\ r[i] \in Int
         /\ 100 * note <= 106 * r[i] - 106 * lines[i].discount + 106 * IsHalfCent(lines)[i] + 50
         /\ 100 * note >= 106 * r[i] - 106 * lines[i].discount - 106 * IsHalfCent(lines)[i] - 50
<1> DEFINE line == lines[i]
           gross == Gross(line)
           d == line.discount
           h == IsHalfCent(lines)[i]
<1>1. line \in Line /\ gross \in Int /\ d \in Int
  BY LinesAreCounted
<1>2. r[i] \in Int /\ r[i] \in Rounded(gross, 100)
  BY DEF ItemsOf
<1>3. h = IF Cardinality(Rounded(gross, 100)) = 2 THEN 1 ELSE 0
  BY DEF IsHalfCent
<1> HIDE DEF line, gross, d, h
<1>4. <<line>> \in Seq(Line) /\ Len(<<line>>) = 1 /\ DiscountOf(<<line>>) = d
  BY <1>1, OneLine DEF d
<1>5. note \in ApiGrandTotals(<<line>>)
  BY DEF line
<1>6. PICK one \in ItemsOf(<<line>>) :
        LET net == SumFunctionOnSet(one, 1..Len(<<line>>)) - DiscountOf(<<line>>) IN
        net \in Int /\ 106 * net - 50 <= 100 * note /\ 100 * note <= 106 * net + 50
  BY <1>4, <1>5, ApiIsNear
<1>7. note \in Int
  BY <1>4, <1>5, ApiIsNear
<1>8. one[1] \in Int /\ one[1] \in Rounded(gross, 100)
  <2>1. \A j \in 1..1 : one[j] \in Int /\ one[j] \in Rounded(Gross(<<line>>[j]), 100)
    BY <1>4, <1>6 DEF ItemsOf
  <2>2. 1 \in 1..1 /\ <<line>>[1] = line
    OBVIOUS
  <2> QED BY <2>1, <2>2 DEF gross
<1>9. SumFunctionOnSet(one, 1..Len(<<line>>)) = one[1]
  <2>1. 1..Len(<<line>>) = {1}
    BY <1>4
  <2> QED BY <1>8, <2>1, SumOfOne
<1>10. 106 * (one[1] - d) - 50 <= 100 * note /\ 100 * note <= 106 * (one[1] - d) + 50
  BY <1>4, <1>6, <1>9
<1>11. h \in {0, 1} /\ r[i] - one[1] <= h /\ one[1] - r[i] <= h
  <2>1. PICK up \in Int : \/ Rounded(gross, 100) = {up} /\ Cardinality(Rounded(gross, 100)) = 1
                          \/ Rounded(gross, 100) = {up - 1, up} /\ Cardinality(Rounded(gross, 100)) = 2
    BY <1>1, RoundedIsOneOrTwo
  <2>2. CASE Rounded(gross, 100) = {up} /\ Cardinality(Rounded(gross, 100)) = 1
    <3>1. h = 0 /\ r[i] = up /\ one[1] = up
      BY <1>2, <1>3, <1>8, <2>2
    <3> QED BY <3>1
  <2>3. CASE Rounded(gross, 100) = {up - 1, up} /\ Cardinality(Rounded(gross, 100)) = 2
    <3>1. h = 1 /\ r[i] \in {up - 1, up} /\ one[1] \in {up - 1, up}
      BY <1>2, <1>3, <1>8, <2>3
    <3> QED BY <3>1
  <2> QED BY <2>1, <2>2, <2>3
<1> DEFINE x == r[i]
           y == one[1]
<1>12. x \in Int /\ y \in Int /\ h \in Int /\ d \in Int /\ note \in Int /\ x - y <= h /\ y - x <= h
       /\ 106 * (y - d) - 50 <= 100 * note /\ 100 * note <= 106 * (y - d) + 50
  BY <1>1, <1>2, <1>7, <1>8, <1>10, <1>11
<1> HIDE DEF x, y
<1>13. 100 * note <= 106 * x - 106 * d + 106 * h + 50 /\ 100 * note >= 106 * x - 106 * d - 106 * h - 50
  BY <1>12
<1> QED BY <1>2, <1>7, <1>13 DEF x, d, h, line

(* The sum of a note for each line. *)
LEMMA NotesAreNear ==
  ASSUME NEW lines \in Seq(ValidLine), Accepts(lines), NEW grand \in ApiGrandTotals(lines)
  PROVE  /\ ByLine(lines) # {}
         /\ \A sum \in ByLine(lines) : Near(100 * sum, 100 * grand, 50 * (Len(lines) + 1) + 106 * HalfCents(lines))
<1> DEFINE n == Len(lines)
           S == 1..n
           sets == [i \in DOMAIN lines |-> CreditGrandTotals(lines, <<Item(i, NotGiven)>>)]
           d == DiscountAt(lines)
           h == IsHalfCent(lines)
<1>1. n \in Nat /\ DOMAIN sets = S /\ lines \in Seq(Line)
  BY DEF ValidLine
<1>2. \A i \in S : sets[i] = ApiGrandTotals(<<lines[i]>>)
  BY NoteForALine
<1>3. \A i \in S : sets[i] \subseteq Int /\ sets[i] # {}
  <2> SUFFICES ASSUME NEW i \in S PROVE sets[i] \subseteq Int /\ sets[i] # {}
    OBVIOUS
  <2>1. lines[i] \in Line
    BY <1>1, LinesAreCounted
  <2>2. <<lines[i]>> \in Seq(Line)
    BY <2>1
  <2> HIDE DEF sets, S
  <2> QED BY <1>2, <2>2, ApiIsNear, ApiTotalsExist
<1>4. ByLine(lines) = SumsFrom(sets)
  BY DEF ByLine
<1>5. /\ \A s \in SumsFrom(sets) :
           \E f \in [1..n -> Int] : (\A i \in 1..n : f[i] \in sets[i]) /\ s = SumFunctionOnSet(f, 1..n)
      /\ SumsFrom(sets) # {}
  <2> HIDE DEF sets, n
  <2> QED BY <1>1, <1>3, SumsAreFrom
<1>6. ASSUME NEW sum \in ByLine(lines)
      PROVE  Near(100 * sum, 100 * grand, 50 * (n + 1) + 106 * HalfCents(lines))
  <2>1. PICK c \in [1..n -> Int] : (\A i \in 1..n : c[i] \in sets[i]) /\ sum = SumFunctionOnSet(c, 1..n)
    BY <1>4, <1>5, <1>6
  <2>2. PICK r \in ItemsOf(lines) :
          LET net == SumFunctionOnSet(r, 1..n) - DiscountOf(lines) IN
          net \in Int /\ 106 * net - 50 <= 100 * grand /\ 100 * grand <= 106 * net + 50
    BY <1>1, ApiIsNear
  <2>3. grand \in Int
    BY <1>1, ApiIsNear
  <2>4. \A i \in S : c[i] \in Int /\ r[i] \in Int /\ d[i] \in Int /\ h[i] \in Int
    <3>1. \A i \in S : r[i] \in Int /\ c[i] \in Int
      BY <2>1, <2>2 DEF ItemsOf
    <3>2. \A i \in S : d[i] \in Int
      BY <1>1, LinesAreCounted
    <3>3. \A i \in S : h[i] \in Int
      BY DEF IsHalfCent
    <3> QED BY <3>1, <3>2, <3>3
  <2>5. \A i \in S : /\ 100 * c[i] <= 106 * r[i] - 106 * d[i] + 106 * h[i] + 50
                     /\ 100 * c[i] >= 106 * r[i] - 106 * d[i] - 106 * h[i] - 50
    <3> SUFFICES ASSUME NEW i \in S
                 PROVE  /\ 100 * c[i] <= 106 * r[i] - 106 * d[i] + 106 * h[i] + 50
                        /\ 100 * c[i] >= 106 * r[i] - 106 * d[i] - 106 * h[i] - 50
      OBVIOUS
    <3>1. c[i] \in ApiGrandTotals(<<lines[i]>>)
      <4> HIDE DEF sets
      <4> QED BY <1>2, <2>1
    <3>2. d[i] = lines[i].discount
      BY <1>1, LinesAreCounted
    <3>3. h[i] = IsHalfCent(lines)[i]
      OBVIOUS
    <3>4. /\ 100 * c[i] <= 106 * r[i] - 106 * lines[i].discount + 106 * IsHalfCent(lines)[i] + 50
          /\ 100 * c[i] >= 106 * r[i] - 106 * lines[i].discount - 106 * IsHalfCent(lines)[i] - 50
      <4> HIDE DEF sets, d, h
      <4> QED BY <1>1, <2>2, <3>1, NoteIsNear
    <3> HIDE DEF d, h, S, sets
    <3> QED BY <3>2, <3>3, <3>4, Zenon
  <2> DEFINE above == <<100, -106, 106, -106, 50>>
             below == <<-100, 106, -106, -106, 50>>
  <2>6. \A i \in 1..5 : above[i] \in Int /\ below[i] \in Int
    OBVIOUS
  <2>7. IsFiniteSet(S) /\ Cardinality(S) = n
    <3> HIDE DEF n
    <3> QED BY <1>1, FS_Interval
  <2>8. /\ DiscountOf(lines) = SumFunctionOnSet(d, S)
        /\ HalfCents(lines) = SumFunctionOnSet(h, S)
    BY <1>1, LineSums, HalfCentsAreCounted
  <2> DEFINE C == SumFunctionOnSet(c, S)
             R == SumFunctionOnSet(r, S)
             D == SumFunctionOnSet(d, S)
             H == SumFunctionOnSet(h, S)
  <2>9. sum = C /\ 106 * (R - D) - 50 <= 100 * grand /\ 100 * grand <= 106 * (R - D) + 50
    BY <2>1, <2>2, <2>8
  <2> HIDE DEF S, d, h, above, below, n, sets
  <2>10. C \in Int /\ R \in Int /\ D \in Int /\ H \in Int
    BY <2>4, <2>7, SumIsInt
  <2>11. Weighed(above, c, r, d, h, S)
    <3>1. ASSUME NEW i \in S PROVE WeighedAt(above, c, r, d, h, i)
      <4>1. 100 * c[i] + (-106) * r[i] + 106 * d[i] + (-106) * h[i] <= 50
        <5> DEFINE y == c[i]
                   x == r[i]
                   e == d[i]
                   g == h[i]
        <5>1. y \in Int /\ x \in Int /\ e \in Int /\ g \in Int
          BY <2>4
        <5>2. 100 * y <= 106 * x - 106 * e + 106 * g + 50 /\ 100 * y >= 106 * x - 106 * e - 106 * g - 50
          BY <2>5
        <5> HIDE DEF x, y, e, g
        <5>3. 100 * y + (-106) * x + 106 * e + (-106) * g <= 50
          BY <5>1, <5>2
        <5> QED BY <5>3 DEF x, y, e, g
      <4> QED BY <4>1 DEF WeighedAt, above
    <3> QED BY <2>4, <2>6, <2>7, <3>1, SumsAreWeighed
  <2>12. Weighed(below, c, r, d, h, S)
    <3>1. ASSUME NEW i \in S PROVE WeighedAt(below, c, r, d, h, i)
      <4>1. (-100) * c[i] + 106 * r[i] + (-106) * d[i] + (-106) * h[i] <= 50
        <5> DEFINE y == c[i]
                   x == r[i]
                   e == d[i]
                   g == h[i]
        <5>1. y \in Int /\ x \in Int /\ e \in Int /\ g \in Int
          BY <2>4
        <5>2. 100 * y <= 106 * x - 106 * e + 106 * g + 50 /\ 100 * y >= 106 * x - 106 * e - 106 * g - 50
          BY <2>5
        <5> HIDE DEF x, y, e, g
        <5>3. (-100) * y + 106 * x + (-106) * e + (-106) * g <= 50
          BY <5>1, <5>2
        <5> QED BY <5>3 DEF x, y, e, g
      <4> QED BY <4>1 DEF WeighedAt, below
    <3> QED BY <2>4, <2>6, <2>7, <3>1, SumsAreWeighed
  <2>13. 100 * C + (-106) * R + 106 * D + (-106) * H <= 50 * n
    BY <2>7, <2>11 DEF Weighed, above
  <2>14. (-100) * C + 106 * R + (-106) * D + (-106) * H <= 50 * n
    BY <2>7, <2>12 DEF Weighed, below
  <2> HIDE DEF C, R, D, H
  <2>15. 100 * C - 100 * grand \in -(50 * (n + 1) + 106 * H)..(50 * (n + 1) + 106 * H)
    BY <1>1, <2>3, <2>9, <2>10, <2>13, <2>14
  <2> QED BY <2>8, <2>9, <2>15 DEF Near, H
<1> QED BY <1>4, <1>5, <1>6

(* Two notes over half of every quantity. *)
LEMMA HalvesAreWithin ==
  ASSUME NEW lines \in Seq(ValidLine), NEW grand \in ApiGrandTotals(lines),
         NEW half \in CreditGrandTotals(lines, Halves(lines))
  PROVE  200 * half <= 100 * grand + 106 * Len(lines) + 150
<1> DEFINE n == Len(lines)
           S == 1..n
           parts == HalvesOf(lines)
           twice == <<2, -1, 0, 0, 1>>
<1>1. n \in Nat /\ lines \in Seq(Line)
  BY DEF ValidLine
<1>2. /\ parts \in Seq(Line) /\ Len(parts) = n /\ half \in ApiGrandTotals(parts)
      /\ \A i \in S : parts[i].discount = lines[i].discount /\ 2 * Gross(parts[i]) <= Gross(lines[i])
  BY NoteForHalves
<1>3. IsFiniteSet(S) /\ Cardinality(S) = n
  <2> HIDE DEF n
  <2> QED BY <1>1, FS_Interval
<1>4. PICK r \in ItemsOf(lines) :
        LET net == SumFunctionOnSet(r, 1..n) - DiscountOf(lines) IN
        net \in Int /\ 106 * net - 50 <= 100 * grand /\ 100 * grand <= 106 * net + 50
  BY <1>1, ApiIsNear
<1> HIDE DEF parts
<1>5. PICK p \in ItemsOf(parts) :
        LET net == SumFunctionOnSet(p, 1..n) - DiscountOf(parts) IN
        net \in Int /\ 106 * net - 50 <= 100 * half /\ 100 * half <= 106 * net + 50
  BY <1>2, ApiIsNear
<1>6. grand \in Int /\ half \in Int /\ DiscountOf(lines) \in Nat
  BY <1>1, <1>2, ApiIsNear, LineSums
<1>7. DiscountOf(parts) = DiscountOf(lines)
  <2>1. DiscountOf(parts) = SumFunctionOnSet(DiscountAt(parts), S)
        /\ DiscountOf(lines) = SumFunctionOnSet(DiscountAt(lines), S)
    BY <1>1, <1>2, LineSums
  <2>2. \A i \in S : DiscountAt(parts)[i] = DiscountAt(lines)[i]
    BY <1>1, <1>2, LinesAreCounted
  <2> HIDE DEF S
  <2> QED BY <1>3, <2>1, <2>2, SumOfSame
<1>8. \A i \in S : p[i] \in Int /\ r[i] \in Int
  BY <1>2, <1>4, <1>5 DEF ItemsOf
<1>9. \A i \in S : 2 * p[i] <= r[i] + 1
  <2> SUFFICES ASSUME NEW i \in S PROVE 2 * p[i] <= r[i] + 1
    OBVIOUS
  <2>1. Gross(lines[i]) \in Int /\ Gross(parts[i]) \in Int /\ 2 * Gross(parts[i]) <= Gross(lines[i])
    BY <1>1, <1>2, LinesAreCounted
  <2>2. r[i] \in Rounded(Gross(lines[i]), 100) /\ p[i] \in Rounded(Gross(parts[i]), 100)
    BY <1>2, <1>4, <1>5 DEF ItemsOf
  <2> DEFINE g == Gross(lines[i])
             k == Gross(parts[i])
             x == r[i]
             y == p[i]
  <2>3. x \in Int /\ y \in Int /\ g \in Int /\ k \in Int /\ 2 * k <= g /\ g - 50 <= 100 * x /\ 100 * y <= k + 50
    BY <1>8, <2>1, <2>2, RoundedIsNear
  <2> HIDE DEF g, k, x, y
  <2>4. 2 * y <= x + 1
    BY <2>3
  <2> QED BY <2>4 DEF x, y
<1>10. \A i \in 1..5 : twice[i] \in Int
  OBVIOUS
<1> DEFINE R == SumFunctionOnSet(r, S)
           P == SumFunctionOnSet(p, S)
           D == DiscountOf(lines)
<1>11. /\ 106 * (R - D) - 50 <= 100 * grand /\ 100 * half <= 106 * (P - D) + 50
  BY <1>4, <1>5, <1>7
<1> HIDE DEF S, twice, n
<1>12. R \in Int /\ P \in Int
  BY <1>3, <1>8, SumIsInt
<1>13. Weighed(twice, p, r, r, r, S)
  <2>1. ASSUME NEW i \in S PROVE WeighedAt(twice, p, r, r, r, i)
    <3>1. 2 * p[i] + (-1) * r[i] + 0 * r[i] + 0 * r[i] <= 1
      BY <1>8, <1>9
    <3> QED BY <3>1 DEF WeighedAt, twice
  <2> QED BY <1>3, <1>8, <1>10, <2>1, SumsAreWeighed
<1>14. 2 * P - R <= n
  BY <1>1, <1>3, <1>12, <1>13 DEF Weighed, twice
<1> HIDE DEF R, P, D
<1>15. D \in Nat
  BY <1>6 DEF D
<1>16. 200 * half <= 100 * grand + 106 * n + 150
  BY <1>1, <1>6, <1>11, <1>12, <1>14, <1>15
<1> QED BY <1>16 DEF n

-----------------------------------------------------------------------------
(***************************************************************************)
(* Screens.  What is shown: documents whose lines were valid in a form,    *)
(* with the total their form came to; invoices whose status tells what is  *)
(* paid, quotes billed once, by acceptance; and orders of the till that    *)
(* came to what calculateSaleTotals says.                                  *)
(***************************************************************************)
Statuses == {"none", "DRAFT", "ISSUED", "SENT", "PARTIALLY_PAID", "PAID", "ACCEPTED",
             "EXPIRED", "CANCELLED", "VOID"}

DocShown == [status : Statuses, lines : Seq(ValidLine), grand : Int, paid : Nat, payments : Nat,
             balance : Int, einvoice : {"none", "PENDING", "SENT", "ACCEPTED"}, onSale : BOOLEAN,
             linked : BOOLEAN, bills : Nat]

Order == [receipt : Nat, net : Nat, total : Int]

TillState == [orders : Seq(Order), sequence : Nat, draft : Nat, link : Nat]

InvoiceIsSo(d) ==
  /\ d.status \in {"DRAFT", "SENT", "PARTIALLY_PAID", "PAID", "VOID"}
  /\ d.status = "PAID" => d.balance = 0 /\ d.paid >= d.grand
  /\ d.status = "PARTIALLY_PAID" => d.paid \in 1..(d.grand - 1)
  /\ d.status \in {"DRAFT", "SENT"} => d.paid = 0 /\ d.balance = d.grand

QuoteIsSo(d) ==
  /\ d.status \in {"DRAFT", "SENT", "ACCEPTED", "EXPIRED", "CANCELLED"}
  /\ d.bills <= 1
  /\ d.bills = 1 => d.status \in {"ACCEPTED", "CANCELLED"}
  /\ d.status = "ACCEPTED" => d.linked

SalesAreSo ==
  /\ till \in TillState
  /\ Len(till.orders) = till.sequence
  /\ \A i \in 1..till.sequence - 2 : till.orders[i].total = till.orders[i].net + Sst(till.orders[i].net)

ScreensInv ==
  /\ page \in {Away, Till} \cup Kinds \X Views
  /\ form \in Seq(Lines \cup {BlankLine})
  /\ doc \in DocShown
  /\ doc.lines = <<>> \/ doc.grand \in WebGrandTotals(doc.lines)
  /\ page[1] = "invoice" => InvoiceIsSo(doc)
  /\ page[1] = "quote" => QuoteIsSo(doc)
  /\ SalesAreSo

-----------------------------------------------------------------------------
LEMMA DocumentIsShown ==
  ASSUME NEW status \in Statuses, NEW lines \in Seq(ValidLine), NEW grand \in Int
  PROVE  LET d == Document(status, lines, grand) IN
         /\ d \in DocShown
         /\ d.status = status /\ d.lines = lines /\ d.grand = grand /\ d.paid = 0 /\ d.balance = grand
         /\ d.bills = 0
BY DEF Document, DocShown, Statuses

LEMMA DataIsSo ==
  ASSUME NEW kind \in Kinds, NEW d \in Data(kind)
  PROVE  /\ d \in DocShown /\ d.lines = <<>>
         /\ kind = "invoice" => InvoiceIsSo(d)
         /\ kind = "quote" => QuoteIsSo(d)
<1> DEFINE none == <<>>
<1>1. none \in Seq(ValidLine)
  OBVIOUS
<1>2. /\ kind = "invoice" =>
            d \in {[Document("SENT", none, 33390) EXCEPT !.einvoice = "PENDING"],
                  [Document("PARTIALLY_PAID", none, 67840) EXCEPT
                     !.paid = 30000, !.balance = 37840, !.einvoice = "SENT"],
                  [Document("PAID", none, 55120) EXCEPT
                     !.paid = 55120, !.balance = 0, !.einvoice = "ACCEPTED", !.onSale = TRUE]}
      /\ kind = "quote" =>
           d \in {Document("DRAFT", none, 33390), Document("SENT", none, 67840),
                 [Document("ACCEPTED", none, 55120) EXCEPT !.linked = TRUE]}
      /\ kind = "creditNote" =>
           d \in {Document("ISSUED", none, 29680), Document("VOID", none, 12720)}
  BY DEF Data, InvoiceData, QuoteData, CreditNoteData
<1> HIDE DEF none
<1>3. ASSUME NEW status \in Statuses, NEW grand \in Int, d = Document(status, none, grand)
      PROVE  d \in DocShown /\ d.status = status /\ d.lines = none /\ d.grand = grand /\ d.paid = 0 /\ d.balance = grand
             /\ d.bills = 0
  BY <1>1, <1>3, DocumentIsShown
<1>4. CASE kind = "invoice"
  <2>1. CASE d = [Document("SENT", none, 33390) EXCEPT !.einvoice = "PENDING"]
    <3> DEFINE e == Document("SENT", none, 33390)
    <3>1. e \in DocShown /\ e.status = "SENT" /\ e.lines = none /\ e.grand = 33390 /\ e.paid = 0 /\ e.balance = 33390
      BY <1>1, DocumentIsShown DEF Statuses
    <3>2. d = [e EXCEPT !.einvoice = "PENDING"]
      BY <2>1
    <3> HIDE DEF e
    <3>3. d \in DocShown /\ d.status = "SENT" /\ d.lines = none /\ d.grand = 33390 /\ d.paid = 0 /\ d.balance = 33390
      BY <3>1, <3>2 DEF DocShown
    <3> QED BY <1>4, <3>3 DEF InvoiceIsSo, none
  <2>2. CASE d = [Document("PARTIALLY_PAID", none, 67840) EXCEPT !.paid = 30000, !.balance = 37840, !.einvoice = "SENT"]
    <3> DEFINE e == Document("PARTIALLY_PAID", none, 67840)
    <3>1. e \in DocShown /\ e.status = "PARTIALLY_PAID" /\ e.lines = none /\ e.grand = 67840
      BY <1>1, DocumentIsShown DEF Statuses
    <3>2. d = [e EXCEPT !.paid = 30000, !.balance = 37840, !.einvoice = "SENT"]
      BY <2>2
    <3> HIDE DEF e
    <3>3. d \in DocShown
      <4> DEFINE e1 == [e EXCEPT !.paid = 30000]
                 e2 == [e1 EXCEPT !.balance = 37840]
      <4>1. d = [e2 EXCEPT !.einvoice = "SENT"]
        BY <3>2
      <4>2. e1 \in DocShown
        BY <3>1 DEF DocShown
      <4> HIDE DEF e1
      <4>3. e2 \in DocShown
        BY <4>2 DEF DocShown
      <4> HIDE DEF e2
      <4> QED BY <4>1, <4>3 DEF DocShown
    <3>4. d.status = "PARTIALLY_PAID" /\ d.lines = none /\ d.grand = 67840 /\ d.paid = 30000
      BY <3>1, <3>2 DEF DocShown
    <3> QED BY <1>4, <3>3, <3>4 DEF InvoiceIsSo, none
  <2>3. CASE d = [Document("PAID", none, 55120) EXCEPT
                    !.paid = 55120, !.balance = 0, !.einvoice = "ACCEPTED", !.onSale = TRUE]
    <3> DEFINE e == Document("PAID", none, 55120)
    <3>1. e \in DocShown /\ e.status = "PAID" /\ e.lines = none /\ e.grand = 55120
      BY <1>1, DocumentIsShown DEF Statuses
    <3>2. d = [e EXCEPT !.paid = 55120, !.balance = 0, !.einvoice = "ACCEPTED", !.onSale = TRUE]
      BY <2>3
    <3> HIDE DEF e
    <3>3. d \in DocShown
      <4> DEFINE e1 == [e EXCEPT !.paid = 55120]
                 e2 == [e1 EXCEPT !.balance = 0]
                 e3 == [e2 EXCEPT !.einvoice = "ACCEPTED"]
      <4>1. d = [e3 EXCEPT !.onSale = TRUE]
        BY <3>2
      <4>2. e1 \in DocShown
        BY <3>1 DEF DocShown
      <4> HIDE DEF e1
      <4>3. e2 \in DocShown
        BY <4>2 DEF DocShown
      <4> HIDE DEF e2
      <4>4. e3 \in DocShown
        BY <4>3 DEF DocShown
      <4> HIDE DEF e3
      <4> QED BY <4>1, <4>4 DEF DocShown
    <3>4. d.status = "PAID" /\ d.lines = none /\ d.grand = 55120 /\ d.paid = 55120 /\ d.balance = 0
      BY <3>1, <3>2 DEF DocShown
    <3> QED BY <1>4, <3>3, <3>4 DEF InvoiceIsSo, none
  <2> QED BY <1>2, <1>4, <2>1, <2>2, <2>3
<1>5. CASE kind = "quote"
  <2>1. CASE d = Document("DRAFT", none, 33390)
    BY <1>3, <1>5, <2>1 DEF Statuses, QuoteIsSo, none
  <2>2. CASE d = Document("SENT", none, 67840)
    BY <1>3, <1>5, <2>2 DEF Statuses, QuoteIsSo, none
  <2>3. CASE d = [Document("ACCEPTED", none, 55120) EXCEPT !.linked = TRUE]
    <3> DEFINE e == Document("ACCEPTED", none, 55120)
    <3>1. e \in DocShown /\ e.status = "ACCEPTED" /\ e.lines = none /\ e.bills = 0
      BY <1>1, DocumentIsShown DEF Statuses
    <3>2. d = [e EXCEPT !.linked = TRUE]
      BY <2>3
    <3> HIDE DEF e
    <3>3. d \in DocShown /\ d.status = "ACCEPTED" /\ d.lines = none /\ d.bills = 0 /\ d.linked
      BY <3>1, <3>2 DEF DocShown
    <3> QED BY <1>5, <3>3 DEF QuoteIsSo, none
  <2> QED BY <1>2, <1>5, <2>1, <2>2, <2>3
<1>6. CASE kind = "creditNote"
  <2>1. CASE d = Document("ISSUED", none, 29680)
    BY <1>3, <1>6, <2>1 DEF Statuses, none
  <2>2. CASE d = Document("VOID", none, 12720)
    BY <1>3, <1>6, <2>2 DEF Statuses, none
  <2> QED BY <1>2, <1>6, <2>1, <2>2
<1> QED BY <1>4, <1>5, <1>6 DEF Kinds

LEMMA NothingShown == NoDocument \in DocShown /\ NoDocument.lines = <<>>
<1> DEFINE none == <<>>
<1>1. none \in Seq(ValidLine) /\ NoDocument = Document("none", none, 0)
  BY DEF NoDocument
<1> HIDE DEF none
<1>2. NoDocument \in DocShown /\ NoDocument.lines = none
  BY <1>1, DocumentIsShown DEF Statuses
<1> QED BY <1>2 DEF none

LEMMA ScreensAtFirst == ASSUME ScreensAssumption, ScreenInit PROVE ScreensInv
<1> USE DEF ScreenInit
<1>1. form \in Seq(Lines \cup {BlankLine})
  BY DEF NewForm
<1>2. SalesAreSo
  <2>1. till \in TillState
    <3>1. [receipt |-> 1, net |-> 4750, total |-> 5035] \in Order
          /\ [receipt |-> 2, net |-> 12000, total |-> 12720] \in Order
      BY DEF Order
    <3>2. <<[receipt |-> 1, net |-> 4750, total |-> 5035],
            [receipt |-> 2, net |-> 12000, total |-> 12720]>> \in Seq(Order)
      BY <3>1
    <3> QED BY <3>2 DEF NewTill, TillState
  <2>2. Len(till.orders) = 2 /\ till.sequence = 2
    BY DEF NewTill
  <2> QED BY <2>1, <2>2 DEF SalesAreSo
<1>3. page[1] = "none"
  BY DEF Away
<1> QED BY <1>1, <1>2, <1>3, NothingShown DEF ScreensInv

(* The till. *)
LEMMA SalesStaySo ==
  ASSUME ScreensAssumption, ScreensInv, [ScreenNext]_screenVars
  PROVE  SalesAreSo'
<1> USE DEF ScreensInv
<1>1. CASE till' = till
  BY <1>1 DEF SalesAreSo
<1>2. CASE Leave
  <2>1. till' = NewTill
    BY <1>2 DEF Leave
  <2>2. NewTill \in TillState
    <3>1. [receipt |-> 1, net |-> 4750, total |-> 5035] \in Order
          /\ [receipt |-> 2, net |-> 12000, total |-> 12720] \in Order
      BY DEF Order
    <3>2. <<[receipt |-> 1, net |-> 4750, total |-> 5035],
            [receipt |-> 2, net |-> 12000, total |-> 12720]>> \in Seq(Order)
      BY <3>1
    <3> QED BY <3>2 DEF NewTill, TillState
  <2>3. Len(NewTill.orders) = 2 /\ NewTill.sequence = 2
    BY DEF NewTill
  <2> QED BY <2>1, <2>2, <2>3 DEF SalesAreSo
<1>3. ASSUME NEW subtotal \in Subtotals, NEW discount \in Discounts, Sell(subtotal, discount)
      PROVE  SalesAreSo'
  <2> DEFINE off == IF discount > subtotal THEN subtotal ELSE discount
             net == subtotal - off
             new == [receipt |-> till.sequence + 1, net |-> net, total |-> net + Sst(net)]
  <2>1. net \in Nat
    BY DEF ScreensAssumption
  <2> HIDE DEF net
  <2>2. Sst(net) \in Int
    BY <2>1 DEF Sst
  <2>3. till \in TillState /\ Len(till.orders) = till.sequence
    BY DEF SalesAreSo
  <2>4. till.sequence \in Nat /\ till.orders \in Seq(Order) /\ new \in Order
    BY <2>1, <2>2, <2>3 DEF TillState, Order
  <2>5. till' = [till EXCEPT !.sequence = till.sequence + 1, !.orders = <<new>> \o till.orders]
    BY <1>3 DEF Sell, Show, Sale, net
  <2> DEFINE orders == <<new>> \o till.orders
  <2>6. till'.sequence = till.sequence + 1 /\ till'.orders = orders /\ till'.draft = till.draft
        /\ till'.link = till.link /\ till' \in [orders : {orders}, sequence : {till.sequence + 1}, draft : Nat, link : Nat]
    <3> HIDE DEF orders
    <3> QED BY <2>3, <2>5 DEF TillState, orders
  <2>7. orders \in Seq(Order) /\ Len(orders) = till.sequence + 1
        /\ orders[1] = new /\ \A i \in 2..(till.sequence + 1) : orders[i] = till.orders[i - 1]
    <3>1. <<new>> \in Seq(Order) /\ Len(<<new>>) = 1 /\ <<new>>[1] = new
      <4> HIDE DEF new
      <4> QED BY <2>4
    <3> HIDE DEF new
    <3> QED BY <2>3, <2>4, <3>1
  <2>8. ASSUME NEW i \in 1..till'.sequence - 2
        PROVE  till'.orders[i].total = till'.orders[i].net + Sst(till'.orders[i].net)
    <3>1. CASE i = 1
      BY <2>6, <2>7, <3>1
    <3>2. CASE i # 1
      <4>1. i \in 2..(till.sequence + 1) /\ i - 1 \in 1..till.sequence - 2
        <5>1. i \in 1..till.sequence - 1 /\ i \in Int
          BY <2>4, <2>6
        <5> QED BY <2>4, <3>2, <5>1
      <4>2. till'.orders[i] = till.orders[i - 1]
        BY <2>6, <2>7, <4>1
      <4>3. till.orders[i - 1].total = till.orders[i - 1].net + Sst(till.orders[i - 1].net)
        BY <4>1 DEF SalesAreSo
      <4> QED BY <4>2, <4>3
    <3> QED BY <3>1, <3>2
  <2>9. till' \in TillState
    <3> HIDE DEF orders
    <3> QED BY <2>4, <2>6, <2>7 DEF TillState
  <2> QED BY <2>6, <2>7, <2>8, <2>9 DEF SalesAreSo
<1>4. ASSUME NEW what \in {"draft", "link"}, NEW receipt \in Nat, till' = [till EXCEPT ![what] = receipt]
      PROVE  SalesAreSo'
  <2>1. till \in TillState
    BY DEF SalesAreSo
  <2>2. till' \in TillState /\ till'.orders = till.orders /\ till'.sequence = till.sequence
    <3>1. CASE what = "draft"
      <4>1. till' = [till EXCEPT !.draft = receipt]
        BY <1>4, <3>1
      <4> QED BY <2>1, <4>1 DEF TillState
    <3>2. CASE what = "link"
      <4>1. till' = [till EXCEPT !.link = receipt]
        BY <1>4, <3>2
      <4> QED BY <2>1, <4>1 DEF TillState
    <3> QED BY <3>1, <3>2
  <2> QED BY <2>2 DEF SalesAreSo
<1>5. ASSUME NEW what \in {"draft", "link"}, ClosePanel(what) PROVE SalesAreSo'
  <2>1. till' = [till EXCEPT ![what] = 0]
    BY <1>5 DEF ClosePanel, Show
  <2> QED BY <1>4, <2>1
<1>6. ASSUME NEW what \in {"draft", "link"}, NEW i \in 1..(2 + MaxSales), ChooseOrder(i, what)
      PROVE  SalesAreSo'
  <2>1. till' = [till EXCEPT ![what] = till.orders[i].receipt] /\ i \in DOMAIN till.orders
    BY <1>6 DEF ChooseOrder, Show
  <2>2. till.orders[i].receipt \in Nat
    <3>1. till.orders \in Seq(Order)
      BY DEF SalesAreSo, TillState
    <3>2. till.orders[i] \in Order
      BY <2>1, <3>1
    <3> QED BY <3>2 DEF Order
  <2> QED BY <1>4, <2>1, <2>2
<1>7. \/ till' = till \/ Leave
      \/ \E subtotal \in Subtotals, discount \in Discounts : Sell(subtotal, discount)
      \/ \E what \in {"draft", "link"} :
           ClosePanel(what) \/ \E i \in 1..(2 + MaxSales) : ChooseOrder(i, what)
  BY DEF ScreenNext, screenVars, OpenDocuments, OpenTill, AddLine, SubmitInvoice, SubmitQuote, SubmitCreditNote,
         Submit, ChangeLine, SendInvoice, VoidInvoice, SubmitEinvoice, LinkPosSale, PayInWorkspace, PayOnOwnPage,
         SendQuote, AcceptQuote, ExpireQuote, CancelQuote, VoidNote, Only
<1> QED BY <1>1, <1>2, <1>3, <1>5, <1>6, <1>7

(* What the buttons change in what is shown, and what they leave. *)
LEMMA StatusChanges ==
  ASSUME doc \in DocShown, NEW status \in Statuses, Becomes(status)
  PROVE  /\ doc' \in DocShown /\ doc'.status = status
         /\ doc'.lines = doc.lines /\ doc'.grand = doc.grand /\ doc'.paid = doc.paid /\ doc'.balance = doc.balance
         /\ doc'.einvoice = doc.einvoice /\ doc'.bills = doc.bills /\ doc'.linked = doc.linked
BY DEF Becomes, DocShown

LEMMA PaymentChanges ==
  ASSUME doc \in DocShown, NEW amount \in Nat \ {0}, NEW status \in Statuses, Paid(amount, status)
  PROVE  /\ doc' \in DocShown /\ doc'.status = status
         /\ doc'.lines = doc.lines /\ doc'.grand = doc.grand /\ doc'.paid = doc.paid + amount
         /\ doc'.balance = IF doc.grand < doc.paid + amount THEN 0 ELSE doc.grand - doc.paid - amount
         /\ doc'.einvoice = doc.einvoice
<1> DEFINE paid == doc.paid + amount
           times == doc.payments + 1
           rest == IF doc.grand < doc.paid + amount THEN 0 ELSE doc.grand - doc.paid - amount
           d1 == [doc EXCEPT !.status = status]
           d2 == [d1 EXCEPT !.paid = paid]
           d3 == [d2 EXCEPT !.payments = times]
<1>1. paid \in Nat /\ times \in Nat /\ rest \in Int
  <2>1. doc.paid \in Nat /\ doc.payments \in Nat /\ doc.grand \in Int
    BY DEF DocShown
  <2> QED BY <2>1
<1>2. doc' = [d3 EXCEPT !.balance = rest]
  <2>1. doc' = [doc EXCEPT !.status = status, !.paid = paid, !.payments = times, !.balance = rest]
    BY DEF Paid
  <2> HIDE DEF paid, times, rest
  <2> QED BY <2>1
<1> HIDE DEF paid, times, rest
<1>3. d1 \in DocShown /\ d1.status = status /\ d1.lines = doc.lines /\ d1.grand = doc.grand
      /\ d1.einvoice = doc.einvoice
  BY DEF DocShown
<1> HIDE DEF d1
<1>4. d2 \in DocShown /\ d2.status = status /\ d2.lines = doc.lines /\ d2.grand = doc.grand /\ d2.paid = paid
      /\ d2.einvoice = doc.einvoice
  BY <1>1, <1>3 DEF DocShown
<1> HIDE DEF d2
<1>5. d3 \in DocShown /\ d3.status = status /\ d3.lines = doc.lines /\ d3.grand = doc.grand /\ d3.paid = paid
      /\ d3.einvoice = doc.einvoice
  BY <1>1, <1>4 DEF DocShown
<1> HIDE DEF d3
<1>6. doc' \in DocShown /\ doc'.status = status /\ doc'.lines = doc.lines /\ doc'.grand = doc.grand
      /\ doc'.paid = paid /\ doc'.balance = rest /\ doc'.einvoice = doc.einvoice
  BY <1>1, <1>2, <1>5 DEF DocShown
<1> QED BY <1>6 DEF paid, rest

LEMMA AcceptanceChanges ==
  ASSUME doc \in DocShown, Accepted
  PROVE  /\ doc' \in DocShown /\ doc'.status = "ACCEPTED" /\ doc'.linked
         /\ doc'.lines = doc.lines /\ doc'.grand = doc.grand /\ doc'.bills = doc.bills + 1
         /\ doc'.einvoice = doc.einvoice
<1> DEFINE bills == doc.bills + 1
           d1 == [doc EXCEPT !.status = "ACCEPTED"]
           d2 == [d1 EXCEPT !.linked = TRUE]
<1>1. bills \in Nat /\ doc' = [d2 EXCEPT !.bills = bills]
  <2>1. doc.bills \in Nat
    BY DEF DocShown
  <2>2. doc' = [doc EXCEPT !.status = "ACCEPTED", !.linked = TRUE, !.bills = bills]
    BY DEF Accepted
  <2>3. bills \in Nat
    BY <2>1
  <2> HIDE DEF bills
  <2> QED BY <2>2, <2>3
<1> HIDE DEF bills
<1>2. d1 \in DocShown /\ d1.status = "ACCEPTED" /\ d1.lines = doc.lines /\ d1.grand = doc.grand
      /\ d1.einvoice = doc.einvoice
  BY DEF DocShown, Statuses
<1> HIDE DEF d1
<1>3. d2 \in DocShown /\ d2.status = "ACCEPTED" /\ d2.lines = doc.lines /\ d2.grand = doc.grand
      /\ d2.einvoice = doc.einvoice /\ d2.linked
  BY <1>2 DEF DocShown
<1> HIDE DEF d2
<1>4. doc' \in DocShown /\ doc'.status = "ACCEPTED" /\ doc'.lines = doc.lines /\ doc'.grand = doc.grand
      /\ doc'.einvoice = doc.einvoice /\ doc'.linked /\ doc'.bills = bills
  BY <1>1, <1>3 DEF DocShown
<1> QED BY <1>4 DEF bills

-----------------------------------------------------------------------------
(* The document, action by action. *)
DocIsSo ==
  /\ doc \in DocShown
  /\ doc.lines = <<>> \/ doc.grand \in WebGrandTotals(doc.lines)
  /\ page[1] = "invoice" => InvoiceIsSo(doc)
  /\ page[1] = "quote" => QuoteIsSo(doc)

LEMMA SubmittedIsSo ==
  ASSUME ScreensAssumption, ScreensInv, NEW kind \in Kinds, NEW status \in {"DRAFT", "ISSUED"},
         NEW einvoice \in {"PENDING", "none"}, kind \in {"invoice", "quote"} => status = "DRAFT",
         Submit(kind, status, einvoice)
  PROVE  DocIsSo'
<1>1. ValidLines \in Seq(ValidLine)
  BY ValidLinesAreValid DEF ScreensInv
<1> DEFINE lines == ValidLines
<1>2. lines \in Seq(Line)
  <2>1. ValidLine \subseteq Line
    BY DEF ValidLine
  <2> QED BY <1>1, <2>1
<1>3. PICK grand \in WebGrandTotals(lines) : doc' = [Document(status, lines, grand) EXCEPT !.einvoice = einvoice]
  BY DEF Submit
<1>4. page' = page
  BY DEF Submit
<1> HIDE DEF lines
<1>5. grand \in Int
  BY <1>2, <1>3, WebIsNear
<1> DEFINE d == Document(status, lines, grand)
<1>6. d \in DocShown /\ d.status = status /\ d.lines = lines /\ d.grand = grand /\ d.paid = 0 /\ d.balance = grand
      /\ d.bills = 0
  BY <1>1, <1>5, DocumentIsShown DEF Statuses, lines
<1> HIDE DEF d
<1>7. doc' = [d EXCEPT !.einvoice = einvoice]
  BY <1>3 DEF d
<1>8. doc' \in DocShown
  BY <1>6, <1>7 DEF DocShown
<1>9. doc'.status = status /\ doc'.lines = lines /\ doc'.grand = grand /\ doc'.paid = 0 /\ doc'.balance = grand
      /\ doc'.bills = 0
  BY <1>6, <1>7 DEF DocShown
<1>10. doc'.grand \in WebGrandTotals(doc'.lines)
  BY <1>3, <1>9
<1>11. page[1] = kind
  BY DEF Submit, On
<1>12. kind = "invoice" => InvoiceIsSo(doc')
  BY <1>9 DEF InvoiceIsSo
<1>13. kind = "quote" => QuoteIsSo(doc')
  BY <1>9 DEF QuoteIsSo
<1> QED BY <1>4, <1>8, <1>10, <1>11, <1>12, <1>13 DEF DocIsSo

LEMMA PaidIsSo ==
  ASSUME DocIsSo, page[1] = "invoice", NEW amount \in Nat \ {0},
         NEW status, status = StatusPaid(amount) \/ (doc.status = "VOID" /\ status = "VOID"), Paid(amount, status)
  PROVE  /\ doc' \in DocShown /\ InvoiceIsSo(doc') /\ doc'.status = status
         /\ doc'.lines = doc.lines /\ doc'.grand = doc.grand /\ doc'.einvoice = doc.einvoice
<1>1. doc \in DocShown /\ doc.grand \in Int /\ doc.paid \in Nat
  BY DEF DocIsSo, DocShown
<1>2. status \in {"PAID", "PARTIALLY_PAID", "VOID"}
  BY DEF StatusPaid
<1>3. /\ doc' \in DocShown /\ doc'.status = status
      /\ doc'.lines = doc.lines /\ doc'.grand = doc.grand /\ doc'.paid = doc.paid + amount
      /\ doc'.balance = IF doc.grand < doc.paid + amount THEN 0 ELSE doc.grand - doc.paid - amount
      /\ doc'.einvoice = doc.einvoice
  BY <1>1, <1>2, PaymentChanges DEF Statuses
<1>4. CASE status = "VOID"
  BY <1>3, <1>4 DEF InvoiceIsSo
<1>5. CASE status = StatusPaid(amount)
  <2>1. CASE doc.grand <= doc.paid + amount
    <3>1. status = "PAID" /\ doc'.balance = 0 /\ doc'.paid >= doc'.grand
      BY <1>1, <1>3, <1>5, <2>1 DEF StatusPaid
    <3> QED BY <1>3, <3>1 DEF InvoiceIsSo
  <2>2. CASE ~(doc.grand <= doc.paid + amount)
    <3>1. status = "PARTIALLY_PAID"
      BY <1>5, <2>2 DEF StatusPaid
    <3>2. doc'.paid \in 1..(doc'.grand - 1)
      BY <1>1, <1>3, <2>2
    <3> QED BY <1>3, <3>1, <3>2 DEF InvoiceIsSo
  <2> QED BY <2>1, <2>2
<1> QED BY <1>3, <1>4, <1>5

LEMMA DocStaysSo ==
  ASSUME ScreensAssumption, ScreensInv, [ScreenNext]_screenVars
  PROVE  DocIsSo'
<1>0. DocIsSo /\ doc \in DocShown
  BY DEF ScreensInv, DocIsSo
<1>1. CASE doc' = doc /\ page' = page
  BY <1>0, <1>1 DEF DocIsSo
<1>2. CASE OpenTill
  <2>1. doc' = doc /\ page'[1] = "till"
    BY <1>2 DEF OpenTill, Till
  <2> QED BY <1>0, <2>1 DEF DocIsSo
<1>3. CASE Leave
  <2>1. doc' = NoDocument /\ page'[1] = "none"
    BY <1>3 DEF Leave, Away
  <2> QED BY <2>1, NothingShown DEF DocIsSo
<1>4. ASSUME NEW kind \in Kinds, NEW view \in Views, OpenDocuments(kind, view) PROVE DocIsSo'
  <2>1. doc' \in Data(kind) /\ page'[1] = kind
    BY <1>4 DEF OpenDocuments
  <2> QED BY <2>1, DataIsSo DEF DocIsSo
<1>5. ASSUME SubmitInvoice \/ SubmitQuote \/ SubmitCreditNote PROVE DocIsSo'
  BY <1>5, SubmittedIsSo DEF SubmitInvoice, SubmitQuote, SubmitCreditNote, Kinds
<1>6. ASSUME NEW status \in Statuses, Becomes(status), page' = page,
             page[1] = "invoice" =>
               status = "VOID" \/ (status = "SENT" /\ doc.status = "DRAFT"),
             page[1] = "quote" =>
               status \in {"SENT", "EXPIRED", "CANCELLED"}
               /\ (doc.status = "ACCEPTED" => status = "CANCELLED")
               /\ (doc.status = "CANCELLED" => status = "CANCELLED")
      PROVE  DocIsSo'
  <2>1. /\ doc' \in DocShown /\ doc'.status = status
        /\ doc'.lines = doc.lines /\ doc'.grand = doc.grand /\ doc'.paid = doc.paid /\ doc'.balance = doc.balance
        /\ doc'.einvoice = doc.einvoice /\ doc'.bills = doc.bills /\ doc'.linked = doc.linked
    BY <1>0, <1>6, StatusChanges
  <2>2. page[1] = "invoice" => InvoiceIsSo(doc')
    BY <1>0, <1>6, <2>1 DEF DocIsSo, InvoiceIsSo
  <2>3. page[1] = "quote" => QuoteIsSo(doc')
    BY <1>0, <1>6, <2>1 DEF DocIsSo, QuoteIsSo
  <2> QED BY <1>0, <1>6, <2>1, <2>2, <2>3 DEF DocIsSo
<1>7. ASSUME SendInvoice \/ VoidInvoice PROVE DocIsSo'
  BY <1>6, <1>7 DEF SendInvoice, VoidInvoice, On, Only, Statuses
<1>8. ASSUME VoidNote PROVE DocIsSo'
  BY <1>6, <1>8 DEF VoidNote, On, Only, Statuses
<1>9. ASSUME SendQuote PROVE DocIsSo'
  <2>1. doc.status \in {"DRAFT", "SENT", "EXPIRED"} /\ Becomes("SENT") /\ page' = page /\ page[1] = "quote"
    BY <1>9 DEF SendQuote, On, Only
  <2> QED BY <1>6, <2>1 DEF Statuses
<1>10. ASSUME ExpireQuote \/ CancelQuote PROVE DocIsSo'
  BY <1>6, <1>10 DEF ExpireQuote, CancelQuote, On, Only, Statuses
<1>11. ASSUME AcceptQuote PROVE DocIsSo'
  <2>1. Accepted /\ page' = page /\ page[1] = "quote" /\ doc.status \notin {"ACCEPTED", "CANCELLED"}
    BY <1>11 DEF AcceptQuote, On, Only
  <2>2. /\ doc' \in DocShown /\ doc'.status = "ACCEPTED" /\ doc'.linked
        /\ doc'.lines = doc.lines /\ doc'.grand = doc.grand /\ doc'.bills = doc.bills + 1
    BY <1>0, <2>1, AcceptanceChanges
  <2>3. doc.bills = 0
    BY <1>0, <2>1 DEF DocIsSo, QuoteIsSo, DocShown
  <2>4. QuoteIsSo(doc')
    BY <2>2, <2>3 DEF QuoteIsSo
  <2> QED BY <1>0, <2>1, <2>2, <2>4 DEF DocIsSo
<1>12. ASSUME NEW amount \in Payments, PayInWorkspace(amount) \/ PayOnOwnPage(amount) PROVE DocIsSo'
  <2>1. amount \in Nat \ {0}
    BY DEF ScreensAssumption
  <2>2. page' = page /\ page[1] = "invoice"
    BY <1>12 DEF PayInWorkspace, PayOnOwnPage, CanPay, On, Only
  <2>3. PICK status : Paid(amount, status) /\ (status = StatusPaid(amount) \/ (doc.status = "VOID" /\ status = "VOID"))
    BY <1>12 DEF PayInWorkspace, PayOnOwnPage, Only
  <2>4. doc' \in DocShown /\ InvoiceIsSo(doc') /\ doc'.lines = doc.lines /\ doc'.grand = doc.grand
    BY <1>0, <2>1, <2>2, <2>3, PaidIsSo
  <2> QED BY <1>0, <2>2, <2>4 DEF DocIsSo
<1>13. ASSUME SubmitEinvoice PROVE DocIsSo'
  <2>1. page' = page /\ \E e \in {"ACCEPTED", "SENT"} : doc' = [doc EXCEPT !.einvoice = e]
    BY <1>13 DEF SubmitEinvoice, Only
  <2>2. PICK e \in {"ACCEPTED", "SENT"} : doc' = [doc EXCEPT !.einvoice = e]
    BY <2>1
  <2>3. doc' \in DocShown
    BY <1>0, <2>2 DEF DocShown
  <2>4. doc'.status = doc.status /\ doc'.lines = doc.lines /\ doc'.grand = doc.grand /\ doc'.paid = doc.paid
        /\ doc'.balance = doc.balance /\ doc'.bills = doc.bills /\ doc'.linked = doc.linked
    BY <1>0, <2>2 DEF DocShown
  <2> QED BY <1>0, <2>1, <2>3, <2>4 DEF DocIsSo, InvoiceIsSo, QuoteIsSo
<1>14. ASSUME LinkPosSale PROVE DocIsSo'
  <2>1. page' = page /\ doc' = [doc EXCEPT !.onSale = ~doc.onSale]
    BY <1>14 DEF LinkPosSale, Only
  <2>2. doc' \in DocShown
    BY <1>0, <2>1 DEF DocShown
  <2>3. doc'.status = doc.status /\ doc'.lines = doc.lines /\ doc'.grand = doc.grand /\ doc'.paid = doc.paid
        /\ doc'.balance = doc.balance /\ doc'.bills = doc.bills /\ doc'.linked = doc.linked
    BY <1>0, <2>1 DEF DocShown
  <2> QED BY <1>0, <2>1, <2>2, <2>3 DEF DocIsSo, InvoiceIsSo, QuoteIsSo
<1>15. \/ doc' = doc /\ page' = page
       \/ OpenTill \/ Leave
       \/ \E kind \in Kinds, view \in Views : OpenDocuments(kind, view)
       \/ SubmitInvoice \/ SubmitQuote \/ SubmitCreditNote
       \/ SendInvoice \/ VoidInvoice \/ SubmitEinvoice \/ LinkPosSale
       \/ \E amount \in Payments : PayInWorkspace(amount) \/ PayOnOwnPage(amount)
       \/ SendQuote \/ AcceptQuote \/ ExpireQuote \/ CancelQuote \/ VoidNote
  BY DEF ScreenNext, screenVars, AddLine, ChangeLine, Sell, ClosePanel, ChooseOrder, Show
<1> QED BY <1>1, <1>2, <1>3, <1>4, <1>5, <1>7, <1>8, <1>9, <1>10, <1>11, <1>12, <1>13, <1>14, <1>15

-----------------------------------------------------------------------------
LEMMA PagesStaySo ==
  ASSUME ScreensAssumption, ScreensInv, [ScreenNext]_screenVars
  PROVE  /\ page' \in {Away, Till} \cup Kinds \X Views
         /\ form' \in Seq(Lines \cup {BlankLine})
<1>0. page \in {Away, Till} \cup Kinds \X Views /\ form \in Seq(Lines \cup {BlankLine})
  BY DEF ScreensInv
<1>1. page' \in {Away, Till} \cup Kinds \X Views
  <2>1. \/ page' = page \/ OpenTill \/ Leave
        \/ \E kind \in Kinds, view \in Views : OpenDocuments(kind, view)
    BY DEF ScreenNext, screenVars, AddLine, SubmitInvoice, SubmitQuote, SubmitCreditNote,
           Submit, ChangeLine, SendInvoice, VoidInvoice, SubmitEinvoice, LinkPosSale, PayInWorkspace, PayOnOwnPage,
           SendQuote, AcceptQuote, ExpireQuote, CancelQuote, VoidNote, Only, Sell, ClosePanel, ChooseOrder, Show
  <2>2. ASSUME NEW kind \in Kinds, NEW view \in Views, OpenDocuments(kind, view)
        PROVE  page' \in Kinds \X Views
    BY <2>2 DEF OpenDocuments
  <2> QED BY <1>0, <2>1, <2>2 DEF OpenTill, Leave
<1>2. NewForm \in Seq(Lines \cup {BlankLine})
  BY DEF NewForm
<1>3. CASE form' = form \/ form' = NewForm
  <2> HIDE DEF NewForm, BlankLine
  <2> QED BY <1>0, <1>1, <1>2, <1>3
<1>4. CASE AddLine
  BY <1>0, <1>4 DEF AddLine
<1>5. ASSUME NEW i \in 1..MaxLines, NEW line \in Lines, ChangeLine(i, line)
      PROVE  form' \in Seq(Lines \cup {BlankLine})
  <2>1. i \in DOMAIN form /\ form' = [form EXCEPT ![i] = line]
    BY <1>5 DEF ChangeLine
  <2> QED BY <1>0, <2>1
<1>6. \/ form' = form \/ form' = NewForm \/ AddLine
      \/ \E i \in 1..MaxLines, line \in Lines : ChangeLine(i, line)
  BY DEF ScreenNext, screenVars, OpenDocuments, OpenTill, Leave, SubmitInvoice, SubmitQuote, SubmitCreditNote,
         Submit, SendInvoice, VoidInvoice, SubmitEinvoice, LinkPosSale, PayInWorkspace, PayOnOwnPage,
         SendQuote, AcceptQuote, ExpireQuote, CancelQuote, VoidNote, Only, Sell, ClosePanel, ChooseOrder, Show
<1> QED BY <1>1, <1>3, <1>4, <1>5, <1>6

LEMMA ScreensStaySo ==
  ASSUME ScreensAssumption, ScreensInv, [ScreenNext]_screenVars
  PROVE  ScreensInv'
BY PagesStaySo, DocStaysSo, SalesStaySo DEF ScreensInv, DocIsSo

LEMMA ScreensAreSo == ScreenSpec => []ScreensInv
<1>1. ScreenInit => ScreensInv
  BY ScreensAssumption, ScreensAtFirst
<1>2. ScreensInv /\ [ScreenNext]_screenVars => ScreensInv'
  BY ScreensAssumption, ScreensStaySo
<1> QED BY <1>1, <1>2, PTL DEF ScreenSpec

-----------------------------------------------------------------------------
(***************************************************************************)
(* Whatever buttons are pressed, in the workspace or on a document's own   *)
(* page, for any lines and payments: what recordPayment, handleAccept and  *)
(* the other handlers leave to be shown as paid, partly paid, a draft,     *)
(* sent or accepted is so.                                                 *)
(***************************************************************************)
THEOREM ScreensShowWhatIsSo == ScreenSpec => []ShownIsSo
<1>1. ScreensInv => ShownIsSo
  <2> SUFFICES ASSUME ScreensInv PROVE ShownIsSo
    OBVIOUS
  <2>1. page[1] = "invoice" => InvoiceIsSo(doc)
    BY DEF ScreensInv
  <2>2. page[1] = "quote" => QuoteIsSo(doc)
    BY DEF ScreensInv
  <2> QED BY <2>1, <2>2 DEF ShownIsSo, InvoiceIsSo, QuoteIsSo
<1> QED BY <1>1, ScreensAreSo, PTL

(***************************************************************************)
(* On a document's own page what has ended stays so.                       *)
(***************************************************************************)
LEMMA OwnPageStep ==
  ASSUME ScreensAssumption, ScreensInv, [ScreenNext]_screenVars, OnOwnPage, page' = page
  PROVE  /\ doc.status \in {"VOID", "CANCELLED"} => doc'.status \in {"VOID", "CANCELLED"}
         /\ doc.einvoice = "ACCEPTED" => doc'.einvoice = "ACCEPTED"
<1>0. DocIsSo /\ doc \in DocShown
  BY DEF ScreensInv, DocIsSo
<1> DEFINE Kept == /\ doc.status \in {"VOID", "CANCELLED"} => doc'.status \in {"VOID", "CANCELLED"}
                   /\ doc.einvoice = "ACCEPTED" => doc'.einvoice = "ACCEPTED"
<1>1. CASE doc' = doc
  BY <1>1
<1>2. ASSUME NEW status \in Statuses, Becomes(status),
             doc.status \in {"VOID", "CANCELLED"} => status \in {"VOID", "CANCELLED"}
      PROVE  Kept
  BY <1>0, <1>2, StatusChanges
<1>3. CASE SendInvoice \/ VoidInvoice \/ VoidNote
  BY <1>2, <1>3 DEF SendInvoice, VoidInvoice, VoidNote, Only, Statuses
<1>4. CASE SendQuote \/ ExpireQuote
  <2>1. \/ Becomes("SENT") /\ doc.status \in {"DRAFT", "SENT", "EXPIRED"}
        \/ Becomes("EXPIRED") /\ doc.status = "SENT"
    BY <1>4 DEF SendQuote, ExpireQuote, Only
  <2> QED BY <1>2, <2>1 DEF Statuses
<1>5. CASE CancelQuote
  BY <1>2, <1>5 DEF CancelQuote, Only, Statuses
<1>6. CASE AcceptQuote
  <2>1. Accepted /\ doc.status \notin {"ACCEPTED", "CANCELLED"} /\ QuoteIsSo(doc)
    BY <1>0, <1>6 DEF AcceptQuote, On, Only, DocIsSo
  <2>2. doc.status \notin {"VOID", "CANCELLED"}
    BY <2>1 DEF QuoteIsSo
  <2> QED BY <1>0, <2>1, <2>2, AcceptanceChanges
<1>7. ASSUME NEW amount \in Payments, PayOnOwnPage(amount) PROVE Kept
  <2> DEFINE status == IF doc.status = "VOID" THEN "VOID" ELSE StatusPaid(amount)
  <2>1. amount \in Nat \ {0}
    BY DEF ScreensAssumption
  <2>2. Paid(amount, status) /\ page[1] = "invoice"
    BY <1>7 DEF PayOnOwnPage, CanPay, On, Only
  <2>3. doc.status # "CANCELLED"
    BY <1>0, <2>2 DEF DocIsSo, InvoiceIsSo
  <2>4. status = StatusPaid(amount) \/ (doc.status = "VOID" /\ status = "VOID")
    OBVIOUS
  <2>5. doc.status = "VOID" => status = "VOID"
    OBVIOUS
  <2> HIDE DEF status
  <2>6. doc'.status = status /\ doc'.einvoice = doc.einvoice
    BY <1>0, <2>1, <2>2, <2>4, PaidIsSo
  <2> QED BY <2>3, <2>5, <2>6
<1>8. CASE SubmitEinvoice
  <2>1. doc' = [doc EXCEPT !.einvoice = IF OnOwnPage /\ @ = "ACCEPTED" THEN "ACCEPTED" ELSE "SENT"]
    BY <1>8 DEF SubmitEinvoice, Only
  <2>2. doc'.status = doc.status
    BY <1>0, <2>1 DEF DocShown
  <2>3. doc.einvoice = "ACCEPTED" => doc'.einvoice = "ACCEPTED"
    BY <1>0, <2>1 DEF DocShown
  <2> QED BY <2>2, <2>3
<1>9. CASE LinkPosSale
  <2>1. doc' = [doc EXCEPT !.onSale = ~doc.onSale]
    BY <1>9 DEF LinkPosSale, Only
  <2>2. doc'.status = doc.status /\ doc'.einvoice = doc.einvoice
    BY <1>0, <2>1 DEF DocShown
  <2> QED BY <2>2
<1>10. ~Leave /\ ~OpenTill /\ \A kind \in Kinds, view \in Views : ~OpenDocuments(kind, view)
  <2>1. page # Away
    BY DEF OnOwnPage, Away
  <2> QED BY <2>1 DEF Leave, OpenTill, OpenDocuments
<1>11. ~InWorkspace
  BY DEF InWorkspace, OnOwnPage
<1>12. \/ doc' = doc
       \/ SendInvoice \/ VoidInvoice \/ SubmitEinvoice \/ LinkPosSale
       \/ \E amount \in Payments : PayOnOwnPage(amount)
       \/ SendQuote \/ AcceptQuote \/ ExpireQuote \/ CancelQuote \/ VoidNote
  BY <1>10, <1>11 DEF ScreenNext, screenVars, AddLine, ChangeLine, Sell, ClosePanel, ChooseOrder, Show,
                      SubmitInvoice, SubmitQuote, SubmitCreditNote, Submit, PayInWorkspace
<1> QED BY <1>1, <1>3, <1>4, <1>5, <1>6, <1>7, <1>8, <1>9, <1>12

(***************************************************************************)
(* On a document's own page no handler takes an invoice out of VOID, a     *)
(* quote out of CANCELLED, or an e-invoice out of ACCEPTED, however the    *)
(* document came to be so.                                                 *)
(***************************************************************************)
THEOREM EndedStaysSoOnOwnPage == ScreenSpec => OwnPageIsFinal
<1> DEFINE Final == OnOwnPage /\ page' = page => \A i \in 1..2 : Ended[i] => Ended'[i]
<1>1. ScreensInv /\ [ScreenNext]_screenVars => Final
  <2> SUFFICES ASSUME ScreensInv, [ScreenNext]_screenVars, OnOwnPage, page' = page, NEW i \in 1..2, Ended[i]
               PROVE  Ended'[i]
    OBVIOUS
  <2>1. /\ doc.status \in {"VOID", "CANCELLED"} => doc'.status \in {"VOID", "CANCELLED"}
        /\ doc.einvoice = "ACCEPTED" => doc'.einvoice = "ACCEPTED"
    BY ScreensAssumption, OwnPageStep
  <2>2. CASE i = 1
    BY <2>1, <2>2 DEF Ended
  <2>3. CASE i = 2
    BY <2>1, <2>3 DEF Ended
  <2> QED BY <2>2, <2>3
<1>2. ScreenSpec => [][Final]_screenVars
  <2> HIDE DEF Final
  <2> QED BY <1>1, ScreensAreSo, PTL DEF ScreenSpec
<1> QED BY <1>2 DEF OwnPageIsFinal

(***************************************************************************)
(* For forms of any number of lines, what calculateTotals of a screen      *)
(* makes of them is what calculateQuoteTotals of the API would, but for    *)
(* the half cents of the tax, and for a cent a line and one for the tax    *)
(* where quantities have fractions; and the draft invoice of a sale comes  *)
(* to what the till took for it.                                           *)
(***************************************************************************)
THEOREM FormsComeToWhatTheApiSays == ScreenSpec => []FormNearApi
<1>1. ScreensInv => FormNearApi
  <2> SUFFICES ASSUME ScreensInv PROVE FormNearApi
    OBVIOUS
  <2>1. doc \in DocShown /\ doc.lines \in Seq(ValidLine)
    BY DEF ScreensInv, DocShown
  <2>2. doc.lines \in Seq(Line)
    <3>1. ValidLine \subseteq Line
      BY DEF ValidLine
    <3> QED BY <2>1, <3>1
  <2>3. ASSUME Accepts(doc.lines), NEW grand \in ApiGrandTotals(doc.lines)
        PROVE  IF \A i \in DOMAIN doc.lines : doc.lines[i].qty % 100 = 0
               THEN Near(doc.grand, grand, Cardinality(ApiGrandTotals(doc.lines)) - 1)
               ELSE Near(doc.grand, grand, 1 + Len(doc.lines))
    <3>1. doc.grand \in WebGrandTotals(doc.lines)
      BY <2>3 DEF ScreensInv, Accepts
    <3>2. Near(doc.grand, grand, 1 + Len(doc.lines))
      BY <2>2, <2>3, <3>1, TotalsAreNear
    <3>3. (\A i \in DOMAIN doc.lines : doc.lines[i].qty % 100 = 0)
            => Near(doc.grand, grand, Cardinality(ApiGrandTotals(doc.lines)) - 1)
      BY <2>2, <2>3, <3>1, WholeTotalsAreNear
    <3> QED BY <3>2, <3>3
  <2>4. ASSUME NEW i \in 1..till.sequence - 2
        PROVE  till.orders[i].total \in ApiGrandTotals(<<DraftItem(till.orders[i])>>)
    <3>1. till.orders \in Seq(Order) /\ Len(till.orders) = till.sequence /\ till.sequence \in Nat
      BY DEF ScreensInv, SalesAreSo, TillState
    <3>2. till.orders[i] \in Order
      <4>1. i \in 1..Len(till.orders)
        BY <3>1
      <4> QED BY <3>1, <4>1
    <3>3. till.orders[i].net \in Nat /\ till.orders[i].total = till.orders[i].net + Sst(till.orders[i].net)
      BY <3>2 DEF ScreensInv, SalesAreSo, Order
    <3> QED BY <3>3, SaleIsExact
  <2> QED BY <2>3, <2>4 DEF FormNearApi
<1> QED BY <1>1, ScreensAreSo, PTL

(***************************************************************************)
(* For invoices of any number of lines, credit notes for one line each, as *)
(* resolveItems fills them in, can be made and add up to the invoice, but  *)
(* for the rounding of each; and two over half of every quantity credit no *)
(* more than it, but for theirs.                                           *)
(***************************************************************************)
THEOREM CreditsInPartsAddUp == ScreenSpec => []CreditedInParts
<1>1. ScreensInv => CreditedInParts
  <2> SUFFICES ASSUME ScreensInv, Accepts(doc.lines), NEW grand \in ApiGrandTotals(doc.lines)
               PROVE  LET n == Len(doc.lines)
                          h == HalfCents(doc.lines) IN
                      /\ ByLine(doc.lines) # {}
                      /\ \A sum \in ByLine(doc.lines) : Near(100 * sum, 100 * grand, 50 * (n + 1) + 106 * h)
                      /\ \A half \in CreditGrandTotals(doc.lines, Halves(doc.lines)) :
                           200 * half <= 100 * grand + 106 * n + 150
    BY DEF CreditedInParts
  <2>1. doc.lines \in Seq(ValidLine)
    BY DEF ScreensInv, DocShown
  <2> QED BY <2>1, NotesAreNear, HalvesAreWithin
<1> QED BY <1>1, ScreensAreSo, PTL
=============================================================================
