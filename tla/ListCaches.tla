------------------------------ MODULE ListCaches ------------------------------
(***************************************************************************)
(* The lists the API keeps in Redis: the open tickets (tickets.service.ts) *)
(* and the products, all of them and those of a branch (pos.service.ts).   *)
(* A reader that misses selects the list and caches it for 60 seconds; a   *)
(* writer changes its table and then deletes the keys it thinks of.        *)
(* RedisCacheService swallows every error, so a read may miss for no       *)
(* reason, and a fill or a deletion may not happen.                        *)
(*                                                                         *)
(* Of a row only what decides in which lists it is matters; that it has    *)
(* changed otherwise is its edition.                                       *)
(***************************************************************************)
EXTENDS Integers, FiniteSets

CONSTANTS
  Tickets, Products, Branches,
  Readers, Writers,   \* requests in flight at a time
  Wanted,             \* bound: the lists anybody asks for
  MaxWrites           \* bound: changes made to the tables

OpenKey == "tickets:status:OPEN"
AllKey  == "products:all"
Keys    == {OpenKey, AllKey} \cup Branches

ASSUME CacheAssumption ==
  /\ {OpenKey, AllKey} \cap Branches = {}
  /\ Tickets \cap Products = {}
  /\ Wanted \subseteq Keys
  /\ MaxWrites \in Nat

VARIABLES
  ticket, product,   \* the tables
  cache,             \* what Redis has under each key
  reader, writer,    \* requests in flight
  writes             \* how many changes there were

tables == <<ticket, product, writes>>
listVars   == <<ticket, product, cache, reader, writer, writes>>

Status == {"OPEN", "IN_PROGRESS", "RESOLVED", "CLOSED"}
NoRow  == [edition |-> -1]

TicketRow  == [status : Status, edition : 0..MaxWrites]
ProductRow == [branch : Branches, edition : 0..MaxWrites]

(* The list a key stands for, as the tables are.                           *)
ListOf(key) ==
  IF key = OpenKey
  THEN {<<t, ticket[t].edition>> : t \in {u \in Tickets : ticket[u] # NoRow /\ ticket[u].status = "OPEN"}}
  ELSE {<<p, product[p].edition>> : p \in {q \in Products :
          product[q] # NoRow /\ (key = AllKey \/ product[q].branch = key)}}

(***************************************************************************)
(* late is not in the code: it says that a change to the list was          *)
(* committed after the list was selected and will not delete it.           *)
(***************************************************************************)
Empty  == [list |-> {}, ttl |-> -1, late |-> FALSE]
List   == SUBSET ((Tickets \cup Products) \X (0..MaxWrites))
Idle   == [pc |-> "idle"]

CachedList == [list : List, ttl : {0, 60}, late : BOOLEAN]
Selected   == [pc : {"selected"}, key : Keys, list : List, late : BOOLEAN]
Checked    == [pc : {"checked"}, ticket : Tickets, seen : Status, status : Status]
Written    == [pc : {"written"}, keys : SUBSET Keys]

ListsTypeOK ==
  /\ ticket \in [Tickets -> {NoRow} \cup TicketRow]
  /\ product \in [Products -> {NoRow} \cup ProductRow]
  /\ cache \in [Keys -> {Empty} \cup CachedList]
  /\ reader \in [Readers -> {Idle} \cup Selected]
  /\ writer \in [Writers -> {Idle} \cup Checked \cup Written]
  /\ writes \in 0..MaxWrites

(* The tables may have rows when the API starts.                           *)
ListsInit ==
  /\ ticket \in [Tickets -> {NoRow, [status |-> "OPEN", edition |-> 0]}]
  /\ product \in [Products -> {NoRow} \cup [branch : Branches, edition : {0}]]
  /\ cache = [k \in Keys |-> Empty]
  /\ reader = [r \in Readers |-> Idle]
  /\ writer = [w \in Writers |-> Idle]
  /\ writes = 0

-----------------------------------------------------------------------------
(***************************************************************************)
(* listTickets and listProducts.  A hit changes nothing; after a miss the  *)
(* list is selected, and cached by the next call.                          *)
(***************************************************************************)
Select(r, k) ==
  /\ reader[r] = Idle
  /\ reader' = [reader EXCEPT ![r] = [pc |-> "selected", key |-> k, list |-> ListOf(k), late |-> FALSE]]
  /\ UNCHANGED <<tables, cache, writer>>

(* Fault: cached until somebody deletes it.                                *)
FillForGood(r) ==
  /\ reader[r] # Idle
  /\ cache' = [cache EXCEPT ![reader[r].key] =
       [list |-> reader[r].list, ttl |-> 0, late |-> reader[r].late]]
  /\ reader' = [reader EXCEPT ![r] = Idle]
  /\ UNCHANGED <<tables, writer>>

Fill(r) ==
  /\ reader[r] # Idle
  /\ cache' = [cache EXCEPT ![reader[r].key] =
       [list |-> reader[r].list, ttl |-> 60, late |-> reader[r].late]]
  /\ reader' = [reader EXCEPT ![r] = Idle]
  /\ UNCHANGED <<tables, writer>>

FillFails(r) ==
  /\ reader[r] # Idle
  /\ reader' = [reader EXCEPT ![r] = Idle]
  /\ UNCHANGED <<tables, cache, writer>>

(* The 60 seconds are over.                                                *)
Expire(k) ==
  /\ cache[k].ttl > 0
  /\ cache' = [cache EXCEPT ![k] = Empty]
  /\ UNCHANGED <<tables, reader, writer>>

-----------------------------------------------------------------------------
(***************************************************************************)
(* A change is committed that the given keys are deleted for.  Lists it    *)
(* changes are late from now on where they have been selected and not yet  *)
(* cached, and where the deletion will not reach them.                     *)
(***************************************************************************)
Committed(w, keys) ==
  LET changed == {k \in Keys : ListOf(k)' # ListOf(k)} IN
  /\ writes < MaxWrites
  /\ writes' = writes + 1
  /\ writer' = [writer EXCEPT ![w] = [pc |-> "written", keys |-> keys]]
  /\ reader' = [r \in Readers |->
       IF reader[r] # Idle /\ reader[r].key \in changed THEN [reader[r] EXCEPT !.late = TRUE]
       ELSE reader[r]]
  /\ cache' = [k \in Keys |->
       IF cache[k] # Empty /\ k \in changed \ keys THEN [cache[k] EXCEPT !.late = TRUE]
       ELSE cache[k]]

Delete(w) ==
  /\ writer[w].pc = "written"
  /\ cache' = [k \in Keys |-> IF k \in writer[w].keys THEN Empty ELSE cache[k]]
  /\ writer' = [writer EXCEPT ![w] = Idle]
  /\ UNCHANGED <<tables, reader>>

(* Redis fails, or the process dies before it gets there.                  *)
DeleteFails(w) ==
  /\ writer[w].pc = "written"
  /\ cache' = [k \in Keys |->
       IF k \in writer[w].keys /\ cache[k] # Empty THEN [cache[k] EXCEPT !.late = TRUE] ELSE cache[k]]
  /\ writer' = [writer EXCEPT ![w] = Idle]
  /\ UNCHANGED <<tables, reader>>

-----------------------------------------------------------------------------
(***************************************************************************)
(* tickets.service.ts.  update (PATCH) may set any status; transition is   *)
(* checked against the status it has read, and then made by id.            *)
(***************************************************************************)
TicketBecomes(t, status) ==
  ticket' = [ticket EXCEPT ![t] = [status |-> status, edition |-> writes + 1]]

CreateTicket(w, t, status) ==
  /\ writer[w] = Idle
  /\ ticket[t] = NoRow
  /\ TicketBecomes(t, status)
  /\ UNCHANGED product
  /\ Committed(w, {OpenKey})

UpdateTicket(w, t, status) ==
  /\ writer[w] = Idle
  /\ ticket[t] # NoRow
  /\ TicketBecomes(t, status)
  /\ UNCHANGED product
  /\ Committed(w, {OpenKey})

(* Fault: a closed ticket may be opened again.                             *)
TransitionsAndReopening(from) ==
  CASE from = "OPEN"        -> {"IN_PROGRESS", "RESOLVED", "CLOSED"}
    [] from = "IN_PROGRESS" -> {"OPEN", "RESOLVED"}
    [] from = "RESOLVED"    -> {"IN_PROGRESS", "CLOSED"}
    [] from = "CLOSED"      -> {"OPEN"}

TRANSITIONS(from) ==
  CASE from = "OPEN"        -> {"IN_PROGRESS", "RESOLVED", "CLOSED"}
    [] from = "IN_PROGRESS" -> {"OPEN", "RESOLVED"}
    [] from = "RESOLVED"    -> {"IN_PROGRESS", "CLOSED"}
    [] from = "CLOSED"      -> {}

CheckTransition(w, t, status) ==
  /\ writer[w] = Idle
  /\ ticket[t] # NoRow
  /\ status \in TRANSITIONS(ticket[t].status)
  /\ writer' = [writer EXCEPT ![w] =
       [pc |-> "checked", ticket |-> t, seen |-> ticket[t].status, status |-> status]]
  /\ UNCHANGED <<tables, cache, reader>>

(* Fault: the key is deleted, and then the row is written.                 *)
TransitionAfterDelete(w) ==
  /\ writer[w].pc = "checked"
  /\ TicketBecomes(writer[w].ticket, writer[w].status)
  /\ writes < MaxWrites
  /\ writes' = writes + 1
  /\ writer' = [writer EXCEPT ![w] = Idle]
  /\ UNCHANGED <<product, cache, reader>>

MakeTransition(w) ==
  /\ writer[w].pc = "checked"
  /\ TicketBecomes(writer[w].ticket, writer[w].status)
  /\ UNCHANGED product
  /\ Committed(w, {OpenKey})

-----------------------------------------------------------------------------
(***************************************************************************)
(* pos.service.ts.  Product edits know the product's branch.  A sale or a  *)
(* refund changes the stock of its products and thinks of its own branch:  *)
(* that they are sold where they belong is not checked.                    *)
(***************************************************************************)
ProductBecomes(p, b) ==
  product' = [product EXCEPT ![p] = [branch |-> b, edition |-> writes + 1]]

KeysOf(b) == {AllKey, b}

CreateProduct(w, p, b) ==
  /\ writer[w] = Idle
  /\ product[p] = NoRow
  /\ ProductBecomes(p, b)
  /\ UNCHANGED ticket
  /\ Committed(w, KeysOf(b))

UpdateProduct(w, p) ==
  /\ writer[w] = Idle
  /\ product[p] # NoRow
  /\ ProductBecomes(p, product[p].branch)
  /\ UNCHANGED ticket
  /\ Committed(w, KeysOf(product[p].branch))

DeleteProduct(w, p) ==
  /\ writer[w] = Idle
  /\ product[p] # NoRow
  /\ product' = [product EXCEPT ![p] = NoRow]
  /\ UNCHANGED ticket
  /\ Committed(w, KeysOf(product[p].branch))

SellOrRefund(w, p, b) ==
  /\ writer[w] = Idle
  /\ product[p] # NoRow
  /\ ProductBecomes(p, product[p].branch)
  /\ UNCHANGED ticket
  /\ Committed(w, KeysOf(b))

-----------------------------------------------------------------------------
ReaderStep == \E r \in Readers : Fill(r) \/ FillFails(r)
WriterStep == \E w \in Writers : MakeTransition(w) \/ Delete(w) \/ DeleteFails(w)

ListsNext ==
  \/ \E r \in Readers, k \in Wanted : Select(r, k)
  \/ ReaderStep \/ WriterStep
  \/ \E k \in Keys : Expire(k)
  \/ \E w \in Writers, t \in Tickets, status \in Status :
       CreateTicket(w, t, status) \/ UpdateTicket(w, t, status) \/ CheckTransition(w, t, status)
  \/ \E w \in Writers, p \in Products :
       \/ UpdateProduct(w, p) \/ DeleteProduct(w, p)
       \/ \E b \in Branches : CreateProduct(w, p, b) \/ SellOrRefund(w, p, b)

ListsSpec == ListsInit /\ [][ListsNext]_listVars

(***************************************************************************)
(* Requests under way go on, and Redis lets no key outlive its time.       *)
(***************************************************************************)
Fairness ==
  /\ \A r \in Readers : WF_listVars(Fill(r) \/ FillFails(r))
  /\ \A w \in Writers : WF_listVars(Delete(w) \/ DeleteFails(w))
  /\ \A k \in Keys : WF_listVars(Expire(k))

ListsFairSpec == ListsSpec /\ Fairness
-----------------------------------------------------------------------------
(***************************************************************************)
(* A cached list that is not what the table says is about to be deleted,   *)
(* or a change came between its selection and its caching, or a deletion   *)
(* failed, or a product was sold in another branch: no other order of two  *)
(* requests leaves a stale list behind.                                    *)
(***************************************************************************)
StaleOnlyIfLate ==
  \A k \in Keys : cache[k] # Empty /\ ~cache[k].late =>
    \/ cache[k].list = ListOf(k)
    \/ \E w \in Writers : writer[w].pc = "written" /\ k \in writer[w].keys

(***************************************************************************)
(* A closed ticket is opened again only by PATCH, or by a transition that  *)
(* had read it before it was closed.                                       *)
(***************************************************************************)
ClosedUnlessLate ==
  [][\A t \in Tickets : ticket[t] # NoRow /\ ticket[t].status = "CLOSED" /\ ticket'[t].status # "CLOSED" =>
       \E w \in Writers :
         IF writer[w] = Idle THEN \E status \in Status : UpdateTicket(w, t, status)
         ELSE writer[w].pc = "checked" /\ writer[w].ticket = t /\ writer[w].seen # "CLOSED"]_listVars

(***************************************************************************)
(* Once nothing changes any more every cached list becomes right and stays *)
(* right, whatever went wrong before: that is what the 60 seconds are for. *)
(***************************************************************************)
ListsSettle == <>[](\A k \in Keys : cache[k] = Empty \/ cache[k].list = ListOf(k))
=============================================================================
