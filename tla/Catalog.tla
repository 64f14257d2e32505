------------------------------- MODULE Catalog -------------------------------
(***************************************************************************)
(* What the statements of tiny-sql promise their clients, without columns, *)
(* values or conditions: tables are named by a database and a name, a      *)
(* table is the sequence of its rows, and every statement either is        *)
(* refused and changes nothing, or reads, or changes one table of the      *)
(* session's own database in one of three ways.                            *)
(*                                                                         *)
(* Module Storage implements it.                                           *)
(***************************************************************************)
EXTENDS Integers, Sequences

CONSTANTS
  Session,      \* client sessions
  NoDatabase    \* no database chosen

VARIABLES
  store,    \* rows of each table, by <<database, table>>
  chosen,   \* the database of each session
  told      \* error code of the last statement, 0 for success

vars == <<store, chosen, told>>

Others(p) == DOMAIN store \ {p}

Refuse == told' # 0 /\ UNCHANGED <<store, chosen>>

Read == told' = 0 /\ UNCHANGED <<store, chosen>>

Choose(s) ==
  /\ told' = 0
  /\ chosen' = [chosen EXCEPT ![s] = chosen'[s]]
  /\ UNCHANGED store

\* A new table is empty, whatever had its name before.
Create(s, p) ==
  /\ chosen[s] = p[1] /\ chosen[s] # NoDatabase /\ p \notin DOMAIN store
  /\ DOMAIN store' = DOMAIN store \cup {p}
  /\ store'[p] = <<>>
  /\ \A q \in Others(p) : store'[q] = store[q]
  /\ told' = 0
  /\ UNCHANGED chosen

Drop(s, p) ==
  /\ chosen[s] = p[1] /\ p \in DOMAIN store
  /\ store' = [q \in Others(p) |-> store[q]]
  /\ told' = 0
  /\ UNCHANGED chosen

\* One row more, behind the rows that are there.
Insert(s, p) ==
  /\ chosen[s] = p[1] /\ p \in DOMAIN store
  /\ DOMAIN store' = DOMAIN store
  /\ Len(store'[p]) = Len(store[p]) + 1
  /\ SubSeq(store'[p], 1, Len(store[p])) = store[p]
  /\ \A q \in Others(p) : store'[q] = store[q]
  /\ told' = 0
  /\ UNCHANGED chosen

Init ==
  /\ store = [p \in {} |-> <<>>]
  /\ chosen = [s \in Session |-> NoDatabase]
  /\ told = 0

Next ==
  \/ Refuse \/ Read
  \/ \E s \in Session :
       \/ Choose(s)
       \/ \E p \in DOMAIN store \cup DOMAIN store' : Create(s, p) \/ Drop(s, p) \/ Insert(s, p)

Spec == Init /\ [][Next]_vars

=============================================================================
