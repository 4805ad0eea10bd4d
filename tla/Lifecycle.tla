----------------------------- MODULE Lifecycle -----------------------------
(***************************************************************************)
(* What the platform promises of every business record, whoever calls it   *)
(* and however the calls interleave: a record is registered once, in its   *)
(* initial status; its business fields are edited only in an editable      *)
(* status; its status moves along the entity's graph and nothing else      *)
(* changes with it; each accepted change advances the version by one; and  *)
(* a removed record never changes again.                                   *)
(***************************************************************************)
EXTENDS Naturals, Workflow

CONSTANTS
  Records,        \* the records, of one or several tables
  Contents,       \* the values the business fields of a record can have
  Graph,          \* Graph[x]: the status graph of record x
  InitialStatus,  \* InitialStatus[x]: the status x is registered in
  EditableIn        \* EditableIn[x]: the statuses in which x's fields may change

VARIABLE book     \* book[x]: the stored row of x; version 0 when there is none

Stored(row) == row.version > 0
Live(row)   == Stored(row) /\ ~row.deleted

\* The table may start empty or with seeded rows, in any status.
LifecycleInit ==
  \A x \in Records :
    \/ ~Stored(book[x])
    \/ Live(book[x]) /\ book[x].version = 1 /\ book[x].status \in DOMAIN Graph[x]

\* A write takes the next version; the first one is version 1.
Write(x, status, fields) ==
  book' = [book EXCEPT ![x] = [status |-> status, version |-> book[x].version + 1,
                               fields |-> fields, deleted |-> FALSE]]

Register(x) ==
  /\ book[x].version = 0
  /\ \E c \in Contents : Write(x, InitialStatus[x], c)

Edit(x) ==
  /\ Live(book[x])
  /\ book[x].status \in EditableIn[x]
  /\ \E c \in Contents : Write(x, book[x].status, c)

Move(x) ==
  /\ Live(book[x])
  /\ \E s \in DOMAIN Graph[x] :
       /\ CanTransition(Graph[x], book[x].status, s)
       /\ Write(x, s, book[x].fields)

Remove(x) ==
  /\ Live(book[x])
  /\ book' = [book EXCEPT ![x].deleted = TRUE]

LifecycleNext == \E x \in Records : Register(x) \/ Edit(x) \/ Move(x) \/ Remove(x)

LifecycleSpec == LifecycleInit /\ [][LifecycleNext]_book
=============================================================================
