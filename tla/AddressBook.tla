----------------------------- MODULE AddressBook ----------------------------
(***************************************************************************)
(* The addresses of one customer.  Requests that save one carry an         *)
(* idempotency key, may be sent again while the first is still running,    *)
(* and may ask for the address to be the default.  Transactions are READ   *)
(* COMMITTED; a row another transaction has changed is waited for.         *)
(***************************************************************************)
EXTENDS Naturals, FiniteSets

CONSTANTS
    Keys,        \* idempotency keys; an address is known by the key that saved it
    Saves,       \* requests
    KeyOf,       \* the key of each
    AsDefault    \* what each asks of is_default: "YES", "NO" or "UNSAID"

VARIABLES
    book,    \* address
    save     \* requests under way

addressBook == <<book, save>>

-----------------------------------------------------------------------------
NoKey == "none"
NoAddress == [saved |-> FALSE, archived |-> FALSE, default |-> FALSE]
NotSaving == [step |-> "NONE", target |-> {}, unsets |-> {}, first |-> FALSE]

Present == {k \in Keys : book[k].saved /\ ~book[k].archived}
Defaults == {k \in Keys : book[k].default}
RowLocked(k) == \E r \in Saves : k \in save[r].unsets

Proceeds(r, step) == save' = [save EXCEPT ![r].step = step]
SaveEnds(r) == save' = [save EXCEPT ![r] = NotSaving]

-----------------------------------------------------------------------------
\* addressByKey comes before any change; a replay is answered from it.
LookUp(r) ==
    /\ save[r] = NotSaving /\ ~book[KeyOf[r]].saved
    /\ Proceeds(r, "LOOKED")
    /\ UNCHANGED book

\* The update of the default row: found in the snapshot of the statement, looked
\* at again once its lock is free.
FindDefault(r) ==
    /\ save[r].step = "LOOKED" /\ AsDefault[r] = "YES"
    /\ save' = [save EXCEPT ![r].step = "FOUND", ![r].target = Defaults]
    /\ UNCHANGED book

UnsetDefault(r) ==
    /\ save[r].step = "FOUND"
    /\ \A k \in save[r].target : ~RowLocked(k)
    /\ save' = [save EXCEPT ![r].step = "READY", ![r].unsets = save[r].target \cap Defaults]
    /\ UNCHANGED book

\* Unless the request says so, the first address becomes the default.
CountAddresses(r) ==
    /\ save[r].step = "LOOKED" /\ AsDefault[r] # "YES"
    /\ save' = [save EXCEPT ![r].step = "READY", ![r].first = Present = {}]
    /\ UNCHANGED book

Unset(r) == [k \in Keys |-> IF k \in save[r].unsets
                            THEN [book[k] EXCEPT !.default = FALSE] ELSE book[k]]
BecomesDefault(r) == AsDefault[r] = "YES" \/ (AsDefault[r] = "UNSAID" /\ save[r].first)

\* address_one_default_idx.
MayInsert(r) == BecomesDefault(r) => Defaults \subseteq save[r].unsets

\* The insert and the commit.
Insert(r) ==
    /\ save[r].step = "READY" /\ ~book[KeyOf[r]].saved /\ MayInsert(r)
    /\ book' = [Unset(r) EXCEPT ![KeyOf[r]] =
                   [saved |-> TRUE, archived |-> FALSE, default |-> BecomesDefault(r)]]
    /\ SaveEnds(r)

\* Another request with the key came first: nothing is inserted, the address it
\* saved is the answer, and what this transaction did before is committed.
AnswerWinner(r) ==
    /\ save[r].step = "READY" /\ book[KeyOf[r]].saved
    /\ book' = Unset(r)
    /\ SaveEnds(r)

Fail(r) ==
    /\ save[r] # NotSaving
    /\ SaveEnds(r)
    /\ UNCHANGED book

Archive(k) ==
    /\ k \in Present /\ ~RowLocked(k)
    /\ book' = [book EXCEPT ![k].archived = TRUE, ![k].default = FALSE]
    /\ UNCHANGED save

-----------------------------------------------------------------------------
BookInit ==
    /\ book = [k \in Keys |-> NoAddress]
    /\ save = [r \in Saves |-> NotSaving]

BookNext ==
    \/ \E r \in Saves : \/ LookUp(r) \/ FindDefault(r) \/ UnsetDefault(r) \/ CountAddresses(r)
                        \/ Insert(r) \/ AnswerWinner(r) \/ Fail(r)
    \/ \E k \in Keys : Archive(k)

BookSpec == BookInit /\ [][BookNext]_addressBook

-----------------------------------------------------------------------------
\* "Before any change, so a replay cannot move the default flag again"
\* (customer.service.ts:150): the default address changes only with an address
\* that is saved or archived.
ReplayMovesNothing ==
    [][Defaults' # Defaults =>
          \/ \E k \in Keys : ~book[k].saved /\ book'[k].saved
          \/ \E k \in Keys : ~book[k].archived /\ book'[k].archived]_addressBook
=============================================================================
