----------------------------- MODULE LoanLedger -----------------------------
(***************************************************************************)
(* What the credit line promises about its loans, without schedules, fees, *)
(* pools or scores.  A loan is requested and then funded or cancelled, or  *)
(* funded at once; while it is active what is owed may change; it ends     *)
(* when nothing is owed or when it is defaulted.  The credit line keeps    *)
(* the guarantee of a loan from the first step to the last, a borrower's   *)
(* debt follows what the active loans owe, one loan moves at a time, and   *)
(* an ended loan never moves again.                                        *)
(***************************************************************************)
EXTENDS Integers, Sequences

CONSTANT Borrowers

VARIABLES
  book,    \* [borrower, guarantee, owed, stage] of each loan, by id
  escrow,  \* the guarantees held
  debt     \* of each borrower

ledgerVars == <<book, escrow, debt>>

Stage == {"Pending", "Active", "Paid", "Defaulted", "Cancelled"}

Entries == [borrower : Borrowers, guarantee : Nat, owed : Nat, stage : Stage]

Init ==
  /\ book = <<>>
  /\ escrow = 0
  /\ debt = [u \in Borrowers |-> 0]

\* A new entry, of any borrower, guarantee and amount.
Enter(loan) ==
  /\ loan \in Entries
  /\ loan.owed > 0
  /\ book' = Append(book, loan)
  /\ escrow' = escrow + loan.guarantee

Request(loan) ==
  /\ loan.stage = "Pending"
  /\ Enter(loan)
  /\ UNCHANGED debt

Open(loan) ==
  /\ loan.stage = "Active"
  /\ Enter(loan)
  /\ debt' = [debt EXCEPT ![loan.borrower] = @ + loan.owed]

Fund(id) ==
  /\ book[id].stage = "Pending"
  /\ book' = [book EXCEPT ![id].stage = "Active"]
  /\ debt' = [debt EXCEPT ![book[id].borrower] = @ + book[id].owed]
  /\ UNCHANGED escrow

Cancel(id) ==
  /\ book[id].stage = "Pending"
  /\ book' = [book EXCEPT ![id].stage = "Cancelled"]
  /\ escrow' = escrow - book[id].guarantee
  /\ UNCHANGED debt

\* Fees and payments: something is still owed.
Adjust(id, owed) ==
  /\ book[id].stage = "Active"
  /\ owed > 0
  /\ book' = [book EXCEPT ![id].owed = owed]
  /\ debt' = [debt EXCEPT ![book[id].borrower] = @ + owed - book[id].owed]
  /\ UNCHANGED escrow

PayOff(id) ==
  /\ book[id].stage = "Active"
  /\ book' = [book EXCEPT ![id].owed = 0, ![id].stage = "Paid"]
  /\ debt' = [debt EXCEPT ![book[id].borrower] = @ - book[id].owed]
  /\ escrow' = escrow - book[id].guarantee

\* What was owed stays on the book of a defaulted loan.
Default(id) ==
  /\ book[id].stage = "Active"
  /\ book' = [book EXCEPT ![id].stage = "Defaulted"]
  /\ debt' = [debt EXCEPT ![book[id].borrower] = @ - book[id].owed]
  /\ escrow' = escrow - book[id].guarantee

\* The new entry and the new amount are read off the next state, which leaves
\* them unbounded.
Next ==
  \/ Len(book') > Len(book) /\ Request(book'[Len(book')])
  \/ Len(book') > Len(book) /\ Open(book'[Len(book')])
  \/ \E id \in DOMAIN book : Fund(id)
  \/ \E id \in DOMAIN book : Cancel(id)
  \/ \E id \in DOMAIN book : id \in DOMAIN book' /\ Adjust(id, book'[id].owed)
  \/ \E id \in DOMAIN book : PayOff(id)
  \/ \E id \in DOMAIN book : Default(id)

Spec == Init /\ [][Next]_ledgerVars
=============================================================================
