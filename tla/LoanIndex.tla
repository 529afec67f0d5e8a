----------------------------- MODULE LoanIndex ------------------------------
(***************************************************************************)
(* The loan storage of the creditline contract: loans by id and, for each  *)
(* borrower, an index of loan ids in pages of PageSize that clients read   *)
(* by offset and limit.  An earlier version of the contract kept one entry *)
(* UserLoanAt(borrower, i) per loan instead; reads fall back to those      *)
(* entries where no page exists, and appends continue at the borrower's    *)
(* count, which the earlier version left behind.                           *)
(*                                                                         *)
(* Of a loan only its borrower matters here.  Sharding is a function of    *)
(* the id and the time-to-live of entries is extended with every write:    *)
(* neither is represented.                                                 *)
(***************************************************************************)
EXTENDS SafeMath, Sequences

CONSTANTS
  Borrowers,
  PageSize,      \* PAGE_SIZE
  LegacyOwners,  \* the borrowers of the loans an earlier version stored, by id
  MaxLoans       \* bound on the loan counter

ASSUME LoanIndexAssumption ==
  /\ PageSize \in Nat \ {0}
  /\ LegacyOwners \subseteq Seq(Borrowers)
  /\ MaxLoans \in Nat

VARIABLES
  owner,   \* the borrower of each stored loan: Loan(shard, id), id 1 upwards
  legacy,  \* UserLoanAt(borrower, 0), UserLoanAt(borrower, 1), ...
  count,   \* UserLoanCount(borrower)
  pages    \* UserLoanPage(borrower, n) for the n that have an entry

indexVars == <<owner, legacy, count, pages>>

\* LOAN_COUNTER
Counter == Len(owner)

\* The loans of a borrower in the order they were made, in a history of owners.
MadeIn(owners, b) ==
  LET made[n \in 0..Len(owners)] ==
        IF n = 0 THEN <<>>
        ELSE IF owners[n] = b THEN Append(made[n - 1], n) ELSE made[n - 1]
  IN  made[Len(owners)]

MadeBy(b) == MadeIn(owner, b)

IndexInit ==
  /\ owner \in LegacyOwners
  /\ legacy = [b \in Borrowers |-> MadeIn(owner, b)]
  /\ count = [b \in Borrowers |-> Len(MadeIn(owner, b))]
  /\ pages = [b \in Borrowers |-> <<>>]

-----------------------------------------------------------------------------
(* Writing                                                                 *)

\* Mutation: a page takes one entry too many.
PageAfterFull(i) == IF i = 0 THEN 0 ELSE (i - 1) \div PageSize

\* The page that holds the i-th loan of a borrower, from 0.
PageOf(i) == i \div PageSize

\* append_user_loan_index
AppendTo(b, id) ==
  LET n    == PageOf(count[b])
      page == IF n \in DOMAIN pages[b] THEN pages[b][n] ELSE <<>>
  IN  /\ pages' = [pages EXCEPT ![b] = [p \in DOMAIN @ \cup {n} |->
                                          IF p = n THEN Append(page, id) ELSE @[p]]]
      /\ count' = [count EXCEPT ![b] = @ + 1]

\* Mutation: every write of a loan is indexed, not the first one only.
WriteAndIndex(id, b) ==
  /\ owner' = IF id \in DOMAIN owner THEN owner ELSE Append(owner, b)
  /\ AppendTo(b, id)
  /\ UNCHANGED legacy

\* write_loan: only a loan whose key is new is indexed.
WriteLoan(id, b) ==
  /\ \/ /\ id \notin DOMAIN owner
        /\ owner' = Append(owner, b)
        /\ AppendTo(b, id)
     \/ /\ id \in DOMAIN owner
        /\ UNCHANGED <<owner, count, pages>>
  /\ UNCHANGED legacy

\* create_loan and request_loan: the counter gives the id.
NewLoan(b) == WriteLoan(Counter + 1, b)

\* Every other operation reads a loan and writes it back.
UpdateLoan(id) == WriteLoan(id, owner[id])

IndexNext ==
  \/ \E b \in Borrowers : Counter < MaxLoans /\ NewLoan(b)
  \/ \E id \in DOMAIN owner : UpdateLoan(id)

IndexSpec == IndexInit /\ [][IndexNext]_indexVars

-----------------------------------------------------------------------------
(* Reading                                                                 *)

\* The i-th loan of b can be read.  Where the page is there and too short the
\* loop of the read does not advance and the read never returns; where there
\* is neither page nor entry it fails with LoanNotFound.
Found(b, i) ==
  IF PageOf(i) \in DOMAIN pages[b]
  THEN i % PageSize < Len(pages[b][PageOf(i)])
  ELSE i < Len(legacy[b])

Entry(b, i) ==
  IF PageOf(i) \in DOMAIN pages[b]
  THEN pages[b][PageOf(i)][(i % PageSize) + 1]
  ELSE legacy[b][i + 1]

\* How many ids get_user_loan_ids_paginated(b, start, limit) is to return.
ReadLength(b, start, limit) == NonNegative(Least(start + limit, count[b]) - start)

ReadReturns(b, start, limit) ==
  \A k \in 1..ReadLength(b, start, limit) : Found(b, start + k - 1)

Read(b, start, limit) ==
  [k \in 1..ReadLength(b, start, limit) |-> Entry(b, start + k - 1)]

-----------------------------------------------------------------------------
(* Properties                                                              *)

\* Every read of b, at any offset and with any limit, returns that slice of
\* the loans b made, in the order b made them.
ReadsExact(b) ==
  /\ count[b] = Len(MadeBy(b))
  /\ \A start \in 0..count[b], limit \in 0..(count[b] + 1) :
       /\ ReadReturns(b, start, limit)
       /\ Read(b, start, limit) =
            SubSeq(MadeBy(b), start + 1, Least(start + limit, Len(MadeBy(b))))

\* A page holds new loans at the places of legacy ones.
PageOverlapsLegacy(b) ==
  /\ Len(legacy[b]) % PageSize # 0
  /\ count[b] > Len(legacy[b])

\* Reads across page borders, and across the border of legacy entries and
\* pages, are exact, whatever is written in between: for every borrower but
\* one whose legacy entries do not fill whole pages and who made a loan since.
ReadsExactUnlessOverlap ==
  \A b \in Borrowers : ReadsExact(b) <=> ~PageOverlapsLegacy(b)

\* No page outgrows its fixed capacity, the bound on what one storage entry
\* costs to load, whatever entries an earlier version left.
PagesWithinCapacity ==
  \A b \in Borrowers : \A n \in DOMAIN pages[b] : Len(pages[b][n]) \in 1..PageSize
=============================================================================
