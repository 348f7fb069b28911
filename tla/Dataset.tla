------------------------------ MODULE Dataset ------------------------------
(***************************************************************************)
(* The arithmetic of generate_dataset: how many examples a request for     *)
(* count examples yields, entry by entry of its table of categories.       *)
(*                                                                         *)
(* The examples themselves are of no interest: a generator is called until *)
(* it has given enough, and the surplus of its last batch is sampled away. *)
(***************************************************************************)
EXTENDS Naturals, Sequences

CONSTANT Counts      \* values of --count

ASSUME DatasetAssumption == Counts \subseteq Nat

VARIABLES
    count,           \* how many examples are asked for
    entry,           \* the entry of the table the loop is at
    collected,       \* the length of the list after each entry so far
    examples         \* the same marks in the list that is returned

datasetVars == <<count, entry, collected, examples>>

-----------------------------------------------------------------------------
\* Per cent of each entry: eleven categories, then two variants of the third.
Shares == <<30, 20, 12, 8, 8, 6, 6, 4, 3, 2, 1, 2, 2>>
Categories == 1..11
Entries == 1..Len(Shares)

Budget(i) == (count * Shares[i]) \div 100
TotalBudget ==
    Budget(1) + Budget(2) + Budget(3) + Budget(4) + Budget(5) + Budget(6) + Budget(7)
      + Budget(8) + Budget(9) + Budget(10) + Budget(11) + Budget(12) + Budget(13)

\* max(1, int(budget * scale)) for a float scale: where the quotient is an integer the
\* product may come out just below it.  Without any budget the scale is 1.
Quotient(i) == IF TotalBudget = 0 THEN Budget(i) ELSE (Budget(i) * count) \div TotalBudget
Inexact(i) == /\ TotalBudget > 0 /\ Budget(i) > 0
              /\ (Budget(i) * count) % TotalBudget = 0
AtLeastOne(n) == IF n = 0 THEN 1 ELSE n
ScaledUnbounded(i) == {Quotient(i)}     \* Mutant: max(1, ...) is left out
Scaled(i) ==
    {AtLeastOne(Quotient(i))} \cup
    (IF Inexact(i) THEN {AtLeastOne(Quotient(i) - 1)} ELSE {})

\* The examples of entry i are those between the mark of the entry before and its own.
MarkBefore(marks, i) == IF i = 1 THEN 0 ELSE marks[i - 1]

\* The first count examples.
TrimNothing(marks) == marks              \* Mutant: the trim is left out
Trim(marks) == [i \in Entries |-> IF marks[i] < count THEN marks[i] ELSE count]

-----------------------------------------------------------------------------
DatasetInit ==
    /\ count \in Counts
    /\ entry = 1
    /\ collected = [i \in Entries |-> 0]
    /\ examples = <<>>

\* One pass of the loop over the entries.
CollectEntry ==
    /\ entry \in Entries
    /\ \E n \in Scaled(entry) :
         collected' = [collected EXCEPT ![entry] = MarkBefore(collected, entry) + n]
    /\ entry' = entry + 1
    /\ UNCHANGED <<count, examples>>

ReturnExamples ==
    /\ entry \notin Entries /\ examples = <<>>
    /\ examples' = Trim(collected)
    /\ UNCHANGED <<count, entry, collected>>

DatasetNext == CollectEntry \/ ReturnExamples

DatasetSpec == DatasetInit /\ [][DatasetNext]_datasetVars

-----------------------------------------------------------------------------
\* The result never exceeds the request, and it falls short of it by at most one
\* example for each entry: that much the rounding loses, and the normalisation, which
\* only rounds again, does not give it back (generate_calibration_dataset.py:1067-1103).
ShortByRoundingOnly ==
    examples # <<>> =>
        LET returned == examples[Len(Shares)]
        IN  returned <= count /\ count <= returned + Len(Shares)

\* From 23 examples on every category is represented, although the trim takes from the
\* end of the table and the small shares round to nothing.
CategoriesRepresented ==
    examples # <<>> /\ count >= 23 => \A i \in Categories : MarkBefore(examples, i) < examples[i]
=============================================================================
