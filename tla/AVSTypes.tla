------------------------------ MODULE AVSTypes ------------------------------
(***************************************************************************)
(* Difference of x/avs/types/types.go: the entries of two string lists    *)
(* that are in only one of them, sorted.  Strings are abstracted to their *)
(* rank in sort.Strings order, so `<` on Names is the order of the sort.  *)
(* One step is one call, with its arguments and its result.               *)
(***************************************************************************)
EXTENDS Integers, Sequences, SequencesExt, Functions, TLC

CONSTANTS
    Names,     \* the strings, as integers in their sort order
    MaxLen     \* the longest argument list

Lists == UNION {[1..n -> Names] : n \in 0..MaxLen}

(* Lists without a repeated entry.                                         *)
DistinctLists == {l \in Lists : IsInjective(l)}

(* Mutant: an entry of b found in a is not deleted from the map.           *)
DifferenceNoDelete(a, b) ==
    LET diffMap == Range(a)
        step(acc, item) ==
            IF item \in acc.m THEN acc
            ELSE [acc EXCEPT !.different = Append(@, item)]
        walked == FoldLeft(step, [m |-> diffMap, different |-> <<>>], b)
    IN  SortSeq(walked.different \o SetToSeq(walked.m), <)

(* diffMap holds the entries of a; walking b, an entry found in the map is *)
(* deleted from it, any other is appended to `different`; what is left in *)
(* the map is appended in map order, and the whole is sorted.             *)
Difference(a, b) ==
    LET diffMap == Range(a)
        step(acc, item) ==
            IF item \in acc.m THEN [acc EXCEPT !.m = @ \ {item}]
            ELSE [acc EXCEPT !.different = Append(@, item)]
        walked == FoldLeft(step, [m |-> diffMap, different |-> <<>>], b)
    IN  SortSeq(walked.different \o SetToSeq(walked.m), <)

VARIABLES diffArgs, diffOut

vars == <<diffArgs, diffOut>>

Init == diffArgs = <<<<>>, <<>>>> /\ diffOut = <<>>

(* A call of Difference on two lists.                                      *)
CallDifference(a, b) ==
    /\ diffArgs' = <<a, b>>
    /\ diffOut' = Difference(a, b)

Next == \E a, b \in Lists : CallDifference(a, b)

Spec == Init /\ [][Next]_vars

(***************************************************************************)
(* Properties                                                              *)
(***************************************************************************)
(* For lists without repeats, Difference returns their symmetric           *)
(* difference in ascending order, each entry once: the map delete of an    *)
(* entry found in both lists and the final sort.Strings are what make it   *)
(* so.                                                                      *)
DifferenceIsSymmetric ==
    LET a == diffArgs[1]
        b == diffArgs[2]
    IN  IsInjective(a) /\ IsInjective(b) =>
            diffOut = SetToSortSeq((Range(a) \ Range(b)) \cup (Range(b) \ Range(a)), <)

====
