------------------------------- MODULE SortEx -------------------------------
(***************************************************************************)
(* SortEx of common/src/comQSort.cpp, which the log analyser sorts its     *)
(* file list with: every pass moves the least and the greatest element of  *)
(* the unsorted middle to its two ends.                                    *)
(***************************************************************************)
EXTENDS Naturals, FiniteSets

CONSTANTS SortValues,   \* the values of nValue
          MaxSort       \* bound: the longest array

VARIABLES arr,      \* the array of STSortData: value and payload
          pass,     \* i
          sorting   \* SortEx has not returned

sortVars == <<arr, pass, sorting>>

N == Cardinality(DOMAIN arr)
Left == pass
Right == N - 1 - pass

\* the indices the inner loop leaves in nMin and nMax: the first least element, and the
\* first greatest one (an element that is a new minimum is not compared with the maximum)
MinIdx ==
    CHOOSE m \in Left .. Right :
        \A j \in Left .. Right : arr[m].value < arr[j].value \/ (arr[m].value = arr[j].value /\ m <= j)

MaxIdx ==
    CHOOSE m \in Left .. Right :
        \A j \in Left .. Right : arr[m].value > arr[j].value \/ (arr[m].value = arr[j].value /\ m <= j)

\* An exchange that does not tell the five cases apart.
ExchangePlain(a, l, r, lo, hi) ==
    [[a EXCEPT ![r] = a[hi], ![l] = a[lo]] EXCEPT ![lo] = a[l], ![hi] = a[r]]

\* the memcpy calls of the five cases, in the order of the code
Exchange(a, l, r, lo, hi) ==
    CASE l = hi /\ r = lo -> [a EXCEPT ![l] = a[lo], ![r] = a[hi]]
      [] l = hi /\ r # lo -> [[a EXCEPT ![l] = a[lo], ![r] = a[hi]] EXCEPT ![lo] = a[r]]
      [] l # hi /\ l = lo -> [[a EXCEPT ![r] = a[hi]] EXCEPT ![hi] = a[r]]
      [] l \notin {lo, hi} /\ r = lo -> [[a EXCEPT ![r] = a[hi], ![l] = a[lo]] EXCEPT ![hi] = a[l]]
      [] l \notin {lo, hi} /\ r = hi -> [[a EXCEPT ![l] = a[lo]] EXCEPT ![lo] = a[l]]
      [] OTHER -> [[a EXCEPT ![r] = a[hi], ![l] = a[lo]] EXCEPT ![lo] = a[l], ![hi] = a[r]]

\* an array in any order, its elements told apart by their payload
Init ==
    /\ \E n \in 0 .. MaxSort : \E v \in [0 .. n - 1 -> SortValues] :
            arr = [j \in 0 .. n - 1 |-> [value |-> v[j], id |-> j]]
    /\ pass = 0 /\ sorting = TRUE

\* one turn of the outer loop
Pass ==
    /\ sorting /\ pass < N \div 2 /\ MinIdx # MaxIdx
    /\ arr' = Exchange(arr, Left, Right, MinIdx, MaxIdx)
    /\ pass' = pass + 1
    /\ UNCHANGED sorting

\* the loop is over, or every element of the middle is the same
Return ==
    /\ sorting /\ (pass < N \div 2 => MinIdx = MaxIdx)
    /\ sorting' = FALSE
    /\ UNCHANGED <<arr, pass>>

Next == Pass \/ Return

Spec == Init /\ [][Next]_sortVars

-----------------------------------------------------------------------------
\* Properties

\* SortEx returns the elements it was given, none lost and none doubled by the
\* overlapping copies of a pass, in ascending order of nValue.
SortReturnsSorted ==
    /\ {arr[j].id : j \in DOMAIN arr} = DOMAIN arr
    /\ ~sorting => \A j, k \in DOMAIN arr : j <= k => arr[j].value <= arr[k].value
=============================================================================
