------------------------------- MODULE Redirects -------------------------------
(***************************************************************************)
(* Import-path redirects (Yama/internal/Redirects.h, Redirects.cpp).       *)
(*                                                                         *)
(* A path is a string, and the code compares and cuts paths as strings:    *)
(* here it is a sequence of character codes (numbers), the separator '/'   *)
(* being one of them, with the order of std::string.                       *)
(***************************************************************************)
EXTENDS Naturals, Sequences, SequencesExt, FiniteSets

\* The order of the keys of both std::map: std::string's.
LexLess(s, t) ==
    \/ IsStrictPrefix(s, t)
    \/ \E i \in DOMAIN s \cap DOMAIN t :
          /\ SubSeq(s, 1, i - 1) = SubSeq(t, 1, i - 1)
          /\ s[i] < t[i]

\* Keys of the domain's table: std::pair<Spec, Spec>, subject first.
KeyLess(j, k) == LexLess(j[1], k[1]) \/ (j[1] = k[1] /\ LexLess(j[2], k[2]))

\* The keys of a std::map in the order of its iterators.
Keys(map, Less(_, _)) ==
    CHOOSE keys \in [1 .. Cardinality(DOMAIN map) -> DOMAIN map] :
        \A i, j \in DOMAIN keys : i < j => Less(keys[i], keys[j])

\* insert_or_assign on a std::map.
Assign(map, key, val) ==
    [k \in DOMAIN map \cup {key} |-> IF k = key THEN val ELSE map[k]]

\* The table of a domain maps <<subject, before>> to after.
NoRedirects == [k \in {} |-> <<>>]

Add(table, subject, before, after) == Assign(table, <<subject, before>>, after)

\* Fault: the table walked in descending order, the least specific subject wins.
ComputeDescending(table, path) ==
    LET Visit(set, k) == IF IsPrefix(k[1], path) THEN Assign(set, k[2], table[k]) ELSE set
    IN  FoldLeft(Visit, NoRedirects, Reverse(Keys(table, KeyLess)))

(***************************************************************************)
(* The redirect set of the parcel at path: the ascending walk of the       *)
(* table lets a later (more specific) subject overwrite an earlier one.    *)
(***************************************************************************)
Compute(table, path) ==
    LET Visit(set, k) == IF IsPrefix(k[1], path) THEN Assign(set, k[2], table[k]) ELSE set
    IN  FoldLeft(Visit, NoRedirects, Keys(table, KeyLess))

(***************************************************************************)
(* The descending walk of a redirect set: the first 'before' that starts   *)
(* path is replaced, once; a path no redirect is for is left as it is.     *)
(***************************************************************************)
Resolve(set, path) ==
    LET before == Keys(set, LexLess)
        Starts(key) == IsPrefix(key, path)
        last == SelectLastInSeq(before, Starts)
    IN  IF last = 0
        THEN path
        ELSE set[before[last]] \o SubSeq(path, Len(before[last]) + 1, Len(path))
================================================================================
