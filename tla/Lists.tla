------------------------------- MODULE Lists -------------------------------
(***************************************************************************)
(* The operations of Haskell's Data.List that the explorer applies to its   *)
(* lists of event identifiers.  A Haskell list is a sequence with its head  *)
(* at index 1.  No list of identifiers contains an element twice where      *)
(* difference is used, so that it removes the only occurrence.  map, delete *)
(* and concatMap are Map below, Remove and FlattenSeq of SequencesExt.      *)
(***************************************************************************)
EXTENDS Naturals, SequencesExt

(* xs \\ ys *)
Minus(s, T) == SelectSeq(s, LAMBDA x : x \notin T)

(* xs `intersect` ys *)
Meet(s, T) == SelectSeq(s, LAMBDA x : x \in T)

(* nub: the first occurrence of every element, in order *)
Nub(s) ==
  LET n[i \in 0..Len(s)] ==
        IF i = 0 THEN << >>
        ELSE IF \E j \in 1..(i - 1) : s[j] = s[i] THEN n[i - 1] ELSE Append(n[i - 1], s[i])
  IN  n[Len(s)]

Map(f(_), s) == FoldLeft(LAMBDA r, x : Append(r, f(x)), << >>, s)
ConcatMap(f(_), s) == FoldLeft(LAMBDA r, x : r \o f(x), << >>, s)

(* the keys of a Data.Map in toList order *)
Ascending(S) == SetToSortSeq(S, <)
=============================================================================
