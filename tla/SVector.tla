------------------------------ MODULE SVector ------------------------------
(***************************************************************************)
(* base::svector: an array that grows by doubling.  elem holds the         *)
(* elements, alloc the number of slots malloc or realloc returned.  _cap   *)
(* keeps its first value for ever, so that every growth asks for 2 * _cap. *)
(***************************************************************************)
EXTENDS Naturals, Sequences

SvNew(n) == [cap |-> n, alloc |-> n, elem |-> <<>>]

SvSize(v)  == Len(v.elem)
SvEmpty(v) == SvSize(v) = 0
SvBack(v)  == v.elem[SvSize(v)]

SvPopBack(v) ==
  IF SvEmpty(v) THEN v ELSE [v EXCEPT !.elem = SubSeq(@, 1, SvSize(v) - 1)]

SvPushBack(v, x) ==
  [v EXCEPT !.alloc = IF SvSize(v) >= v.cap THEN 2 * v.cap ELSE @,
            !.elem = Append(@, x)]

SvClear(v) == [v EXCEPT !.elem = <<>>]

\* No element lies behind the end of the array.
SvInBounds(v) == SvSize(v) <= v.alloc
=============================================================================
