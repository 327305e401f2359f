---------------------------- MODULE MCFinalPaths ----------------------------
(* Small instances of FinalPaths for TLC: a receiver on Windows. *)
EXTENDS FinalPaths, TLC

CONSTANTS t1, t2

Symmetry == Permutations({t1, t2})

ManyWords == {"a", "A", "x?", "x\\", "x_"}

Slashes == [w \in ManyWords |-> IF w = "x\\" THEN "x_" ELSE w]
Cases == [w \in ManyWords |-> IF w = "A" THEN "a" ELSE w]
Windows == [w \in ManyWords |-> IF w \in {"x?", "x\\"} THEN "x_" ELSE w]

File(name) == [name |-> name, kind |-> "file", inside |-> {}, picked |-> FALSE]
Picked(name) == [File(name) EXCEPT !.picked = TRUE]
Folder(name, inside) == [File(name) EXCEPT !.kind = "folder", !.inside = inside]

(* Equal names in every way: as they are, in their letters, when they are
   made safe, when they are cleaned, and when they get a number. *)
Choices ==
    {<<File(<<"a">>), File(<<"A">>)>>,
     <<File(<<"x?">>), File(<<"x_">>)>>,
     <<Picked(<<"a">>), Picked(<<"a">>)>>,
     <<Picked(<<"a">>), Picked(<<"A">>)>>,
     <<File(<<"a">>), File(<<"a">>), File(<<"a", 1>>)>>,
     <<Folder(<<"a">>, {<<"a">>})>>,
     <<Folder(<<"a">>, {<<"x?">>, <<"x_">>})>>,
     <<Folder(<<"a">>, {<<"x\\">>, <<"x_">>})>>,
     <<Folder(<<"A">>, {<<"A">>}), File(<<"x\\">>)>>}
=============================================================================
