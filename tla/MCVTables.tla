----------------------------- MODULE MCVTables -----------------------------
(* Four traits, with every choice of &: Left and Right over Base and Top over *)
(* both, with either path from Top to Base; and a chain of all four.          *)
EXTENDS VTables

CONSTANTS Base, Left, Right, Top, m1, m2

MCTraits == {Base, Left, Right, Top}

Entry(path, ref, children) == [path |-> path, ref |-> ref, children |-> children]

ToBase(parent) == <<[parent |-> parent, path |-> Base]>>

Definition(dropAndLayout, subtables, methods) ==
  [drop |-> dropAndLayout, layout |-> dropAndLayout, subtables |-> subtables,
   methods |-> methods]

Diamond(refs, left) ==
  [t \in MCTraits |->
     CASE t = Base -> Definition(TRUE, <<>>, <<m1>>)
       [] t = Left -> Definition(TRUE, <<Entry(Base, refs[1], <<>>)>>, <<m1>>)
       [] t = Right -> Definition(FALSE, <<Entry(Base, refs[2], <<>>)>>, <<m2>>)
       [] t = Top -> Definition(TRUE,
            <<Entry(Left, refs[3], IF left THEN ToBase(Left) ELSE <<>>),
              Entry(Right, refs[4], IF left THEN <<>> ELSE ToBase(Right))>>, <<m1>>)]

Chain(refs) ==
  LET ToLeft == [parent |-> Right, path |-> Left] IN
  [t \in MCTraits |->
     CASE t = Base -> Definition(FALSE, <<>>, <<m1>>)
       [] t = Left -> Definition(TRUE, <<Entry(Base, refs[1], <<>>)>>, <<m1>>)
       [] t = Right -> Definition(FALSE, <<Entry(Left, refs[2], ToBase(Left))>>, <<m2>>)
       [] t = Top -> Definition(TRUE, <<Entry(Right, refs[3], <<ToLeft>> \o ToBase(Left))>>, <<m1>>)]

MCPrograms ==
  {Diamond(refs, left) : refs \in [1 .. 4 -> BOOLEAN], left \in BOOLEAN}
    \cup {Chain(refs) : refs \in [1 .. 3 -> BOOLEAN]}
=============================================================================
