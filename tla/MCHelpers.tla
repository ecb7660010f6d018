----------------------------- MODULE MCHelpers -----------------------------
EXTENDS Helpers

CONSTANTS a, b, c, A1, A2, A3, T1, T2

\* The keys `1' and `2'.
MCTags == {<<1>>, <<2>>}

Field(name, slice, tags) == [name |-> name, slice |-> slice, tags |-> tags]

MCFields ==
    (T1 :> << Field(1, FALSE, (<<1>> :> <<2>>) @@ (<<2>> :> <<1>>)),
              Field(2, TRUE,  <<2>> :> <<1>>),
              Field(3, FALSE, <<1>> :> <<3, 2>>) >>) @@
    (T2 :> << Field(2, TRUE,  <<1>> :> <<1, 3>>),
              Field(1, FALSE, <<1>> :> <<2>>),
              Field(3, FALSE, <<2>> :> <<2>>) >>)

\* 1 and 3 have the same key.
MCKeyFunc == [x \in Names |-> IF x = 3 THEN 1 ELSE x]

\* b is a part of a's array or has one of its own; c is nil.
MCMemories ==
    {[heap |-> (Nil :> <<>>) @@ (A1 :> one) @@ (A2 :> <<2, 1>>) @@ (A3 :> <<>>),
      var  |-> (a :> [arr |-> A1, len |-> n]) @@ (b :> second)
               @@ (c :> [arr |-> Nil, len |-> 0])] :
        one \in {<<2, 1, 2>>, <<3, 3, 1>>}, n \in 0..3,
        second \in {[arr |-> A1, len |-> 2], [arr |-> A2, len |-> 1]}}

=============================================================================
