-------------------------- MODULE MCControllerUndo --------------------------
EXTENDS ControllerUndo

AB == {<<"a", "b">>}
ABC == {<<"a", "b", "c">>}
ABCD == {<<"a", "b", "c", "d">>}
NoneOrT == {<<>>, <<"t">>}
OnlyA == {<<"a">>}
Never == {}
Carets == {<<RangeMake(n, 0)>> : n \in 0 .. 2}
OneRange == Carets \cup {<<RangeMake(0, 2)>>}
TwoRanges == {<<RangeMake(0, 1), RangeMake(2, 1)>>}
OneOrTwoRanges == OneRange \cup TwoRanges
=============================================================================
