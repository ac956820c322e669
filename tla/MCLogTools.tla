------------------------------ MODULE MCLogTools ------------------------------
(* Instances of LogTools small enough for TLC.                             *)
EXTENDS LogTools

(* Lines of one or two characters.                                         *)
ShortLines == UNION {[1 .. n -> Chars \ {Newline}] : n \in 1 .. 2}

(* Lines that can be told apart, if only by their length.                  *)
NarrowLines == UNION {[1 .. n -> {"narrow"}] : n \in 1 .. 3}

(* Nothing; a little; more lines than may be returned; more bytes.         *)
SomeComplaints ==
  LET pair == <<"wide", "wide">>
      short == <<"narrow">>
  IN {<<>>, <<pair>>, <<short, short, short, short>>, <<pair, pair>>}

NoComplaints == {<<>>}

SomeRequests == {-1, 0, 1, 2, 3, 9}

===============================================================================
