------------------------------- MODULE MCBytes -------------------------------
(* Words of four bytes; strings with the bytes that has_zero and case folding *)
(* could take for others, up to a word and a half long.                       *)
EXTENDS Bytes

MCStrings ==
  {<<>>, <<1>>, <<33>>, <<128>>, <<1, 33>>, <<33, 1>>, <<1, 128>>, <<1, 1, 33>>,
   <<1, 1, 1, 33>>, <<128, 1, 1, 128>>, <<1, 33, 1, 33, 1>>, <<1, 1, 1, 1, 128, 33>>}

MCBlocks == {[a \in 0 .. 31 |-> a], [a \in 0 .. 31 |-> IF a % 7 = 6 /\ a > 16 THEN 200 ELSE a % 7]}
=============================================================================
