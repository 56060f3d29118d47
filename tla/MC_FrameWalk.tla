---------------------------- MODULE MC_FrameWalk ----------------------------
(* Frames of every link type, cut short in the headers and whole, one       *)
(* tunnel, error or IP in IP deep; words of two bits, each with a value of  *)
(* its own, some of them zero and some written as they were.                *)
EXTENDS FrameWalk

MCContents ==
    {<<[w \in Places |-> (w \div 2) % 4], [w \in Places |-> (w \div 4) % 3]>>,
     <<[w \in Places |-> (w \div 4 + 1) % 4], [w \in Places |-> (w \div 6) % 4]>>}
=============================================================================
