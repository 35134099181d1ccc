------------------------------ MODULE MCWsFrame ------------------------------
(***************************************************************************)
(* The instance of WsFrame for TLC: frames at every boundary of the length.*)
(***************************************************************************)
EXTENDS WsFrame

Lengths == {0, Short - 1, Short, Wide - 1, Wide, MaxSize}

\* Frames as the C++ senders write them, also in fragments and with any opcode
\* another implementation may use.
Proper == {FrameOf(fin, op, ExpectMasked, n) :
             fin \in BOOLEAN, op \in {0, 2, 9}, n \in Lengths}
\* One of each kind that is refused, or that has a form the C++ senders avoid.
Other == {
  FrameOf(TRUE, 2, ~ExpectMasked, 1),
  FrameOf(TRUE, 2, ExpectMasked, MaxSize + 1),
  [FrameOf(TRUE, 2, ExpectMasked, 1) EXCEPT !.rsv = TRUE],
  [FrameOf(TRUE, 2, ExpectMasked, 1) EXCEPT !.code = Short + 1, !.ext = 1],
  [FrameOf(TRUE, 2, ExpectMasked, Huge) EXCEPT !.code = Short + 1, !.ext = Huge],
  FrameOf(TRUE, 1, ExpectMasked, 1), FrameOf(TRUE, 3, ExpectMasked, 1),
  FrameOf(TRUE, 11, ExpectMasked, 1), FrameOf(TRUE, 10, ExpectMasked, 1),
  FrameOf(TRUE, 8, ExpectMasked, 0), FrameOf(TRUE, 8, ExpectMasked, Short - 1)}
AllFrames == Proper \cup Other

=============================================================================
