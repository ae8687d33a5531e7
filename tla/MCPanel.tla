------------------------------ MODULE MCPanel ------------------------------
(***************************************************************************)
(* Panel on a screen of four columns and two rows with characters two      *)
(* pixels wide: two characters in a line, two lines.  The message fills a  *)
(* line, breaks a line and wraps around to the top.  A byte has two values *)
(* here, so that both halves of a coordinate matter.                       *)
(***************************************************************************)
EXTENDS Panel

\* Rows as bytes, the leftmost pixel in the top bit: "a" is filled, "b" has
\* its left pixel, "?" its right one.
MCFont == [c \in {"a", "b", "?"} |->
             CASE c = "a" -> <<192>> [] c = "b" -> <<128>> [] OTHER -> <<64>>]

MCNewLine == "\n"

\* "z" is not in the font.
MCMessage == <<"a", "b", "z", MCNewLine, "b">>

MCWindows == {[x |-> 1, y |-> 0, w |-> 2, h |-> 2],
              [x |-> 3, y |-> 1, w |-> 1, h |-> 1],
              [x |-> 0, y |-> 0, w |-> 0, h |-> 1]}
============================================================================
