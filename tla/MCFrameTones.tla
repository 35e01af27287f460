----------------------------- MODULE MCFrameTones -----------------------------
(***************************************************************************)
(* Small sizes, even and odd, and one that is too wide for its odd height;  *)
(* images of the extreme bytes and two that differ from byte to byte.       *)
(***************************************************************************)
EXTENDS FrameTones

Size(w, h) == [width |-> w, height |-> h]

SomeSizes == {Size(1, 1), Size(2, 2), Size(3, 2), Size(4, 4), Size(6, 4), Size(5, 2),
              Size(2, 6), Size(16, 1), Size(32, 1), Size(5, 3)}

SomeImages(n) ==
  {[k \in 1..n |-> byte] : byte \in {0, 128, 255}}
    \cup {[k \in 1..n |-> (37 * k) % 256], [k \in 1..n |-> ((91 * k) + 13) % 256],
          [k \in 1..n |-> IF k % 2 = 0 THEN 255 ELSE 16]}

=============================================================================
