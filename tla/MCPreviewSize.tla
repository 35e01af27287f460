---------------------------- MODULE MCPreviewSize ----------------------------
(***************************************************************************)
(* PreviewSize on the display of the code's comment, 960x540, the same in  *)
(* portrait, and a 4:3 one; with sizes that match, nearly match, are too   *)
(* large by more and by less than the margin, or have another aspect.      *)
(***************************************************************************)
EXTENDS PreviewSize

Size(w, h) == [width |-> w, height |-> h]

SomeDisplays == {Size(960, 540), Size(540, 960), Size(640, 480)}

SomeSizes == {Size(960, 544), Size(960, 540), Size(640, 360), Size(1280, 720),
              Size(640, 480), Size(648, 486), Size(320, 240)}

=============================================================================
