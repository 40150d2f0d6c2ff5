----------------------------- MODULE MCIcm45688 -----------------------------
(* A small instance of Icm45688: two headings, short hold and learning times. *)
EXTENDS Icm45688

TwoHeadings == {0, 1}
=============================================================================
