---------------------------- MODULE MCSelection ----------------------------
(* Instances of Selection for TLC: variants that differ in one dimension     *)
(* only, of the same and of another audio group, one of unknown size.        *)
EXTENDS Selection

CONSTANTS g, h, en, fr

Variant(b, w, x, grp) == [bitrate |-> b, width |-> w, height |-> x, audio_grp |-> grp]

MCVariants == {Variant(1, 1, 1, g), Variant(2, 2, 1, NULL), Variant(2, 2, 2, h),
               Variant(3, NULL, NULL, g)}

\* The other group has its own default, and the language that -A asks for.
Rendition(grp, l, d) == [grp_id |-> grp, lang |-> l, is_default |-> d]

MCRenditions == {Rendition(g, fr, FALSE), Rendition(g, en, TRUE), Rendition(g, NULL, FALSE),
                 Rendition(h, fr, FALSE), Rendition(h, en, TRUE)}

MCWidths  == {-1, 1, 2}
MCHeights == {-1, 2}
MCLanguages == {fr}
=============================================================================
