----------------------------- MODULE MCLibrary -----------------------------
EXTENDS Library, TLC

\* Two items share a tag they spell differently; one names it twice.
MCSpellings == {"Sky", "sky ", "Sea", " "}
MCNormal    == [s \in MCSpellings |-> CASE s = "Sky" -> "sky" [] s = "sky " -> "sky"
                                        [] s = "Sea" -> "sea" [] s = " " -> ""]

Ids == Permutations(Images) \cup Permutations(TagIds)

MCBlank     == ""
MCTagsOf    == [x \in Items |-> IF x = "x1" THEN <<"Sky", " ", "sky ">> ELSE <<"sky ", "Sea">>]
=============================================================================
