------------------------------- MODULE Text -------------------------------
(***************************************************************************)
(* The operations of Python's str that the text pipeline uses, on texts as *)
(* sequences of symbols.  A symbol stands for the characters that the code *)
(* never tells apart; a marker such as "</think>" is a text of a few       *)
(* symbols, so that it can arrive in pieces.                               *)
(***************************************************************************)
LOCAL INSTANCE Naturals
LOCAL INSTANCE Sequences
LOCAL INSTANCE SequencesExt
LOCAL INSTANCE FiniteSetsExt

Upto(text, n) == SubSeq(text, 1, n)
From(text, n) == SubSeq(text, n + 1, Len(text))

(* The number of symbols before the first s at or after `start` of them; a *)
(* text without one has no such number: Len(text) + 1 stands for -1.       *)
FindFrom(text, s, start) ==
    Min({n \in start..(Len(text) - Len(s)) : SubSeq(text, n + 1, n + Len(s)) = s}
        \cup {Len(text) + 1})

Find(text, s) == FindFrom(text, s, 0)

Has(text, s) == Find(text, s) <= Len(text)

(* text.replace(s, "", 1) and text.replace(s, ""), for an s whose          *)
(* occurrences never overlap                                               *)
RemoveOne(text, s) ==
    IF Has(text, s) THEN Upto(text, Find(text, s)) \o From(text, Find(text, s) + Len(s))
                    ELSE text

RemoveEvery(text, s) ==
    LET In(i) == \E n \in 0..(Len(text) - Len(s)) :
                    /\ SubSeq(text, n + 1, n + Len(s)) = s
                    /\ i \in (n + 1)..(n + Len(s))
        kept  == SelectSeq([i \in 1..Len(text) |-> i], LAMBDA i : ~In(i))
    IN  [k \in 1..Len(kept) |-> text[kept[k]]]

Blank == "_"

LStrip(text) == From(text, Min({i \in 1..Len(text) : text[i] # Blank} \cup {Len(text) + 1}) - 1)
RStrip(text) == Upto(text, Max({i \in 1..Len(text) : text[i] # Blank} \cup {0}))
Strip(text)  == LStrip(RStrip(text))

(* The length of the longest end of the text that is a proper beginning of *)
(* one of the markers: what may still grow into a marker                   *)
HeldLen(text, markers) ==
    Max({0} \cup {i \in 1..Len(text) :
          \E s \in markers : i < Len(s) /\ IsSuffix(Upto(s, i), text)})
=============================================================================
