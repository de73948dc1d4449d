------------------------------ MODULE GopStore ------------------------------
(***************************************************************************)
(* What a buffer of GOPs promises to the segmenter that fills it and to    *)
(* the uploader that drains it, whatever the way it finds room: a GOP gets *)
(* a range of bytes inside the buffer that no GOP still held shares, a GOP *)
(* already held is never moved, and GOPs are given back oldest first.      *)
(*                                                                         *)
(* GopCircBuff is the buffer of the repository, and implements this one.   *)
(***************************************************************************)
EXTENDS Integers, Sequences

CONSTANTS Size,    \* bytes of the buffer
          Lengths  \* the lengths a GOP may have

VARIABLE live      \* the GOPs held, oldest first: records [pos, len]

(* The byte ranges of two GOPs have no byte in common. *)
Disjoint(a, b) == a.pos + a.len <= b.pos \/ b.pos + b.len <= a.pos

Inside(b) == b.pos >= 0 /\ b.pos + b.len <= Size

Init == live = << >>

Put ==
  \E n \in Lengths, p \in 0 .. Size :
    LET gop == [pos |-> p, len |-> n]
    IN  /\ Inside(gop)
        /\ \A i \in DOMAIN live : Disjoint(live[i], gop)
        /\ live' = Append(live, gop)

Take ==
  /\ live # << >>
  /\ live' = Tail(live)

Next == Put \/ Take

Spec == Init /\ [][Next]_live
=============================================================================
