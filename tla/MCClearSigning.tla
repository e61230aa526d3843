--------------------------- MODULE MCClearSigning ---------------------------
(***************************************************************************)
(* ClearSigning with narrow fields and real ASCII: one byte of selector,   *)
(* padding and address, two bytes of amount, texts "SII.Fxhh " of nine     *)
(* bytes, two bytes to a field element, and the field modulo 65537.        *)
(***************************************************************************)
EXTENDS ClearSigning

MCSelector == <<169>>
MCPrefix   == <<83>>
MCMiddle   == <<120>>

Calldata(addr, amount) == build_transfer_calldata(<<addr>>, amount)

Rendered(c) == <<c, render_transfer_text(c)>>

(* Every address with one amount, every amount with one address, in digits *)
(* and beyond them (no text: Err is not a witness).                        *)
Renderings ==
  {Rendered(Calldata(addr, 125)) : addr \in Byte}
  \cup {Rendered(Calldata(175, amount)) : amount \in 0 .. AMOUNT_MAX - 1}

Bases == {Rendered(Calldata(x[1], x[2])) : x \in {<<175, 10>>, <<9, 990>>}}

(* One byte edited, to anything. *)
Edited1(s) == {[s EXCEPT ![k] = v] : k \in DOMAIN s, v \in Byte}

(* Two bytes edited, to characters near a boundary of the template. *)
Alphabet   == {0, 32, 48, 49, 56, 57, 58, 74, 97, 102}
Edited2(s) == {[s EXCEPT ![k] = v, ![l] = w] : k, l \in DOMAIN s, v, w \in Alphabet}

(* Edited call data with the text as it was, and with a text that renders  *)
(* its amount modulo 1000.                                                 *)
BeyondDigits == {<<Calldata(175, a), Rendered(Calldata(175, a % AMOUNT_MAX))[2]>> :
                   a \in {AMOUNT_MAX, AMOUNT_MAX + 9, 65000, 65535}}

(* Sessions: two transfers that differ in the amount, one in the address,  *)
(* a text that does not render, and one that is not padded.                *)
FewWitnesses ==
  {Rendered(Calldata(175, 9)), Rendered(Calldata(175, 0)), Rendered(Calldata(0, 9)),
   <<Calldata(0, 9), Rendered(Calldata(175, 0))[2]>>,
   <<Calldata(0, 9), SubSeq(Rendered(Calldata(0, 9))[2], 1, HEX_END)>>}

MCWitnesses ==
  Renderings \cup BeyondDigits \cup FewWitnesses
  \cup UNION {{<<b[1], t>> : t \in Edited1(b[2]) \cup Edited2(b[2])} : b \in Bases}
  \cup UNION {{<<c, b[2]>> : c \in Edited1(b[1])} : b \in Bases}

(* Trimmed, or padded once more. *)
OtherLengths(t) ==
  IF \E w \in FewWitnesses : w[2] = t THEN {t, SubSeq(t, 1, HEX_END), t \o <<SPACE>>} ELSE {t}
=============================================================================
