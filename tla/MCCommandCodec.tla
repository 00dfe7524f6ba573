--------------------------- MODULE MCCommandCodec ---------------------------
(* An instance of CommandCodec for TLC. *)
EXTENDS CommandCodec, TLC

(* payload and timeout_ms: a length that needs two bytes, and a negative   *)
(* number.                                                                 *)
SomeValues == 3 :> {130} @@ 10 :> {-1}

(* An entry whose size needs two bytes. *)
SomeEntries ==
  {[EntrySharedCtor EXCEPT !.has = 1 .. 4, !.val = <<1, 16, 16, 100>>]}

Whole == <<Token(1, "varint", 8), Token(2, "length", 16), Token(3, "length", 1)>>

(* From other versions and broken connections: fields out of order and     *)
(* twice, values unknown to the enums, a field with another wire type, the *)
(* end of a group, a message or an entry that is cut off.                  *)
SomeInputs ==
  {<<Token(10, "varint", 5), Token(2, "length", 16), Token(2, "length", 0)>>,
   <<Token(1, "varint", 15)>> \o Whole,
   Whole \o <<Token(RegEntry, "length", <<Token(1, "varint", 2),
                                          Token(7, "length", 200)>>)>>,
   Whole \o <<Token(RegEntry, "length", <<Token(4, "cut", 0)>>)>>,
   Whole \o <<Token(8, "length", 3), Token(20, "end", 0)>>,
   SubSeq(Whole, 1, 2) \o <<Token(3, "cut", 0)>>}
============================================================================
