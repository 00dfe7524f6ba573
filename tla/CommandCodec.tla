---------------------------- MODULE CommandCodec ----------------------------
(***************************************************************************)
(* The two messages of command.proto as the generated code keeps, writes   *)
(* and reads them: has-bits, defaults, sizes, unknown fields, merging.     *)
(* Publisher, Subscriber, Requester and Responder send ByteSize() bytes    *)
(* and rely on ParseFromArray.                                             *)
(*                                                                         *)
(* A string is its length.  The wire is a sequence of tokens, each a       *)
(* field with its tag; a "cut" token is one whose end is missing, an "end" *)
(* token one that ends a group.                                            *)
(***************************************************************************)
EXTENDS Integers, Sequences

CONSTANTS
  Values,     \* Values[f]: what is stored in field f of a Command
  Entries,    \* registry entries that are added
  Inputs,     \* sequences of tokens that come from elsewhere
  MaxEntries, \* bound on the registry entries of a message
  MaxUnknown  \* bound on the unknown fields of a message

EntryKinds == <<"enum", "string", "string", "string">>
CommandKinds == <<"enum", "string", "string", "string", "string", "string",
                  "string", "int", "int", "int">>
RegEntry == 11

VARIABLE
  obj  \* obj[1], obj[2]: two Commands of the program

vars == <<obj>>
----------------------------------------------------------------------------
(* Fields: has-bits and accessors *)

DefaultOf(kind) == IF kind = "enum" THEN 1 ELSE 0

SharedCtor(kinds) ==
  [has |-> {}, val |-> [f \in DOMAIN kinds |-> DefaultOf(kinds[f])],
   unknown |-> <<>>, reg_entry |-> <<>>]

(* A RegistryEntry has no entries of its own: its reg_entry stays empty. *)
EntrySharedCtor == SharedCtor(EntryKinds)

CommandSharedCtor == SharedCtor(CommandKinds)

set(m, f, v) == [m EXCEPT !.has = @ \cup {f}, !.val[f] = v]

(* Mutant of clear: only the has-bit goes. *)
clearHasOnly(m, f, kinds) == [m EXCEPT !.has = @ \ {f}]

clear(m, f, kinds) ==
  [m EXCEPT !.has = @ \ {f}, !.val[f] = DefaultOf(kinds[f])]

add_reg_entry(m, e) == [m EXCEPT !.reg_entry = Append(@, e)]

(* The values for which Command_Cmd_IsValid and its like are true. *)
Command_Cmds == 1 .. 14

Command_RegistryEntryTypes == {1}

EntryIsInitialized(e) == 1 .. 4 \subseteq e.has

IsInitialized(m) ==
  /\ 1 .. 3 \subseteq m.has
  /\ \A i \in DOMAIN m.reg_entry : EntryIsInitialized(m.reg_entry[i])
----------------------------------------------------------------------------
(* Writing *)

WireOf(kind) == IF kind = "string" THEN "length" ELSE "varint"

Token(f, wire, v) == [field |-> f, wire |-> wire, value |-> v]

(* A token for every field that is there, in the order of their numbers. *)
FieldsUpTo(m, kinds) ==
  LET written[f \in 0 .. Len(kinds)] ==
        IF f = 0 THEN <<>>
        ELSE IF f \in m.has
        THEN Append(written[f - 1], Token(f, WireOf(kinds[f]), m.val[f]))
        ELSE written[f - 1]
  IN  written

Fields(m, kinds) == FieldsUpTo(m, kinds)[Len(kinds)]

EntrySerialize(e) == Fields(e, EntryKinds) \o e.unknown

EntryToken(e) == Token(RegEntry, "length", EntrySerialize(e))

Serialize(m) ==
  Fields(m, CommandKinds)
  \o [i \in DOMAIN m.reg_entry |-> EntryToken(m.reg_entry[i])]
  \o m.unknown
----------------------------------------------------------------------------
(* Sizes *)

(* A varint has 7 bits in a byte; a negative int32 is extended to 64 bits. *)
VarintSize(v) == CASE v < 0 -> 10
                   [] 0 =< v /\ v < 128 -> 1
                   [] 128 =< v /\ v < 16384 -> 2
                   [] 16384 =< v /\ v < 2097152 -> 3
                   [] 2097152 =< v /\ v < 268435456 -> 4
                   [] 268435456 =< v -> 5

LengthSize(n) == VarintSize(n) + n

TagSize(f) == VarintSize(8 * f + 2)

(* The values of total_size while the sizes are added to it. *)
TotalUpTo(sizes) ==
  LET total_size[k \in 0 .. Len(sizes)] ==
        IF k = 0 THEN 0 ELSE total_size[k - 1] + sizes[k]
  IN  total_size

Total(sizes) == TotalUpTo(sizes)[Len(sizes)]

(* The bytes of a token, without and with a message in it. *)
FlatSize(t) ==
  TagSize(t.field)
  + (IF t.wire = "length" THEN LengthSize(t.value) ELSE VarintSize(t.value))

FlatTotal(tokens) == Total([i \in DOMAIN tokens |-> FlatSize(tokens[i])])

HoldsEntry(t) == t.field = RegEntry /\ t.wire = "length"

WireSize(t) ==
  IF HoldsEntry(t) THEN TagSize(t.field) + LengthSize(FlatTotal(t.value))
  ELSE FlatSize(t)

WireTotal(tokens) == Total([i \in DOMAIN tokens |-> WireSize(tokens[i])])

(* Mutant of FieldSize: a negative number has 32 bits. *)
FieldSizeShort(kind, v) ==
  1 + (IF kind = "string" THEN LengthSize(v)
       ELSE IF v < 0 THEN 5 ELSE VarintSize(v))

(* What ByteSize adds for a field, with the size of its tag known. *)
FieldSize(kind, v) ==
  1 + (IF kind = "string" THEN LengthSize(v) ELSE VarintSize(v))

FieldsSize(m, kinds) ==
  Total([f \in DOMAIN kinds |->
           IF f \in m.has THEN FieldSize(kinds[f], m.val[f]) ELSE 0])

EntryByteSize(e) == FieldsSize(e, EntryKinds) + FlatTotal(e.unknown)

ByteSize(m) ==
  FieldsSize(m, CommandKinds)
  + Len(m.reg_entry)
  + Total([i \in DOMAIN m.reg_entry |->
             LengthSize(EntryByteSize(m.reg_entry[i]))])
  + FlatTotal(m.unknown)
----------------------------------------------------------------------------
(* Reading.  A parse is a message with what became of the input: "go",     *)
(* "fail" or, at a token that ends a group, "stop".                        *)

AddUnknown(m, t) == [m EXCEPT !.unknown = Append(@, t)]

(* mutable_x() sets the has-bit of a string before it is read. *)
ReadCut(m, t, kinds) ==
  IF t.field \in DOMAIN kinds /\ kinds[t.field] = "string"
  THEN set(m, t.field, 0) ELSE m

(* A field of the message that has its wire type; others are kept as       *)
(* unknown, and so are values that are not of an enum.                     *)
Known(t, kinds, valid) ==
  /\ t.field \in DOMAIN kinds /\ t.wire = WireOf(kinds[t.field])
  /\ kinds[t.field] = "enum" => t.value \in valid

ReadField(m, t, kinds, valid) ==
  IF Known(t, kinds, valid) THEN set(m, t.field, t.value) ELSE AddUnknown(m, t)

(* One round of the loop over the tags. *)
ReadTag(p, t, kinds, valid) ==
  CASE p.state # "go" -> p
    [] p.state = "go" /\ t.wire = "cut" ->
         [msg |-> ReadCut(p.msg, t, kinds), state |-> "fail"]
    [] p.state = "go" /\ t.wire = "end" -> [p EXCEPT !.state = "stop"]
    [] OTHER -> [p EXCEPT !.msg = ReadField(@, t, kinds, valid)]

EntryReadTag(p, t) == ReadTag(p, t, EntryKinds, Command_RegistryEntryTypes)

EntryRounds(e, tokens) ==
  LET parse[n \in 0 .. Len(tokens)] ==
        IF n = 0 THEN [msg |-> e, state |-> "go"]
        ELSE EntryReadTag(parse[n - 1], tokens[n])
  IN  parse

EntryMergePartial(e, tokens) == EntryRounds(e, tokens)[Len(tokens)]

(* case 11: add_reg_entry() and its contents, which have to end properly *)
ReadRegEntry(p, t) ==
  LET e == EntryMergePartial(EntrySharedCtor, t.value)
  IN  [msg |-> add_reg_entry(p.msg, e.msg),
       state |-> IF e.state = "go" THEN "go" ELSE "fail"]

CommandReadTag(p, t) ==
  IF p.state = "go" /\ HoldsEntry(t) THEN ReadRegEntry(p, t)
  ELSE ReadTag(p, t, CommandKinds, Command_Cmds)

CommandRounds(m, tokens) ==
  LET parse[n \in 0 .. Len(tokens)] ==
        IF n = 0 THEN [msg |-> m, state |-> "go"]
        ELSE CommandReadTag(parse[n - 1], tokens[n])
  IN  parse

MergePartialFromCodedStream(m, tokens) == CommandRounds(m, tokens)[Len(tokens)]

(* Mutant of Clear: the registry entries stay. *)
ClearFieldsOnly(m) == [CommandSharedCtor EXCEPT !.reg_entry = m.reg_entry]

Clear(m) == CommandSharedCtor

(* ParseFromArray of libprotobuf *)
ParseFromArray(m, tokens) ==
  LET p == MergePartialFromCodedStream(Clear(m), tokens)
  IN  [msg |-> p.msg, ok |-> p.state = "go" /\ IsInitialized(p.msg)]
----------------------------------------------------------------------------
(* Merging *)

MergeFields(m, from) ==
  [m EXCEPT !.has = @ \cup from.has,
            !.val = [f \in DOMAIN @ |-> IF f \in from.has THEN from.val[f]
                                        ELSE @[f]],
            !.unknown = @ \o from.unknown]

EntryMergeFrom(e, from) == MergeFields(e, from)

(* Mutant of MergeFrom: repeated fields are replaced. *)
MergeFromReplaces(m, from) ==
  [MergeFields(m, from) EXCEPT !.reg_entry = from.reg_entry]

(* reg_entry_.MergeFrom adds new entries and merges into them. *)
MergeFrom(m, from) ==
  [MergeFields(m, from) EXCEPT
     !.reg_entry = @ \o [i \in DOMAIN from.reg_entry |->
                           EntryMergeFrom(EntrySharedCtor, from.reg_entry[i])]]

CopyFrom(m, from) == MergeFrom(Clear(m), from)
----------------------------------------------------------------------------
(* A program with two Commands *)

Bounded(m) == Len(m.reg_entry) =< MaxEntries /\ Len(m.unknown) =< MaxUnknown

Change(i, m) ==
  /\ Bounded(m)
  /\ obj' = [obj EXCEPT ![i] = m]

SetField(i) == \E f \in DOMAIN Values : \E v \in Values[f] :
                 Change(i, set(obj[i], f, v))

ClearField(i) == \E f \in DOMAIN Values : Change(i, clear(obj[i], f, CommandKinds))

AddRegEntry(i) == \E e \in Entries : Change(i, add_reg_entry(obj[i], e))

ClearAll(i) == Change(i, Clear(obj[i]))

Merge(i) == Change(i, MergeFrom(obj[i], obj[3 - i]))

Copy(i) == Change(i, CopyFrom(obj[i], obj[3 - i]))

Swap == obj' = [i \in 1 .. 2 |-> obj[3 - i]]

Parse(i) ==
  \E tokens \in Inputs \cup {Serialize(obj[3 - i])} :
    Change(i, ParseFromArray(obj[i], tokens).msg)

Init == obj = [i \in 1 .. 2 |-> CommandSharedCtor]

Next ==
  \/ Swap
  \/ \E i \in 1 .. 2 :
       \/ SetField(i) \/ ClearField(i) \/ AddRegEntry(i) \/ ClearAll(i)
       \/ Merge(i) \/ Copy(i) \/ Parse(i)

Spec == Init /\ [][Next]_vars
----------------------------------------------------------------------------
(* Types *)

(* A token of a Command holds a number, or the tokens of an entry. *)
FlatTokens ==
  [field : Nat \ {0}, wire : {"varint", "length", "cut", "end"}, value : Int]

PlainTokens == {t \in FlatTokens : ~HoldsEntry(t)}

EntryTokens ==
  [field : {RegEntry}, wire : {"length"}, value : Seq(FlatTokens)]

Tokens == EntryTokens \cup PlainTokens

(* A whole token that is not a field of the message. *)
Foreign(t, kinds, valid) ==
  t.wire \in {"varint", "length"} /\ ~Known(t, kinds, valid)

(* A field that is not there has its default, an enum a value of its type, *)
(* and what is kept as unknown is foreign.                                 *)
WellFormed(m, kinds, valid) ==
  /\ \A f \in DOMAIN kinds \ m.has : m.val[f] = DefaultOf(kinds[f])
  /\ m.val[1] \in valid
  /\ \A i \in DOMAIN m.unknown : Foreign(m.unknown[i], kinds, valid)

Messages(kinds, valid, tokens, entries) ==
  {m \in [has : SUBSET DOMAIN kinds, val : [DOMAIN kinds -> Int],
          unknown : Seq(tokens), reg_entry : Seq(entries)] :
     WellFormed(m, kinds, valid)}

RegistryEntries ==
  Messages(EntryKinds, Command_RegistryEntryTypes, FlatTokens, {})

Commands ==
  Messages(CommandKinds, Command_Cmds, PlainTokens, RegistryEntries)

(* What the program may store, and what may arrive.  set_cmd asserts that  *)
(* its value is one of the enum.                                           *)
ASSUME CodecAssumption ==
  /\ DOMAIN Values \subseteq DOMAIN CommandKinds
  /\ \A f \in DOMAIN Values :
       Values[f] \subseteq (IF f = 1 THEN Command_Cmds ELSE Int)
  /\ Entries \subseteq RegistryEntries
  /\ Inputs \subseteq Seq(Tokens)
  /\ {MaxEntries, MaxUnknown} \subseteq Nat
----------------------------------------------------------------------------
(* Properties *)

(* A field that is not there reads as its default: PublishReq and others   *)
(* read recursion and guid_from without asking for their has-bits.  An     *)
(* enum has a value of its type, also if the sender knows more of them,    *)
(* and what is unknown is never a field that could have been read.         *)
TypeOK == obj \in [1 .. 2 -> Commands]

(* What is written and read again is the same message, with the fields     *)
(* that this version does not know, whatever was in the object before.     *)
RoundTrip ==
  \A i, j \in 1 .. 2 :
    ParseFromArray(obj[j], Serialize(obj[i])) =
      [msg |-> obj[i], ok |-> IsInitialized(obj[i])]

(* ByteSize, by which Publish and the others allocate, is the number of    *)
(* bytes that are written.                                                 *)
SizeExact == \A i \in 1 .. 2 : ByteSize(obj[i]) = WireTotal(Serialize(obj[i]))

(* Reading the bytes of a message on top of another is merging the two. *)
MergeIsConcatenation ==
  MergePartialFromCodedStream(obj[1], Serialize(obj[2])) =
    [msg |-> MergeFrom(obj[1], obj[2]), state |-> "go"]
============================================================================
