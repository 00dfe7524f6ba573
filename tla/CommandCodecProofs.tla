------------------------- MODULE CommandCodecProofs -------------------------
(***************************************************************************)
(* The message codec for messages of every size: reading inverts writing,  *)
(* ByteSize counts the bytes that are written, and reading the bytes of a  *)
(* message into another is merging the two.                                *)
(***************************************************************************)
EXTENDS CommandCodec, WellFoundedInduction, TLAPS

----------------------------------------------------------------------------
(* Induction and recursion up to a number, and induction over sequences.   *)
(* What is to be shown is a set, not a formula, of numbers or sequences.   *)

(* A set with 0 that has every number up to n after its predecessor. *)
LEMMA Induction ==
  ASSUME NEW n \in Nat, NEW S, 0 \in S,
         \A i \in 1 .. n : i - 1 \in S => i \in S
  PROVE  0 .. n \subseteq S
<1> DEFINE T == {i \in 0 .. n : i \notin S}
           L == {ss \in Nat \X Nat : ss[1] < ss[2]}
<1> SUFFICES ASSUME T # {} PROVE FALSE
  OBVIOUS
<1>1. T \subseteq Nat
  OBVIOUS
<1>2. IsWellFoundedOn(L, Nat)
  BY NatLessThanWellFounded DEF OpToRel
<1>3. \A x, y \in Nat : x < y => <<x, y>> \in L
  OBVIOUS
<1> HIDE DEF L
<1>4. PICK i \in T : \A j \in T : ~(<<j, i>> \in L)
  <2> HIDE DEF T
  <2> QED BY <1>1, <1>2, WFMin
<1>5. i \in 1 .. n /\ i - 1 \in 0 .. n /\ i - 1 < i /\ i - 1 \in Nat /\ i \in Nat
  BY <1>1
<1>6. i - 1 \notin T
  BY <1>3, <1>4, <1>5
<1> QED BY <1>4, <1>5, <1>6

(* f starts with base and goes on with the functions G[1], G[2], ... *)
Iterates(f, n, V, base, G) ==
  /\ f \in [0 .. n -> V]
  /\ f[0] = base
  /\ \A i \in 1 .. n : f[i] = G[i][f[i - 1]]

(* There is such a function. *)
LEMMA Recursion ==
  ASSUME NEW n \in Nat, NEW V, NEW base \in V, NEW G \in [1 .. n -> [V -> V]]
  PROVE  \E f : Iterates(f, n, V, base, G)
<1> DEFINE S == {k \in 0 .. n : \E f : Iterates(f, k, V, base, G)}
<1>1. 0 \in S
  <2> DEFINE f == [i \in 0 .. 0 |-> base]
  <2>1. Iterates(f, 0, V, base, G)
    BY DEF Iterates
  <2> HIDE DEF f
  <2> QED  BY <2>1
<1>2. ASSUME NEW k \in 1 .. n, k - 1 \in S PROVE k \in S
  <2>1. PICK f : Iterates(f, k - 1, V, base, G)
    BY <1>2
  <2> DEFINE g == [i \in 0 .. k |-> IF i = k THEN G[k][f[k - 1]] ELSE f[i]]
  <2>2. k - 1 \in 0 .. k - 1 /\ k \in 0 .. n
    OBVIOUS
  <2>3. f \in [0 .. k - 1 -> V] /\ G[k][f[k - 1]] \in V
    BY <2>1, <2>2 DEF Iterates
  <2>4. g \in [0 .. k -> V]
    BY <2>3
  <2>5. g[0] = base
    BY <2>1 DEF Iterates
  <2>6. ASSUME NEW i \in 1 .. k PROVE g[i] = G[i][g[i - 1]]
    BY <2>1 DEF Iterates
  <2> HIDE DEF g
  <2>7. Iterates(g, k, V, base, G)
    BY <2>4, <2>5, <2>6 DEF Iterates
  <2> QED  BY <2>2, <2>7
<1> HIDE DEF S
<1>3. 0 .. n \subseteq S
  BY <1>1, <1>2, Induction
<1>4. n \in S
  BY <1>3
<1> QED  BY <1>4 DEF S

(* A function whose values stay in V from one number to the next. *)
LEMMA StaysIn ==
  ASSUME NEW n \in Nat, NEW V, NEW F, F = [k \in 0 .. n |-> F[k]],
         F[0] \in V, \A k \in 1 .. n : F[k - 1] \in V => F[k] \in V
  PROVE  F \in [0 .. n -> V]
<1> DEFINE S == {k \in 0 .. n : F[k] \in V}
<1>1. 0 \in S
  OBVIOUS
<1>2. ASSUME NEW k \in 1 .. n, k - 1 \in S PROVE k \in S
  <2>1. F[k - 1] \in V /\ k \in 0 .. n
    BY <1>2
  <2> QED BY <2>1
<1>3. 0 .. n \subseteq S
  <2> HIDE DEF S
  <2> QED BY <1>1, <1>2, Induction
<1>4. \A k \in 0 .. n : F[k] \in V
  BY <1>3
<1> QED BY <1>4

(* Two functions that agree at 0 and, where they agree, at the next number. *)
LEMMA StayEqual ==
  ASSUME NEW n \in Nat, NEW F, NEW G, F[0] = G[0],
         \A k \in 1 .. n : F[k - 1] = G[k - 1] => F[k] = G[k]
  PROVE  F[n] = G[n]
<1> DEFINE S == {k \in 0 .. n : F[k] = G[k]}
<1>1. 0 \in S
  OBVIOUS
<1>2. ASSUME NEW k \in 1 .. n, k - 1 \in S PROVE k \in S
  <2>1. F[k - 1] = G[k - 1] /\ k \in 0 .. n
    BY <1>2
  <2> QED BY <2>1
<1>3. 0 .. n \subseteq S
  <2> HIDE DEF S
  <2> QED BY <1>1, <1>2, Induction
<1>4. n \in 0 .. n
  OBVIOUS
<1> QED BY <1>3, <1>4

(* A set of sequences with the empty one and every extension of its own. *)
LEMMA SequenceInduction ==
  ASSUME NEW T, NEW S, <<>> \in S,
         \A s \in Seq(T), t \in T : s \in S => Append(s, t) \in S
  PROVE  Seq(T) \subseteq S
<1> SUFFICES ASSUME NEW s \in Seq(T) PROVE s \in S
  OBVIOUS
<1> DEFINE n == Len(s)
           P == [k \in 0 .. n |-> SubSeq(s, 1, k)]
           K == {k \in 0 .. n : P[k] \in S}
<1>1. n \in Nat
  OBVIOUS
<1>2. P[0] = <<>> /\ P[n] = s
  OBVIOUS
<1>3. ASSUME NEW k \in 1 .. n
      PROVE  P[k - 1] \in Seq(T) /\ s[k] \in T /\ P[k] = Append(P[k - 1], s[k])
  OBVIOUS
<1> HIDE DEF P
<1>4. 0 \in K
  BY <1>1, <1>2
<1>5. ASSUME NEW k \in 1 .. n, k - 1 \in K PROVE k \in K
  <2>1. P[k - 1] \in S /\ k \in 0 .. n
    BY <1>1, <1>5
  <2>2. P[k - 1] \in Seq(T) /\ s[k] \in T /\ P[k] = Append(P[k - 1], s[k])
    BY <1>3
  <2>3. Append(P[k - 1], s[k]) \in S
    BY <2>1, <2>2
  <2>4. P[k] \in S
    BY <2>2, <2>3
  <2> QED BY <2>1, <2>4
<1>6. 0 .. n \subseteq K
  <2> HIDE DEF K, n
  <2> QED BY <1>1, <1>4, <1>5, Induction
<1>7. n \in K
  BY <1>1, <1>6
<1> QED BY <1>2, <1>7

(* What Append and \o do, index by index *)
LEMMA AppendFacts ==
  ASSUME NEW T, NEW s \in Seq(T), NEW t \in T
  PROVE  /\ Append(s, t) \in Seq(T)
         /\ Len(Append(s, t)) = Len(s) + 1
         /\ DOMAIN Append(s, t) = 1 .. Len(s) + 1
         /\ \A i \in 1 .. Len(s) : Append(s, t)[i] = s[i]
         /\ Append(s, t)[Len(s) + 1] = t
OBVIOUS

LEMMA ConcatAppend ==
  ASSUME NEW T, NEW s \in Seq(T), NEW u \in Seq(T), NEW t \in T
  PROVE  s \o Append(u, t) = Append(s \o u, t)
OBVIOUS

LEMMA ConcatEmpty ==
  ASSUME NEW T, NEW s \in Seq(T)
  PROVE  s \o <<>> = s /\ <<>> \o s = s
OBVIOUS
----------------------------------------------------------------------------
(* Sums *)

(* TotalUpTo is what its recursive definition says. *)
LEMMA TotalUpToDef ==
  ASSUME NEW s \in Seq(Int)
  PROVE  /\ TotalUpTo(s) \in [0 .. Len(s) -> Int]
         /\ TotalUpTo(s)[0] = 0
         /\ \A k \in 1 .. Len(s) : TotalUpTo(s)[k] = TotalUpTo(s)[k - 1] + s[k]
<1> DEFINE n == Len(s)
           V == Int
           G == [k \in 1 .. n |-> [v \in V |-> v + s[k]]]
           Eq(f) == f = [k \in 0 .. n |-> IF k = 0 THEN 0 ELSE f[k - 1] + s[k]]
           F == TotalUpTo(s)
<1>1. n \in Nat /\ 0 \in V /\ \A k \in 1 .. n : s[k] \in V
  OBVIOUS
<1>2. F = CHOOSE f : Eq(f)
  BY DEF TotalUpTo
<1>3. \A u, v \in V : u + v \in V
  OBVIOUS
<1> HIDE DEF n, F, V
<1>4. G \in [1 .. n -> [V -> V]]
  BY <1>1, <1>3
<1>5. PICK g : Iterates(g, n, V, 0, G)
  <2> HIDE DEF G
  <2> QED BY <1>1, <1>4, Recursion, Zenon
<1>6. g \in [0 .. n -> V] /\ g[0] = 0
  BY <1>5 DEF Iterates
<1>7. ASSUME NEW k \in 1 .. n PROVE g[k] = g[k - 1] + s[k]
  <2>1. g[k - 1] \in V /\ g[k] = G[k][g[k - 1]]
    BY <1>1, <1>5 DEF Iterates
  <2> QED BY <2>1
<1>8. Eq(g)
  <2> DEFINE h == [k \in 0 .. n |-> IF k = 0 THEN 0 ELSE g[k - 1] + s[k]]
  <2>1. ASSUME NEW k \in 0 .. n PROVE g[k] = h[k]
    BY <1>1, <1>6, <1>7
  <2> QED BY <1>6, <2>1
<1>9. Eq(F)
  <2> HIDE DEF Eq
  <2> QED BY <1>2, <1>8
<1>10. F = [k \in 0 .. n |-> F[k]]
  <2> DEFINE h == [k \in 0 .. n |-> IF k = 0 THEN 0 ELSE F[k - 1] + s[k]]
  <2>1. h = [k \in 0 .. n |-> h[k]]
    OBVIOUS
  <2>2. F = h
    BY <1>9
  <2> HIDE DEF h
  <2> QED BY <2>1, <2>2
<1>11. F[0] = 0
  BY <1>1, <1>9
<1>12. ASSUME NEW k \in 1 .. n PROVE F[k] = F[k - 1] + s[k]
  <2>1. k \in 0 .. n /\ k # 0
    BY <1>1
  <2> QED BY <1>9, <2>1
<1>13. F \in [0 .. n -> V]
  <2>1. F[0] \in V /\ \A k \in 1 .. n : F[k - 1] \in V => F[k] \in V
    BY <1>1, <1>3, <1>11, <1>12
  <2> QED BY <1>1, <1>10, <2>1, StaysIn, Zenon
<1> QED BY <1>11, <1>12, <1>13 DEF F, n, V

(* A number more at the end *)
LEMMA TotalAppend ==
  ASSUME NEW s \in Seq(Int), NEW x \in Int
  PROVE  Total(Append(s, x)) = Total(s) + x /\ Total(s) \in Int
<1> DEFINE n == Len(s)
           F == TotalUpTo(s)
           a == Append(s, x)
           G == TotalUpTo(a)
<1>1. /\ n \in Nat /\ a \in Seq(Int) /\ Len(a) = n + 1 /\ a[n + 1] = x
      /\ \A k \in 1 .. n : a[k] = s[k]
  OBVIOUS
<1>2. F \in [0 .. n -> Int] /\ F[0] = 0 /\ \A k \in 1 .. n : F[k] = F[k - 1] + s[k]
  BY TotalUpToDef
<1>3. G[0] = 0 /\ \A k \in 1 .. n + 1 : G[k] = G[k - 1] + a[k]
  <2> HIDE DEF a
  <2> QED BY <1>1, TotalUpToDef
<1> HIDE DEF F, G, a, n
<1>4. G[n] = F[n]
  <2>1. G[0] = F[0]
    BY <1>2, <1>3
  <2>2. ASSUME NEW k \in 1 .. n, G[k - 1] = F[k - 1] PROVE G[k] = F[k]
    <3>1. k \in 1 .. n + 1
      BY <1>1
    <3>2. G[k] = G[k - 1] + a[k] /\ F[k] = F[k - 1] + s[k] /\ a[k] = s[k]
      BY <1>1, <1>2, <1>3, <3>1
    <3> QED BY <2>2, <3>2
  <2> QED BY <1>1, <2>1, <2>2, StayEqual
<1>5. F[n] \in Int
  BY <1>1, <1>2
<1>6. G[n + 1] = F[n] + x
  BY <1>1, <1>3, <1>4
<1> QED BY <1>1, <1>5, <1>6 DEF Total, F, G, a, n

(* Nothing to add *)
LEMMA TotalEmpty == Total(<<>>) = 0
<1>1. <<>> \in Seq(Int) /\ Len(<<>>) = 0
  OBVIOUS
<1> QED BY <1>1, TotalUpToDef DEF Total

(* The sum of size over a sequence *)
SumOf(size, s) == Total([i \in DOMAIN s |-> size[s[i]]])

(* It is a number, and 0 of nothing. *)
LEMMA SumOfType ==
  ASSUME NEW T, NEW size \in [T -> Int], NEW s \in Seq(T)
  PROVE  SumOf(size, <<>>) = 0 /\ SumOf(size, s) \in Int
<1> DEFINE a == [i \in DOMAIN s |-> size[s[i]]]
<1>1. [i \in DOMAIN <<>> |-> size[<<>>[i]]] = <<>>
  OBVIOUS
<1>2. a \in Seq(Int) /\ 0 \in Int
  OBVIOUS
<1> HIDE DEF a
<1>3. Total(a) \in Int
  BY <1>2, TotalAppend
<1> QED BY <1>1, <1>3, TotalEmpty DEF SumOf, a

(* One more at the end *)
LEMMA SumOfAppend ==
  ASSUME NEW T, NEW size \in [T -> Int], NEW s \in Seq(T), NEW t \in T
  PROVE  SumOf(size, Append(s, t)) = SumOf(size, s) + size[t]
<1> DEFINE n == Len(s)
           a == [i \in DOMAIN s |-> size[s[i]]]
           b == [i \in DOMAIN Append(s, t) |-> size[Append(s, t)[i]]]
<1>1. /\ n \in Nat /\ DOMAIN s = 1 .. n /\ DOMAIN Append(s, t) = 1 .. n + 1
      /\ \A i \in 1 .. n : Append(s, t)[i] = s[i] /\ s[i] \in T
      /\ Append(s, t)[n + 1] = t
  OBVIOUS
<1> HIDE DEF n
<1>2. a \in Seq(Int) /\ Len(a) = n /\ size[t] \in Int /\ \A i \in 1 .. n : a[i] = size[s[i]]
  BY <1>1
<1>3. b = Append(a, size[t])
  <2> DEFINE c == Append(a, size[t])
  <2> HIDE DEF a
  <2>1. /\ c \in Seq(Int) /\ DOMAIN c = 1 .. n + 1
        /\ \A i \in 1 .. n : c[i] = a[i]
        /\ c[n + 1] = size[t]
    BY <1>2, AppendFacts
  <2> HIDE DEF c
  <2>2. ASSUME NEW i \in 1 .. n + 1 PROVE size[Append(s, t)[i]] = c[i]
    <3>1. i \in 1 .. n \/ i = n + 1
      BY <1>1
    <3> QED BY <1>1, <1>2, <2>1, <3>1
  <2>3. c = [i \in 1 .. n + 1 |-> c[i]]
    BY <2>1
  <2>4. b = c
    BY <1>1, <2>2, <2>3
  <2> QED BY <2>4 DEF c
<1> HIDE DEF a, b
<1>4. Total(b) = Total(a) + size[t]
  BY <1>2, <1>3, TotalAppend
<1> QED BY <1>4 DEF SumOf, a, b

(* The sum over two sequences in a row *)
LEMMA SumOfConcat ==
  ASSUME NEW T, NEW size \in [T -> Int], NEW a \in Seq(T), NEW b \in Seq(T)
  PROVE  SumOf(size, a \o b) = SumOf(size, a) + SumOf(size, b)
<1> DEFINE S == {u \in Seq(T) : SumOf(size, a \o u) = SumOf(size, a) + SumOf(size, u)}
<1>1. <<>> \in S
  <2>1. a \o <<>> = a /\ <<>> \in Seq(T)
    BY ConcatEmpty
  <2>2. <<>> \in S <=> SumOf(size, a) = SumOf(size, a) + SumOf(size, <<>>)
    BY <2>1
  <2>3. SumOf(size, <<>>) = 0 /\ SumOf(size, a) \in Int
    BY SumOfType
  <2> QED BY <2>2, <2>3
<1>2. ASSUME NEW u \in Seq(T), NEW x \in T, u \in S
      PROVE  Append(u, x) \in S
  <2>1. a \o Append(u, x) = Append(a \o u, x) /\ a \o u \in Seq(T)
    <3>1. a \o Append(u, x) = Append(a \o u, x)
      BY ConcatAppend
    <3>2. a \o u \in Seq(T)
      OBVIOUS
    <3> QED BY <3>1, <3>2, Zenon
  <2>2. SumOf(size, a \o u) = SumOf(size, a) + SumOf(size, u)
    BY <1>2
  <2>3. SumOf(size, Append(a \o u, x)) = SumOf(size, a \o u) + size[x]
    BY <2>1, SumOfAppend
  <2>4. /\ SumOf(size, Append(u, x)) = SumOf(size, u) + size[x]
        /\ SumOf(size, u) \in Int /\ SumOf(size, a) \in Int /\ size[x] \in Int
    BY SumOfAppend, SumOfType
  <2>5. Append(u, x) \in Seq(T)
    OBVIOUS
  <2>6. SumOf(size, a \o Append(u, x)) = SumOf(size, a) + SumOf(size, Append(u, x))
    BY <2>1, <2>2, <2>3, <2>4
  <2> QED BY <2>5, <2>6
<1>3. Seq(T) \subseteq S
  <2> HIDE DEF S
  <2> QED BY <1>1, <1>2, SequenceInduction
<1> QED BY <1>3
----------------------------------------------------------------------------
(* Messages.  What follows is said once for both: kinds are the fields of  *)
(* the message, valid the values of its enum.                              *)

Schema(kinds, valid) ==
  /\ kinds \in Seq({"enum", "string", "int"})
  /\ Len(kinds) \in 1 .. 10
  /\ kinds[1] = "enum"
  /\ \A f \in 2 .. Len(kinds) : kinds[f] # "enum"
  /\ valid \subseteq Int /\ 1 \in valid

(* The fields of a RegistryEntry *)
LEMMA EntrySchema == Schema(EntryKinds, Command_RegistryEntryTypes) /\ Len(EntryKinds) = 4
BY DEF Schema, EntryKinds, Command_RegistryEntryTypes

(* The fields of a Command *)
LEMMA CommandSchema == Schema(CommandKinds, Command_Cmds) /\ Len(CommandKinds) = 10
BY DEF Schema, CommandKinds, Command_Cmds

Message(h, v, u, r) == [has |-> h, val |-> v, unknown |-> u, reg_entry |-> r]

(* A message is its four fields; what each update makes of them. *)
LEMMA MessageFields ==
  ASSUME NEW a, a = [x \in {"has", "val", "unknown", "reg_entry"} |-> a[x]]
  PROVE  a = Message(a.has, a.val, a.unknown, a.reg_entry)
BY DEF Message

LEMMA SetParts ==
  ASSUME NEW h, NEW v, NEW u, NEW r, NEW f, NEW y
  PROVE  set(Message(h, v, u, r), f, y) =
           Message(h \cup {f}, [v EXCEPT ![f] = y], u, r)
<1> DEFINE m == Message(h, v, u, r)
           a == set(m, f, y)
<1>1. /\ DOMAIN m = {"has", "val", "unknown", "reg_entry"}
      /\ m.has = h /\ m.val = v /\ m.unknown = u /\ m.reg_entry = r
  BY DEF Message
<1> HIDE DEF m
<1>2. a.has = h \cup {f}
  BY <1>1 DEF set
<1>3. a.val = [v EXCEPT ![f] = y]
  BY <1>1 DEF set
<1>4. a.unknown = u
  BY <1>1 DEF set
<1>5. a.reg_entry = r
  BY <1>1 DEF set
<1>6. a = [x \in {"has", "val", "unknown", "reg_entry"} |-> a[x]]
  BY <1>1 DEF set
<1> HIDE DEF a
<1>7. a = Message(a.has, a.val, a.unknown, a.reg_entry)
  BY <1>6, MessageFields
<1> QED BY <1>2, <1>3, <1>4, <1>5, <1>7 DEF a, m

LEMMA ClearParts ==
  ASSUME NEW h, NEW v, NEW u, NEW r, NEW f, NEW kinds
  PROVE  clear(Message(h, v, u, r), f, kinds) =
           Message(h \ {f}, [v EXCEPT ![f] = DefaultOf(kinds[f])], u, r)
<1> DEFINE m == Message(h, v, u, r)
           a == clear(m, f, kinds)
<1>1. /\ DOMAIN m = {"has", "val", "unknown", "reg_entry"}
      /\ m.has = h /\ m.val = v /\ m.unknown = u /\ m.reg_entry = r
  BY DEF Message
<1> HIDE DEF m
<1>2. a.has = h \ {f}
  BY <1>1 DEF clear
<1>3. a.val = [v EXCEPT ![f] = DefaultOf(kinds[f])]
  BY <1>1 DEF clear
<1>4. a.unknown = u
  BY <1>1 DEF clear
<1>5. a.reg_entry = r
  BY <1>1 DEF clear
<1>6. a = [x \in {"has", "val", "unknown", "reg_entry"} |-> a[x]]
  BY <1>1 DEF clear
<1> HIDE DEF a
<1>7. a = Message(a.has, a.val, a.unknown, a.reg_entry)
  BY <1>6, MessageFields
<1> QED BY <1>2, <1>3, <1>4, <1>5, <1>7 DEF a, m

LEMMA AddUnknownParts ==
  ASSUME NEW h, NEW v, NEW u, NEW r, NEW t
  PROVE  AddUnknown(Message(h, v, u, r), t) =
           Message(h, v, Append(u, t), r)
<1> DEFINE m == Message(h, v, u, r)
           a == AddUnknown(m, t)
<1>1. /\ DOMAIN m = {"has", "val", "unknown", "reg_entry"}
      /\ m.has = h /\ m.val = v /\ m.unknown = u /\ m.reg_entry = r
  BY DEF Message
<1> HIDE DEF m
<1>2. a.has = h
  BY <1>1 DEF AddUnknown
<1>3. a.val = v
  BY <1>1 DEF AddUnknown
<1>4. a.unknown = Append(u, t)
  BY <1>1 DEF AddUnknown
<1>5. a.reg_entry = r
  BY <1>1 DEF AddUnknown
<1>6. a = [x \in {"has", "val", "unknown", "reg_entry"} |-> a[x]]
  BY <1>1 DEF AddUnknown
<1> HIDE DEF a
<1>7. a = Message(a.has, a.val, a.unknown, a.reg_entry)
  BY <1>6, MessageFields
<1> QED BY <1>2, <1>3, <1>4, <1>5, <1>7 DEF a, m

LEMMA AddEntryParts ==
  ASSUME NEW h, NEW v, NEW u, NEW r, NEW e
  PROVE  add_reg_entry(Message(h, v, u, r), e) =
           Message(h, v, u, Append(r, e))
<1> DEFINE m == Message(h, v, u, r)
           a == add_reg_entry(m, e)
<1>1. /\ DOMAIN m = {"has", "val", "unknown", "reg_entry"}
      /\ m.has = h /\ m.val = v /\ m.unknown = u /\ m.reg_entry = r
  BY DEF Message
<1> HIDE DEF m
<1>2. a.has = h
  BY <1>1 DEF add_reg_entry
<1>3. a.val = v
  BY <1>1 DEF add_reg_entry
<1>4. a.unknown = u
  BY <1>1 DEF add_reg_entry
<1>5. a.reg_entry = Append(r, e)
  BY <1>1 DEF add_reg_entry
<1>6. a = [x \in {"has", "val", "unknown", "reg_entry"} |-> a[x]]
  BY <1>1 DEF add_reg_entry
<1> HIDE DEF a
<1>7. a = Message(a.has, a.val, a.unknown, a.reg_entry)
  BY <1>6, MessageFields
<1> QED BY <1>2, <1>3, <1>4, <1>5, <1>7 DEF a, m

(* A message is its four parts. *)
LEMMA MessageParts ==
  ASSUME NEW kinds, NEW valid, Schema(kinds, valid), NEW T, NEW E,
         NEW m \in Messages(kinds, valid, T, E)
  PROVE  /\ m = Message(m.has, m.val, m.unknown, m.reg_entry)
         /\ m.has \subseteq 1 .. Len(kinds)
         /\ m.val \in [1 .. Len(kinds) -> Int]
         /\ m.unknown \in Seq(T)
         /\ m.reg_entry \in Seq(E)
         /\ \A g \in 1 .. Len(kinds) : g \notin m.has => m.val[g] = DefaultOf(kinds[g])
         /\ m.val[1] \in valid
         /\ \A i \in 1 .. Len(m.unknown) : Foreign(m.unknown[i], kinds, valid)
<1>1. DOMAIN kinds = 1 .. Len(kinds)
  BY DEF Schema
<1>2. /\ m = Message(m.has, m.val, m.unknown, m.reg_entry)
      /\ m.has \subseteq 1 .. Len(kinds) /\ m.val \in [1 .. Len(kinds) -> Int]
      /\ m.unknown \in Seq(T) /\ m.reg_entry \in Seq(E)
  BY <1>1 DEF Messages, Message
<1>3. WellFormed(m, kinds, valid) /\ DOMAIN m.unknown = 1 .. Len(m.unknown)
  BY <1>2 DEF Messages
<1> QED BY <1>1, <1>2, <1>3 DEF WellFormed

(* Parts that fit make a message. *)
LEMMA MessageFromParts ==
  ASSUME NEW kinds, NEW valid, Schema(kinds, valid), NEW T, NEW E,
         NEW h \in SUBSET (1 .. Len(kinds)),
         NEW v \in [1 .. Len(kinds) -> Int],
         NEW u \in Seq(T), NEW r \in Seq(E),
         \A f \in 1 .. Len(kinds) : f \notin h => v[f] = DefaultOf(kinds[f]),
         v[1] \in valid,
         \A i \in 1 .. Len(u) : Foreign(u[i], kinds, valid)
  PROVE  Message(h, v, u, r) \in Messages(kinds, valid, T, E)
<1> DEFINE m == Message(h, v, u, r)
<1>1. DOMAIN kinds = 1 .. Len(kinds) /\ DOMAIN u = 1 .. Len(u)
  BY DEF Schema
<1>2. m.has = h /\ m.val = v /\ m.unknown = u /\ m.reg_entry = r
  BY DEF Message
<1>3. m \in [has : SUBSET DOMAIN kinds, val : [DOMAIN kinds -> Int],
             unknown : Seq(T), reg_entry : Seq(E)]
  BY <1>1 DEF Message
<1> HIDE DEF m
<1>4. WellFormed(m, kinds, valid)
  BY <1>1, <1>2 DEF WellFormed
<1> QED BY <1>3, <1>4 DEF Messages, m

(* The constructor, the setters and the clearing accessors make messages. *)
LEMMA SharedCtorType ==
  ASSUME NEW kinds, NEW valid, Schema(kinds, valid), NEW T, NEW E
  PROVE  SharedCtor(kinds) \in Messages(kinds, valid, T, E)
<1> DEFINE v == [f \in 1 .. Len(kinds) |-> DefaultOf(kinds[f])]
<1>1. DOMAIN kinds = 1 .. Len(kinds) /\ 1 \in 1 .. Len(kinds)
  BY DEF Schema
<1>2. v \in [1 .. Len(kinds) -> Int]
  BY DEF DefaultOf
<1>3. v[1] \in valid
  BY <1>1 DEF DefaultOf, Schema
<1>4. SharedCtor(kinds) = Message({}, v, <<>>, <<>>)
  BY <1>1 DEF SharedCtor, Message
<1>5. \A f \in 1 .. Len(kinds) : v[f] = DefaultOf(kinds[f])
  OBVIOUS
<1> HIDE DEF v
<1>6. /\ <<>> \in Seq(T) /\ <<>> \in Seq(E) /\ {} \in SUBSET (1 .. Len(kinds))
      /\ \A i \in 1 .. Len(<<>>) : Foreign(<<>>[i], kinds, valid)
  OBVIOUS
<1>7. Message({}, v, <<>>, <<>>) \in Messages(kinds, valid, T, E)
  BY <1>2, <1>3, <1>5, <1>6, MessageFromParts
<1> QED BY <1>4, <1>7

LEMMA SetType ==
  ASSUME NEW kinds, NEW valid, Schema(kinds, valid), NEW T, NEW E,
         NEW m \in Messages(kinds, valid, T, E),
         NEW f \in 1 .. Len(kinds), NEW x \in Int, f = 1 => x \in valid
  PROVE  /\ set(m, f, x) \in Messages(kinds, valid, T, E)
         /\ set(m, f, x) = Message(m.has \cup {f}, [m.val EXCEPT ![f] = x],
                                   m.unknown, m.reg_entry)
<1> DEFINE v == [m.val EXCEPT ![f] = x]
<1>1. /\ m = Message(m.has, m.val, m.unknown, m.reg_entry)
      /\ m.has \subseteq 1 .. Len(kinds) /\ m.val \in [1 .. Len(kinds) -> Int]
      /\ m.unknown \in Seq(T) /\ m.reg_entry \in Seq(E)
  BY MessageParts
<1>2. 1 \in 1 .. Len(kinds)
  BY DEF Schema
<1>3. /\ \A g \in 1 .. Len(kinds) : g \notin m.has => m.val[g] = DefaultOf(kinds[g])
      /\ m.val[1] \in valid
      /\ \A i \in 1 .. Len(m.unknown) : Foreign(m.unknown[i], kinds, valid)
  BY MessageParts
<1>4. set(m, f, x) = Message(m.has \cup {f}, v, m.unknown, m.reg_entry)
  BY <1>1, SetParts
<1>5. v \in [1 .. Len(kinds) -> Int] /\ v[1] \in valid
  BY <1>1, <1>2, <1>3
<1>6. \A g \in 1 .. Len(kinds) : g \notin m.has \cup {f} => v[g] = DefaultOf(kinds[g])
  BY <1>1, <1>3
<1> HIDE DEF v
<1>7. m.has \cup {f} \in SUBSET (1 .. Len(kinds))
  BY <1>1
<1>8. Message(m.has \cup {f}, v, m.unknown, m.reg_entry) \in Messages(kinds, valid, T, E)
  BY <1>1, <1>3, <1>5, <1>6, <1>7, MessageFromParts
<1> QED BY <1>4, <1>8 DEF v

LEMMA ClearType ==
  ASSUME NEW kinds, NEW valid, Schema(kinds, valid), NEW T, NEW E,
         NEW m \in Messages(kinds, valid, T, E), NEW f \in 1 .. Len(kinds)
  PROVE  clear(m, f, kinds) \in Messages(kinds, valid, T, E)
<1> DEFINE x == DefaultOf(kinds[f])
           v == [m.val EXCEPT ![f] = x]
<1>1. /\ m = Message(m.has, m.val, m.unknown, m.reg_entry)
      /\ m.has \subseteq 1 .. Len(kinds) /\ m.val \in [1 .. Len(kinds) -> Int]
      /\ m.unknown \in Seq(T) /\ m.reg_entry \in Seq(E)
  BY MessageParts
<1>2. 1 \in 1 .. Len(kinds)
  BY DEF Schema
<1>3. /\ \A g \in 1 .. Len(kinds) : g \notin m.has => m.val[g] = DefaultOf(kinds[g])
      /\ m.val[1] \in valid
      /\ \A i \in 1 .. Len(m.unknown) : Foreign(m.unknown[i], kinds, valid)
  BY MessageParts
<1>4. clear(m, f, kinds) = Message(m.has \ {f}, v, m.unknown, m.reg_entry)
  BY <1>1, ClearParts
<1>5. x \in Int /\ (f = 1 => x \in valid)
  BY DEF DefaultOf, Schema
<1> HIDE DEF x
<1>6. v \in [1 .. Len(kinds) -> Int] /\ v[1] \in valid
  BY <1>1, <1>2, <1>3, <1>5
<1>7. \A g \in 1 .. Len(kinds) : g \notin m.has \ {f} => v[g] = DefaultOf(kinds[g])
  BY <1>1, <1>3 DEF x
<1> HIDE DEF v
<1>8. m.has \ {f} \in SUBSET (1 .. Len(kinds))
  BY <1>1
<1>9. Message(m.has \ {f}, v, m.unknown, m.reg_entry) \in Messages(kinds, valid, T, E)
  BY <1>1, <1>3, <1>6, <1>7, <1>8, MessageFromParts
<1> QED BY <1>4, <1>9

(* Adding a foreign token to the unknown fields makes a message, *)
LEMMA AddUnknownType ==
  ASSUME NEW kinds, NEW valid, Schema(kinds, valid), NEW T, NEW E,
         NEW m \in Messages(kinds, valid, T, E),
         NEW t \in T, Foreign(t, kinds, valid)
  PROVE  AddUnknown(m, t) \in Messages(kinds, valid, T, E)
<1> DEFINE u == Append(m.unknown, t)
<1>1. /\ m = Message(m.has, m.val, m.unknown, m.reg_entry)
      /\ m.has \subseteq 1 .. Len(kinds) /\ m.val \in [1 .. Len(kinds) -> Int]
      /\ m.unknown \in Seq(T) /\ m.reg_entry \in Seq(E)
  BY MessageParts
<1>2. 1 \in 1 .. Len(kinds)
  BY DEF Schema
<1>3. /\ \A g \in 1 .. Len(kinds) : g \notin m.has => m.val[g] = DefaultOf(kinds[g])
      /\ m.val[1] \in valid
      /\ \A i \in 1 .. Len(m.unknown) : Foreign(m.unknown[i], kinds, valid)
  BY MessageParts
<1>4. AddUnknown(m, t) = Message(m.has, m.val, u, m.reg_entry)
  BY <1>1, AddUnknownParts
<1>5. /\ u \in Seq(T) /\ Len(u) = Len(m.unknown) + 1 /\ Len(m.unknown) \in Nat
      /\ \A i \in 1 .. Len(m.unknown) : u[i] = m.unknown[i]
      /\ u[Len(m.unknown) + 1] = t
  BY <1>1
<1> HIDE DEF u
<1>6. \A i \in 1 .. Len(u) : Foreign(u[i], kinds, valid)
  <2> SUFFICES ASSUME NEW i \in 1 .. Len(u) PROVE Foreign(u[i], kinds, valid)
    OBVIOUS
  <2>1. i \in 1 .. Len(m.unknown) \/ i = Len(m.unknown) + 1
    BY <1>5
  <2> QED BY <1>3, <1>5, <2>1
<1>7. Message(m.has, m.val, u, m.reg_entry) \in Messages(kinds, valid, T, E)
  BY <1>1, <1>3, <1>5, <1>6, MessageFromParts
<1> QED BY <1>4, <1>7

(* and so does adding an entry. *)
LEMMA AddEntryType ==
  ASSUME NEW kinds, NEW valid, Schema(kinds, valid), NEW T, NEW E,
         NEW m \in Messages(kinds, valid, T, E), NEW e \in E
  PROVE  /\ add_reg_entry(m, e) \in Messages(kinds, valid, T, E)
         /\ add_reg_entry(m, e)
              = Message(m.has, m.val, m.unknown, Append(m.reg_entry, e))
<1>1. /\ m = Message(m.has, m.val, m.unknown, m.reg_entry)
      /\ m.has \subseteq 1 .. Len(kinds) /\ m.val \in [1 .. Len(kinds) -> Int]
      /\ m.unknown \in Seq(T) /\ m.reg_entry \in Seq(E)
  BY MessageParts
<1>2. 1 \in 1 .. Len(kinds)
  BY DEF Schema
<1>3. /\ \A g \in 1 .. Len(kinds) : g \notin m.has => m.val[g] = DefaultOf(kinds[g])
      /\ m.val[1] \in valid
      /\ \A i \in 1 .. Len(m.unknown) : Foreign(m.unknown[i], kinds, valid)
  BY MessageParts
<1>4. add_reg_entry(m, e)
        = Message(m.has, m.val, m.unknown, Append(m.reg_entry, e))
  BY <1>1, AddEntryParts
<1>5. Append(m.reg_entry, e) \in Seq(E)
  BY <1>1
<1>6. Message(m.has, m.val, m.unknown, Append(m.reg_entry, e))
        \in Messages(kinds, valid, T, E)
  BY <1>1, <1>3, <1>5, MessageFromParts
<1> QED BY <1>4, <1>6
----------------------------------------------------------------------------
(* Reading a tag *)

Parses(M) == [msg : M, state : {"go", "fail", "stop"}]

(* One round over the tags keeps a parse of the message. *)
LEMMA ReadTagType ==
  ASSUME NEW kinds, NEW valid, Schema(kinds, valid), NEW T, T \subseteq FlatTokens,
         NEW E, NEW p \in Parses(Messages(kinds, valid, T, E)), NEW t \in T
  PROVE  ReadTag(p, t, kinds, valid) \in Parses(Messages(kinds, valid, T, E))
<1> DEFINE M == Messages(kinds, valid, T, E)
           q == ReadTag(p, t, kinds, valid)
<1> SUFFICES q \in Parses(M)
  OBVIOUS
<1>1. p = [msg |-> p.msg, state |-> p.state] /\ p.msg \in M
      /\ p.state \in {"go", "fail", "stop"}
  BY DEF Parses
<1>2. t.field \in Nat /\ t.wire \in {"varint", "length", "cut", "end"} /\ t.value \in Int
  BY DEF FlatTokens
<1>3. DOMAIN kinds = 1 .. Len(kinds) /\ kinds[1] = "enum"
  BY DEF Schema
<1>4. \A m \in M, s \in {"go", "fail", "stop"} : [msg |-> m, state |-> s] \in Parses(M)
  BY DEF Parses
<1>5. CASE p.state # "go"
  BY <1>1, <1>5 DEF ReadTag
<1>6. CASE p.state = "go" /\ t.wire = "cut"
  <2>1. q = [msg |-> ReadCut(p.msg, t, kinds), state |-> "fail"]
    BY <1>6 DEF ReadTag
  <2>2. ReadCut(p.msg, t, kinds) \in M
    <3>1. CASE t.field \in DOMAIN kinds /\ kinds[t.field] = "string"
      <4>1. t.field \in 1 .. Len(kinds) /\ t.field # 1 /\ 0 \in Int
        BY <1>3, <3>1
      <4>2. set(p.msg, t.field, 0) \in M
        BY <1>1, <4>1, SetType
      <4> QED BY <3>1, <4>2 DEF ReadCut
    <3>2. CASE ~(t.field \in DOMAIN kinds /\ kinds[t.field] = "string")
      BY <1>1, <3>2 DEF ReadCut
    <3> QED BY <3>1, <3>2
  <2> HIDE DEF M, q
  <2> QED BY <1>4, <2>1, <2>2
<1>7. CASE p.state = "go" /\ t.wire = "end"
  <2>1. q = [msg |-> p.msg, state |-> "stop"]
    BY <1>1, <1>7 DEF ReadTag
  <2> HIDE DEF M, q
  <2> QED BY <1>1, <1>4, <2>1
<1>8. CASE p.state = "go" /\ t.wire \in {"varint", "length"}
  <2>1. q = [msg |-> ReadField(p.msg, t, kinds, valid), state |-> "go"]
    BY <1>1, <1>8 DEF ReadTag
  <2>2. ReadField(p.msg, t, kinds, valid) \in M
    <3>1. CASE Known(t, kinds, valid)
      <4>1. t.field \in 1 .. Len(kinds) /\ (t.field = 1 => t.value \in valid)
        BY <1>3, <3>1 DEF Known
      <4>2. set(p.msg, t.field, t.value) \in M
        BY <1>1, <1>2, <4>1, SetType
      <4> QED BY <3>1, <4>2 DEF ReadField
    <3>2. CASE ~Known(t, kinds, valid)
      <4>1. Foreign(t, kinds, valid)
        BY <1>8, <3>2 DEF Foreign
      <4>2. AddUnknown(p.msg, t) \in M
        BY <1>1, <4>1, AddUnknownType
      <4> QED BY <3>2, <4>2 DEF ReadField
    <3> QED BY <3>1, <3>2
  <2> HIDE DEF M, q
  <2> QED BY <1>4, <2>1, <2>2
<1> QED BY <1>2, <1>5, <1>6, <1>7, <1>8

(* One round over the tags of an entry keeps a parse of an entry. *)
LEMMA EntryReadTagType ==
  ASSUME NEW p \in Parses(RegistryEntries), NEW t \in FlatTokens
  PROVE  EntryReadTag(p, t) \in Parses(RegistryEntries)
BY EntrySchema, ReadTagType DEF EntryReadTag, RegistryEntries

(* EntryRounds is what its recursive definition says. *)
LEMMA EntryRoundsDef ==
  ASSUME NEW e \in RegistryEntries, NEW s \in Seq(FlatTokens)
  PROVE  /\ EntryRounds(e, s) \in [0 .. Len(s) -> Parses(RegistryEntries)]
         /\ EntryRounds(e, s)[0] = [msg |-> e, state |-> "go"]
         /\ \A k \in 1 .. Len(s) :
              EntryRounds(e, s)[k] = EntryReadTag(EntryRounds(e, s)[k - 1], s[k])
<1> DEFINE n == Len(s)
           V == Parses(RegistryEntries)
           base == [msg |-> e, state |-> "go"]
           Step(w, k) == EntryReadTag(w, s[k])
           G == [k \in 1 .. n |-> [w \in V |-> Step(w, k)]]
           Eq(f) == f = [k \in 0 .. n |-> IF k = 0 THEN base ELSE Step(f[k - 1], k)]
           F == EntryRounds(e, s)
<1>1. n \in Nat /\ base \in V
  BY DEF Parses
<1>2. F = CHOOSE f : Eq(f)
  BY DEF EntryRounds
<1>3. ASSUME NEW w \in V, NEW k \in 1 .. n PROVE Step(w, k) \in V
  <2>1. s[k] \in FlatTokens
    OBVIOUS
  <2> QED BY <2>1, EntryReadTagType
<1> HIDE DEF n, F, V, Step, base
<1>4. G \in [1 .. n -> [V -> V]]
  BY <1>3
<1>5. PICK g : Iterates(g, n, V, base, G)
  <2> HIDE DEF G
  <2> QED BY <1>1, <1>4, Recursion, Zenon
<1>6. g \in [0 .. n -> V] /\ g[0] = base
  BY <1>5 DEF Iterates
<1>7. ASSUME NEW k \in 1 .. n PROVE g[k] = Step(g[k - 1], k)
  <2>1. g[k - 1] \in V /\ g[k] = G[k][g[k - 1]]
    BY <1>1, <1>5 DEF Iterates
  <2> QED BY <2>1
<1>8. Eq(g)
  <2> DEFINE h == [k \in 0 .. n |-> IF k = 0 THEN base ELSE Step(g[k - 1], k)]
  <2>1. ASSUME NEW k \in 0 .. n PROVE g[k] = h[k]
    BY <1>1, <1>6, <1>7
  <2> QED BY <1>6, <2>1
<1>9. Eq(F)
  <2> HIDE DEF Eq
  <2> QED BY <1>2, <1>8
<1>10. F = [k \in 0 .. n |-> F[k]]
  <2> DEFINE h == [k \in 0 .. n |-> IF k = 0 THEN base ELSE Step(F[k - 1], k)]
  <2>1. h = [k \in 0 .. n |-> h[k]]
    OBVIOUS
  <2>2. F = h
    BY <1>9
  <2> HIDE DEF h
  <2> QED BY <2>1, <2>2
<1>11. F[0] = base
  BY <1>1, <1>9
<1>12. ASSUME NEW k \in 1 .. n PROVE F[k] = Step(F[k - 1], k)
  <2>1. k \in 0 .. n /\ k # 0
    BY <1>1
  <2> QED BY <1>9, <2>1
<1>13. F \in [0 .. n -> V]
  <2>1. F[0] \in V /\ \A k \in 1 .. n : F[k - 1] \in V => F[k] \in V
    BY <1>1, <1>3, <1>11, <1>12
  <2> QED BY <1>1, <1>10, <2>1, StaysIn, Zenon
<1> QED BY <1>11, <1>12, <1>13 DEF F, n, V, Step, base

(* An entry is read token by token. *)
LEMMA EntryMergeEmpty ==
  ASSUME NEW e \in RegistryEntries
  PROVE  EntryMergePartial(e, <<>>) = [msg |-> e, state |-> "go"]
<1>1. <<>> \in Seq(FlatTokens) /\ Len(<<>>) = 0
  OBVIOUS
<1> QED BY <1>1, EntryRoundsDef DEF EntryMergePartial

LEMMA EntryMergeAppend ==
  ASSUME NEW e \in RegistryEntries, NEW s \in Seq(FlatTokens), NEW t \in FlatTokens
  PROVE  /\ EntryMergePartial(e, s) \in Parses(RegistryEntries)
         /\ EntryMergePartial(e, Append(s, t)) = EntryReadTag(EntryMergePartial(e, s), t)
<1> DEFINE n == Len(s)
           F == EntryRounds(e, s)
           a == Append(s, t)
           G == EntryRounds(e, a)
<1>1. /\ n \in Nat /\ a \in Seq(FlatTokens) /\ Len(a) = n + 1 /\ a[n + 1] = t
      /\ \A k \in 1 .. n : a[k] = s[k]
  BY AppendFacts
<1>2. /\ F \in [0 .. n -> Parses(RegistryEntries)] /\ F[0] = [msg |-> e, state |-> "go"]
      /\ \A k \in 1 .. n : F[k] = EntryReadTag(F[k - 1], s[k])
  BY EntryRoundsDef
<1>3. /\ G[0] = [msg |-> e, state |-> "go"]
      /\ \A k \in 1 .. n + 1 : G[k] = EntryReadTag(G[k - 1], a[k])
  <2> HIDE DEF a
  <2> QED BY <1>1, EntryRoundsDef
<1> HIDE DEF F, G, a, n
<1>4. G[n] = F[n]
  <2>1. G[0] = F[0]
    BY <1>2, <1>3
  <2>2. ASSUME NEW k \in 1 .. n, G[k - 1] = F[k - 1] PROVE G[k] = F[k]
    <3>1. k \in 1 .. n + 1
      BY <1>1
    <3> QED BY <1>1, <1>2, <1>3, <2>2, <3>1
  <2> QED BY <1>1, <2>1, <2>2, StayEqual
<1>5. F[n] \in Parses(RegistryEntries)
  BY <1>1, <1>2
<1>6. G[n + 1] = EntryReadTag(F[n], t)
  <2>1. n + 1 \in 1 .. n + 1 /\ (n + 1) - 1 = n
    BY <1>1
  <2> QED BY <1>1, <1>3, <1>4, <2>1
<1> QED BY <1>1, <1>5, <1>6 DEF EntryMergePartial, F, G, a, n

(* New messages are messages. *)
LEMMA EntrySharedCtorType == EntrySharedCtor \in RegistryEntries
BY EntrySchema, SharedCtorType DEF EntrySharedCtor, RegistryEntries

LEMMA CommandSharedCtorType == CommandSharedCtor \in Commands
BY CommandSchema, SharedCtorType DEF CommandSharedCtor, Commands

(* Whatever is read, there is an entry, or a Command, at the end. *)
LEMMA EntryMergeType ==
  ASSUME NEW e \in RegistryEntries, NEW s \in Seq(FlatTokens)
  PROVE  EntryMergePartial(e, s) \in Parses(RegistryEntries)
<1>1. Len(s) \in 0 .. Len(s)
  OBVIOUS
<1> QED BY <1>1, EntryRoundsDef DEF EntryMergePartial

(* One round over the tags of a Command keeps a parse of a Command. *)
LEMMA CommandReadTagType ==
  ASSUME NEW p \in Parses(Commands), NEW t \in Tokens
  PROVE  CommandReadTag(p, t) \in Parses(Commands)
<1>1. p.msg \in Commands /\ p.state \in {"go", "fail", "stop"}
  BY DEF Parses
<1>2. CASE p.state = "go" /\ HoldsEntry(t)
  <2> DEFINE e == EntryMergePartial(EntrySharedCtor, t.value)
  <2>1. t.value \in Seq(FlatTokens)
    BY <1>2 DEF Tokens, EntryTokens, PlainTokens
  <2>2. e \in Parses(RegistryEntries)
    BY <2>1, EntrySharedCtorType, EntryMergeType
  <2>3. CommandReadTag(p, t) = [msg |-> add_reg_entry(p.msg, e.msg),
                                state |-> IF e.state = "go" THEN "go" ELSE "fail"]
    BY <1>2 DEF CommandReadTag, ReadRegEntry
  <2> HIDE DEF e
  <2>4. add_reg_entry(p.msg, e.msg) \in Commands
    <3>1. e.msg \in RegistryEntries
      BY <2>2 DEF Parses
    <3> QED BY <1>1, <3>1, CommandSchema, AddEntryType DEF Commands
  <2> QED BY <2>3, <2>4 DEF Parses
<1>3. CASE p.state # "go"
  BY <1>3 DEF CommandReadTag, ReadTag
<1>4. CASE p.state = "go" /\ ~HoldsEntry(t)
  <2>1. t \in PlainTokens /\ PlainTokens \subseteq FlatTokens
    BY <1>4 DEF Tokens, EntryTokens, PlainTokens, HoldsEntry
  <2>2. ReadTag(p, t, CommandKinds, Command_Cmds) \in Parses(Commands)
    BY <2>1, CommandSchema, ReadTagType DEF Commands
  <2> QED BY <1>4, <2>2 DEF CommandReadTag
<1> QED BY <1>2, <1>3, <1>4

(* CommandRounds is what its recursive definition says. *)
LEMMA CommandRoundsDef ==
  ASSUME NEW m \in Commands, NEW s \in Seq(Tokens)
  PROVE  /\ CommandRounds(m, s) \in [0 .. Len(s) -> Parses(Commands)]
         /\ CommandRounds(m, s)[0] = [msg |-> m, state |-> "go"]
         /\ \A k \in 1 .. Len(s) :
              CommandRounds(m, s)[k] = CommandReadTag(CommandRounds(m, s)[k - 1], s[k])
<1> DEFINE n == Len(s)
           V == Parses(Commands)
           base == [msg |-> m, state |-> "go"]
           Step(w, k) == CommandReadTag(w, s[k])
           G == [k \in 1 .. n |-> [w \in V |-> Step(w, k)]]
           Eq(f) == f = [k \in 0 .. n |-> IF k = 0 THEN base ELSE Step(f[k - 1], k)]
           F == CommandRounds(m, s)
<1>1. n \in Nat /\ base \in V
  BY DEF Parses
<1>2. F = CHOOSE f : Eq(f)
  BY DEF CommandRounds
<1>3. ASSUME NEW w \in V, NEW k \in 1 .. n PROVE Step(w, k) \in V
  <2>1. s[k] \in Tokens
    OBVIOUS
  <2> QED BY <2>1, CommandReadTagType
<1> HIDE DEF n, F, V, Step, base
<1>4. G \in [1 .. n -> [V -> V]]
  BY <1>3
<1>5. PICK g : Iterates(g, n, V, base, G)
  <2> HIDE DEF G
  <2> QED BY <1>1, <1>4, Recursion, Zenon
<1>6. g \in [0 .. n -> V] /\ g[0] = base
  BY <1>5 DEF Iterates
<1>7. ASSUME NEW k \in 1 .. n PROVE g[k] = Step(g[k - 1], k)
  <2>1. g[k - 1] \in V /\ g[k] = G[k][g[k - 1]]
    BY <1>1, <1>5 DEF Iterates
  <2> QED BY <2>1
<1>8. Eq(g)
  <2> DEFINE h == [k \in 0 .. n |-> IF k = 0 THEN base ELSE Step(g[k - 1], k)]
  <2>1. ASSUME NEW k \in 0 .. n PROVE g[k] = h[k]
    BY <1>1, <1>6, <1>7
  <2> QED BY <1>6, <2>1
<1>9. Eq(F)
  <2> HIDE DEF Eq
  <2> QED BY <1>2, <1>8
<1>10. F = [k \in 0 .. n |-> F[k]]
  <2> DEFINE h == [k \in 0 .. n |-> IF k = 0 THEN base ELSE Step(F[k - 1], k)]
  <2>1. h = [k \in 0 .. n |-> h[k]]
    OBVIOUS
  <2>2. F = h
    BY <1>9
  <2> HIDE DEF h
  <2> QED BY <2>1, <2>2
<1>11. F[0] = base
  BY <1>1, <1>9
<1>12. ASSUME NEW k \in 1 .. n PROVE F[k] = Step(F[k - 1], k)
  <2>1. k \in 0 .. n /\ k # 0
    BY <1>1
  <2> QED BY <1>9, <2>1
<1>13. F \in [0 .. n -> V]
  <2>1. F[0] \in V /\ \A k \in 1 .. n : F[k - 1] \in V => F[k] \in V
    BY <1>1, <1>3, <1>11, <1>12
  <2> QED BY <1>1, <1>10, <2>1, StaysIn, Zenon
<1> QED BY <1>11, <1>12, <1>13 DEF F, n, V, Step, base

(* A Command is read token by token. *)
LEMMA CommandMergeEmpty ==
  ASSUME NEW m \in Commands
  PROVE  MergePartialFromCodedStream(m, <<>>) = [msg |-> m, state |-> "go"]
<1>1. <<>> \in Seq(Tokens) /\ Len(<<>>) = 0
  OBVIOUS
<1> QED BY <1>1, CommandRoundsDef DEF MergePartialFromCodedStream

LEMMA CommandMergeAppend ==
  ASSUME NEW m \in Commands, NEW s \in Seq(Tokens), NEW t \in Tokens
  PROVE  /\ MergePartialFromCodedStream(m, s) \in Parses(Commands)
         /\ MergePartialFromCodedStream(m, Append(s, t))
              = CommandReadTag(MergePartialFromCodedStream(m, s), t)
<1> DEFINE n == Len(s)
           F == CommandRounds(m, s)
           a == Append(s, t)
           G == CommandRounds(m, a)
<1>1. /\ n \in Nat /\ a \in Seq(Tokens) /\ Len(a) = n + 1 /\ a[n + 1] = t
      /\ \A k \in 1 .. n : a[k] = s[k]
  BY AppendFacts
<1>2. /\ F \in [0 .. n -> Parses(Commands)] /\ F[0] = [msg |-> m, state |-> "go"]
      /\ \A k \in 1 .. n : F[k] = CommandReadTag(F[k - 1], s[k])
  BY CommandRoundsDef
<1>3. /\ G[0] = [msg |-> m, state |-> "go"]
      /\ \A k \in 1 .. n + 1 : G[k] = CommandReadTag(G[k - 1], a[k])
  <2> HIDE DEF a
  <2> QED BY <1>1, CommandRoundsDef
<1> HIDE DEF F, G, a, n
<1>4. G[n] = F[n]
  <2>1. G[0] = F[0]
    BY <1>2, <1>3
  <2>2. ASSUME NEW k \in 1 .. n, G[k - 1] = F[k - 1] PROVE G[k] = F[k]
    <3>1. k \in 1 .. n + 1
      BY <1>1
    <3> QED BY <1>1, <1>2, <1>3, <2>2, <3>1
  <2> QED BY <1>1, <2>1, <2>2, StayEqual
<1>5. F[n] \in Parses(Commands)
  BY <1>1, <1>2
<1>6. G[n + 1] = CommandReadTag(F[n], t)
  <2>1. n + 1 \in 1 .. n + 1 /\ (n + 1) - 1 = n
    BY <1>1
  <2> QED BY <1>1, <1>3, <1>4, <2>1
<1> QED BY <1>1, <1>5, <1>6 DEF MergePartialFromCodedStream, F, G, a, n

LEMMA CommandMergeType ==
  ASSUME NEW m \in Commands, NEW s \in Seq(Tokens)
  PROVE  MergePartialFromCodedStream(m, s) \in Parses(Commands)
<1>1. Len(s) \in 0 .. Len(s)
  OBVIOUS
<1> QED BY <1>1, CommandRoundsDef DEF MergePartialFromCodedStream
----------------------------------------------------------------------------
(* Writing *)

(* A sequence over a set is one over a larger set. *)
LEMMA SeqSubset ==
  ASSUME NEW A, NEW B, A \subseteq B, NEW s \in Seq(A)
  PROVE  s \in Seq(B)
OBVIOUS

(* A message has at most ten fields that are not repeated. *)
LEMMA FieldNumber ==
  ASSUME NEW kinds, NEW valid, Schema(kinds, valid), NEW f \in 1 .. Len(kinds)
  PROVE  f \in Nat \ {0} /\ f # 11 /\ f \in 1 .. 11
<1>1. Len(kinds) \in 1 .. 10
  BY DEF Schema
<1>2. \A n \in 1 .. 10 : \A g \in 1 .. n : g \in Nat \ {0} /\ g # 11 /\ g \in 1 .. 11
  OBVIOUS
<1> QED BY <1>1, <1>2, Zenon

(* The token of a field is a plain token that the message knows. *)
LEMMA FieldToken ==
  ASSUME NEW kinds, NEW valid, Schema(kinds, valid), NEW T, NEW E,
         NEW m \in Messages(kinds, valid, T, E), NEW f \in 1 .. Len(kinds)
  PROVE  /\ Token(f, WireOf(kinds[f]), m.val[f]) \in PlainTokens
         /\ Known(Token(f, WireOf(kinds[f]), m.val[f]), kinds, valid)
<1> DEFINE t == Token(f, WireOf(kinds[f]), m.val[f])
<1>1. /\ Len(kinds) \in 1 .. 10 /\ DOMAIN kinds = 1 .. Len(kinds)
      /\ \A g \in 2 .. Len(kinds) : kinds[g] # "enum"
  BY DEF Schema
<1>2. m.val[f] \in Int /\ m.val[1] \in valid
  BY MessageParts
<1>3. /\ t.field = f /\ t.wire = WireOf(kinds[f]) /\ t.value = m.val[f]
      /\ t = [field |-> t.field, wire |-> t.wire, value |-> t.value]
  BY DEF Token
<1>4. WireOf(kinds[f]) \in {"varint", "length"}
  BY DEF WireOf
<1> HIDE DEF t
<1>5. t.field \in Nat \ {0} /\ t.field # 11 /\ t.value \in Int
  <2>1. f \in Nat \ {0} /\ f # 11
    BY FieldNumber, Zenon
  <2> QED BY <1>2, <1>3, <2>1, Zenon
<1>6. t \in FlatTokens
  BY <1>3, <1>4, <1>5 DEF FlatTokens
<1>7. t \in PlainTokens
  BY <1>5, <1>6 DEF PlainTokens, HoldsEntry, RegEntry
<1>8. Known(t, kinds, valid)
  <2>1. CASE f = 1
    BY <1>1, <1>2, <1>3, <2>1 DEF Known
  <2>2. CASE f # 1
    <3>1. kinds[f] # "enum"
      BY <1>1, <2>2
    <3> QED BY <1>1, <1>3, <3>1 DEF Known
  <2> QED BY <2>1, <2>2
<1> QED BY <1>7, <1>8 DEF t

(* FieldsUpTo is what its recursive definition says. *)
LEMMA FieldsUpToDef ==
  ASSUME NEW kinds, NEW valid, Schema(kinds, valid), NEW T, NEW E,
         NEW m \in Messages(kinds, valid, T, E)
  PROVE  /\ FieldsUpTo(m, kinds) \in [0 .. Len(kinds) -> Seq(PlainTokens)]
         /\ FieldsUpTo(m, kinds)[0] = <<>>
         /\ \A k \in 1 .. Len(kinds) :
              FieldsUpTo(m, kinds)[k] =
                IF k \in m.has
                THEN Append(FieldsUpTo(m, kinds)[k - 1],
                            Token(k, WireOf(kinds[k]), m.val[k]))
                ELSE FieldsUpTo(m, kinds)[k - 1]
<1> DEFINE n == Len(kinds)
           V == Seq(PlainTokens)
           base == <<>>
           Step(w, k) == IF k \in m.has
                         THEN Append(w, Token(k, WireOf(kinds[k]), m.val[k]))
                         ELSE w
           G == [k \in 1 .. n |-> [w \in V |-> Step(w, k)]]
           Eq(f) == f = [k \in 0 .. n |-> IF k = 0 THEN base ELSE Step(f[k - 1], k)]
           F == FieldsUpTo(m, kinds)
<1>1. n \in Nat /\ base \in V
  BY DEF Schema
<1>2. F = CHOOSE f : Eq(f)
  BY DEF FieldsUpTo
<1>3. ASSUME NEW w \in V, NEW k \in 1 .. n PROVE Step(w, k) \in V
  <2>1. Token(k, WireOf(kinds[k]), m.val[k]) \in PlainTokens
    BY FieldToken
  <2> QED BY <2>1
<1> HIDE DEF n, F, V, Step, base
<1>4. G \in [1 .. n -> [V -> V]]
  BY <1>3
<1>5. PICK g : Iterates(g, n, V, base, G)
  <2> HIDE DEF G
  <2> QED BY <1>1, <1>4, Recursion, Zenon
<1>6. g \in [0 .. n -> V] /\ g[0] = base
  BY <1>5 DEF Iterates
<1>7. ASSUME NEW k \in 1 .. n PROVE g[k] = Step(g[k - 1], k)
  <2>1. g[k - 1] \in V /\ g[k] = G[k][g[k - 1]]
    BY <1>1, <1>5 DEF Iterates
  <2> QED BY <2>1
<1>8. Eq(g)
  <2> DEFINE h == [k \in 0 .. n |-> IF k = 0 THEN base ELSE Step(g[k - 1], k)]
  <2>1. ASSUME NEW k \in 0 .. n PROVE g[k] = h[k]
    BY <1>1, <1>6, <1>7
  <2> QED BY <1>6, <2>1
<1>9. Eq(F)
  <2> HIDE DEF Eq
  <2> QED BY <1>2, <1>8
<1>10. F = [k \in 0 .. n |-> F[k]]
  <2> DEFINE h == [k \in 0 .. n |-> IF k = 0 THEN base ELSE Step(F[k - 1], k)]
  <2>1. h = [k \in 0 .. n |-> h[k]]
    OBVIOUS
  <2>2. F = h
    BY <1>9
  <2> HIDE DEF h
  <2> QED BY <2>1, <2>2
<1>11. F[0] = base
  BY <1>1, <1>9
<1>12. ASSUME NEW k \in 1 .. n PROVE F[k] = Step(F[k - 1], k)
  <2>1. k \in 0 .. n /\ k # 0
    BY <1>1
  <2> QED BY <1>9, <2>1
<1>13. F \in [0 .. n -> V]
  <2>1. F[0] \in V /\ \A k \in 1 .. n : F[k - 1] \in V => F[k] \in V
    BY <1>1, <1>3, <1>11, <1>12
  <2> QED BY <1>1, <1>10, <2>1, StaysIn, Zenon
<1> QED BY <1>11, <1>12, <1>13 DEF F, n, V, Step, base
----------------------------------------------------------------------------
(* Merging: what reading does with the fields of another message *)

(* m with the fields of from up to number f *)
MergedHas(m, from, f) == m.has \cup {g \in from.has : g =< f}

MergedVal(m, from, f) ==
  [g \in DOMAIN m.val |-> IF g \in from.has /\ g =< f THEN from.val[g] ELSE m.val[g]]

MergedUpTo(m, from, f) ==
  [msg |-> Message(MergedHas(m, from, f), MergedVal(m, from, f),
                   m.unknown, m.reg_entry),
   state |-> "go"]

(* Before the first field nothing is merged. *)
LEMMA MergedNone ==
  ASSUME NEW kinds, NEW valid, Schema(kinds, valid), NEW T, NEW E,
         NEW m \in Messages(kinds, valid, T, E),
         NEW from \in Messages(kinds, valid, T, E)
  PROVE  MergedUpTo(m, from, 0) = [msg |-> m, state |-> "go"]
<1>1. /\ m = Message(m.has, m.val, m.unknown, m.reg_entry)
      /\ m.val \in [1 .. Len(kinds) -> Int] /\ from.has \subseteq 1 .. Len(kinds)
  BY MessageParts
<1>2. MergedHas(m, from, 0) = m.has
  BY <1>1 DEF MergedHas
<1>3. MergedVal(m, from, 0) = m.val
  BY <1>1 DEF MergedVal
<1> QED BY <1>1, <1>2, <1>3 DEF MergedUpTo

(* After the last field all are merged. *)
LEMMA MergedAll ==
  ASSUME NEW kinds, NEW valid, Schema(kinds, valid), NEW T, NEW E,
         NEW m \in Messages(kinds, valid, T, E),
         NEW from \in Messages(kinds, valid, T, E)
  PROVE  MergeFields(m, from) =
           Message(MergedHas(m, from, Len(kinds)), MergedVal(m, from, Len(kinds)),
                   m.unknown \o from.unknown, m.reg_entry)
<1> DEFINE a == MergeFields(m, from)
<1>1. m.val \in [1 .. Len(kinds) -> Int] /\ from.has \subseteq 1 .. Len(kinds)
  BY MessageParts
<1>2. DOMAIN m = {"has", "val", "unknown", "reg_entry"}
  BY DEF Messages
<1>3. \A g \in from.has : g =< Len(kinds)
  BY <1>1 DEF Schema
<1>4. a.has = MergedHas(m, from, Len(kinds))
  BY <1>2, <1>3 DEF MergeFields, MergedHas
<1>5. a.val = MergedVal(m, from, Len(kinds))
  <2>1. a.val = [f \in DOMAIN m.val |-> IF f \in from.has THEN from.val[f] ELSE m.val[f]]
    BY <1>2 DEF MergeFields
  <2> QED BY <1>3, <2>1 DEF MergedVal
<1>6. a.unknown = m.unknown \o from.unknown /\ a.reg_entry = m.reg_entry
  BY <1>2 DEF MergeFields
<1>7. a = [x \in {"has", "val", "unknown", "reg_entry"} |-> a[x]]
  BY <1>2 DEF MergeFields
<1> HIDE DEF a
<1>8. a = Message(a.has, a.val, a.unknown, a.reg_entry)
  BY <1>7, MessageFields
<1> QED BY <1>4, <1>5, <1>6, <1>8 DEF a

(* Reading the token of field f adds that field. *)
LEMMA MergedStep ==
  ASSUME NEW kinds, NEW valid, Schema(kinds, valid), NEW T, NEW E,
         NEW m \in Messages(kinds, valid, T, E),
         NEW from \in Messages(kinds, valid, T, E), NEW f \in 1 .. Len(kinds)
  PROVE  MergedUpTo(m, from, f) =
           IF f \in from.has
           THEN ReadTag(MergedUpTo(m, from, f - 1),
                        Token(f, WireOf(kinds[f]), from.val[f]), kinds, valid)
           ELSE MergedUpTo(m, from, f - 1)
<1> DEFINE t == Token(f, WireOf(kinds[f]), from.val[f])
           p == MergedUpTo(m, from, f - 1)
<1>1. /\ m = Message(m.has, m.val, m.unknown, m.reg_entry)
      /\ m.val \in [1 .. Len(kinds) -> Int] /\ from.has \subseteq 1 .. Len(kinds)
  BY MessageParts
<1>2. f \in Int /\ Len(kinds) \in Int /\ \A g \in 1 .. Len(kinds) : g =< f <=> g =< f - 1 \/ g = f
  BY DEF Schema
<1>3. CASE f \in from.has
  <2>1. p.state = "go" /\ p.msg = Message(MergedHas(m, from, f - 1), MergedVal(m, from, f - 1),
                                          m.unknown, m.reg_entry)
        /\ p = [msg |-> p.msg, state |-> p.state]
    BY DEF MergedUpTo
  <2>2. Known(t, kinds, valid) /\ t.field = f /\ t.value = from.val[f]
    BY FieldToken DEF Token
  <2>3. t.wire # "cut" /\ t.wire # "end"
    BY DEF Token, WireOf
  <2> HIDE DEF t, p
  <2>4. ReadTag(p, t, kinds, valid) = [msg |-> set(p.msg, f, from.val[f]), state |-> "go"]
    BY <2>1, <2>2, <2>3 DEF ReadTag, ReadField
  <2>5. set(p.msg, f, from.val[f]) =
          Message(MergedHas(m, from, f - 1) \cup {f},
                  [MergedVal(m, from, f - 1) EXCEPT ![f] = from.val[f]],
                  m.unknown, m.reg_entry)
    BY <2>1, SetParts
  <2>6. MergedHas(m, from, f - 1) \cup {f} = MergedHas(m, from, f)
    BY <1>1, <1>2, <1>3 DEF MergedHas
  <2>7. [MergedVal(m, from, f - 1) EXCEPT ![f] = from.val[f]] = MergedVal(m, from, f)
    BY <1>1, <1>2, <1>3 DEF MergedVal
  <2>8. ReadTag(p, t, kinds, valid) = MergedUpTo(m, from, f)
    BY <2>4, <2>5, <2>6, <2>7 DEF MergedUpTo
  <2> QED BY <1>3, <2>8 DEF p, t
<1>4. CASE f \notin from.has
  <2>1. MergedHas(m, from, f - 1) = MergedHas(m, from, f)
    BY <1>1, <1>2, <1>4 DEF MergedHas
  <2>2. MergedVal(m, from, f - 1) = MergedVal(m, from, f)
    BY <1>1, <1>2, <1>4 DEF MergedVal
  <2> QED BY <1>4, <2>1, <2>2 DEF MergedUpTo
<1> QED BY <1>3, <1>4

(* Reading a foreign token keeps it. *)
LEMMA ForeignStep ==
  ASSUME NEW kinds, NEW valid, NEW t, Foreign(t, kinds, valid),
         NEW h, NEW v, NEW u, NEW r
  PROVE  ReadTag([msg |-> Message(h, v, u, r), state |-> "go"], t, kinds, valid)
           = [msg |-> Message(h, v, Append(u, t), r), state |-> "go"]
<1> DEFINE m == Message(h, v, u, r)
<1>1. t.wire # "cut" /\ t.wire # "end" /\ ~Known(t, kinds, valid)
  BY DEF Foreign
<1>2. AddUnknown(m, t) = Message(h, v, Append(u, t), r)
  BY AddUnknownParts
<1> HIDE DEF m
<1>3. ReadTag([msg |-> m, state |-> "go"], t, kinds, valid)
        = [msg |-> AddUnknown(m, t), state |-> "go"]
  BY <1>1 DEF ReadTag, ReadField
<1> QED BY <1>2, <1>3 DEF m

(* The foreign tokens at the end of an entry are kept. *)
LEMMA EntryReadsUnknown ==
  ASSUME NEW e \in RegistryEntries, NEW w \in Seq(FlatTokens),
         NEW h, NEW v, NEW x \in Seq(FlatTokens), NEW r,
         EntryMergePartial(e, w) = [msg |-> Message(h, v, x, r), state |-> "go"],
         NEW u \in Seq({t \in FlatTokens :
                          Foreign(t, EntryKinds, Command_RegistryEntryTypes)})
  PROVE  EntryMergePartial(e, w \o u) = [msg |-> Message(h, v, x \o u, r), state |-> "go"]
<1> DEFINE FT == {t \in FlatTokens : Foreign(t, EntryKinds, Command_RegistryEntryTypes)}
           S == {y \in Seq(FT) : EntryMergePartial(e, w \o y)
                                   = [msg |-> Message(h, v, x \o y, r), state |-> "go"]}
<1>1. FT \subseteq FlatTokens
  OBVIOUS
<1>2. <<>> \in S
  <2>1. w \o <<>> = w /\ x \o <<>> = x /\ <<>> \in Seq(FT)
    BY ConcatEmpty
  <2> QED BY <2>1
<1>3. ASSUME NEW y \in Seq(FT), NEW t \in FT, y \in S PROVE Append(y, t) \in S
  <2>1. y \in Seq(FlatTokens) /\ t \in FlatTokens /\ Append(y, t) \in Seq(FT)
    BY <1>1, SeqSubset
  <2> HIDE DEF FT
  <2>2. /\ w \o Append(y, t) = Append(w \o y, t)
        /\ x \o Append(y, t) = Append(x \o y, t)
    <3>1. w \o Append(y, t) = Append(w \o y, t)
      BY <2>1, ConcatAppend
    <3>2. x \o Append(y, t) = Append(x \o y, t)
      BY <2>1, ConcatAppend
    <3> QED BY <3>1, <3>2, Zenon
  <2>3. w \o y \in Seq(FlatTokens)
    BY <2>1
  <2>4. EntryMergePartial(e, Append(w \o y, t)) = EntryReadTag(EntryMergePartial(e, w \o y), t)
    BY <2>1, <2>3, EntryMergeAppend
  <2>5. EntryReadTag([msg |-> Message(h, v, x \o y, r), state |-> "go"], t)
          = [msg |-> Message(h, v, Append(x \o y, t), r), state |-> "go"]
    BY ForeignStep DEF EntryReadTag, FT
  <2>6. EntryMergePartial(e, w \o y) = [msg |-> Message(h, v, x \o y, r), state |-> "go"]
    BY <1>3
  <2>7. EntryMergePartial(e, w \o Append(y, t))
          = [msg |-> Message(h, v, x \o Append(y, t), r), state |-> "go"]
    BY <2>2, <2>4, <2>5, <2>6
  <2> QED BY <2>1, <2>7
<1>4. Seq(FT) \subseteq S
  <2> HIDE DEF S, FT
  <2> QED BY <1>2, <1>3, SequenceInduction
<1> QED BY <1>4

(* The unknown fields of a message are foreign to it. *)
LEMMA UnknownForeign ==
  ASSUME NEW kinds, NEW valid, Schema(kinds, valid), NEW T, NEW E,
         NEW m \in Messages(kinds, valid, T, E)
  PROVE  m.unknown \in Seq({t \in T : Foreign(t, kinds, valid)})
<1> DEFINE u == m.unknown
           FT == {t \in T : Foreign(t, kinds, valid)}
<1>1. u \in Seq(T) /\ \A i \in 1 .. Len(u) : Foreign(u[i], kinds, valid)
  BY MessageParts
<1> HIDE DEF u
<1>2. \A i \in 1 .. Len(u) : u[i] \in FT
  BY <1>1
<1> HIDE DEF FT
<1>3. u \in Seq(FT)
  BY <1>1, <1>2
<1> QED BY <1>3 DEF u, FT

(* What an entry writes holds no message. *)
LEMMA EntrySerializeType ==
  ASSUME NEW e \in RegistryEntries
  PROVE  /\ Fields(e, EntryKinds) \in Seq(PlainTokens)
         /\ Fields(e, EntryKinds) \in Seq(FlatTokens)
         /\ e.unknown \in Seq(FlatTokens)
         /\ EntrySerialize(e) \in Seq(FlatTokens)
<1>1. e \in Messages(EntryKinds, Command_RegistryEntryTypes, FlatTokens, {})
  BY DEF RegistryEntries
<1>2. Len(EntryKinds) \in 0 .. Len(EntryKinds)
  BY EntrySchema
<1>3. Fields(e, EntryKinds) \in Seq(PlainTokens)
  <2>1. FieldsUpTo(e, EntryKinds) \in [0 .. Len(EntryKinds) -> Seq(PlainTokens)]
    BY <1>1, EntrySchema, FieldsUpToDef
  <2> QED BY <1>2, <2>1 DEF Fields
<1>4. PlainTokens \subseteq FlatTokens
  BY DEF PlainTokens
<1>5. Fields(e, EntryKinds) \in Seq(FlatTokens)
  BY <1>3, <1>4, SeqSubset
<1>6. e.unknown \in Seq(FlatTokens)
  BY <1>1, EntrySchema, MessageParts
<1> QED BY <1>3, <1>5, <1>6 DEF EntrySerialize

(* Reading what an entry writes on top of another is merging the two. *)
LEMMA EntryMergeIsConcatenation ==
  ASSUME NEW e \in RegistryEntries, NEW from \in RegistryEntries
  PROVE  EntryMergePartial(e, EntrySerialize(from))
           = [msg |-> EntryMergeFrom(e, from), state |-> "go"]
<1> DEFINE kinds == EntryKinds
           valid == Command_RegistryEntryTypes
           n == Len(kinds)
           W == FieldsUpTo(from, kinds)
           F == [f \in 0 .. n |-> EntryMergePartial(e, W[f])]
           G == [f \in 0 .. n |-> MergedUpTo(e, from, f)]
<1>1. /\ e \in Messages(kinds, valid, FlatTokens, {})
      /\ from \in Messages(kinds, valid, FlatTokens, {})
      /\ Schema(kinds, valid) /\ n \in Nat
  BY EntrySchema DEF RegistryEntries
<1>2. /\ W \in [0 .. n -> Seq(PlainTokens)] /\ W[0] = <<>>
      /\ \A k \in 1 .. n :
           W[k] = IF k \in from.has
                  THEN Append(W[k - 1], Token(k, WireOf(kinds[k]), from.val[k]))
                  ELSE W[k - 1]
  <2>1. from \in Messages(kinds, valid, FlatTokens, {}) /\ Schema(kinds, valid)
    BY <1>1
  <2> HIDE DEF kinds, valid
  <2> QED BY <2>1, FieldsUpToDef
<1> HIDE DEF W, n, kinds, valid
<1>3. \A k \in 0 .. n : W[k] \in Seq(FlatTokens)
  <2>1. PlainTokens \subseteq FlatTokens
    BY DEF PlainTokens
  <2> QED BY <1>2, <2>1, SeqSubset
<1>4. F[0] = G[0]
  <2>1. F[0] = [msg |-> e, state |-> "go"]
    BY <1>1, <1>2, EntryMergeEmpty
  <2>2. G[0] = [msg |-> e, state |-> "go"]
    BY <1>1, MergedNone
  <2> QED BY <2>1, <2>2
<1>5. ASSUME NEW k \in 1 .. n, F[k - 1] = G[k - 1] PROVE F[k] = G[k]
  <2> DEFINE t == Token(k, WireOf(kinds[k]), from.val[k])
             p == MergedUpTo(e, from, k - 1)
  <2>1. k - 1 \in 0 .. n /\ k \in 0 .. n /\ k \in 1 .. Len(kinds)
    BY <1>1 DEF n
  <2>2. EntryMergePartial(e, W[k - 1]) = p
    BY <1>5, <2>1
  <2>3. G[k] = IF k \in from.has THEN ReadTag(p, t, kinds, valid) ELSE p
    BY <1>1, <2>1, MergedStep
  <2>4. t \in FlatTokens
    BY <1>1, <2>1, FieldToken DEF PlainTokens
  <2>5. W[k - 1] \in Seq(FlatTokens)
    BY <1>3, <2>1
  <2>6. W[k] = IF k \in from.has THEN Append(W[k - 1], t) ELSE W[k - 1]
    BY <1>2
  <2> HIDE DEF t, p, G
  <2>7. CASE k \in from.has
    <3>1. EntryMergePartial(e, Append(W[k - 1], t)) = EntryReadTag(p, t)
      BY <2>2, <2>4, <2>5, EntryMergeAppend
    <3>2. F[k] = EntryReadTag(p, t)
      BY <2>1, <2>6, <2>7, <3>1
    <3> QED BY <2>3, <2>7, <3>2 DEF EntryReadTag, kinds, valid
  <2>8. CASE k \notin from.has
    BY <2>1, <2>2, <2>3, <2>6, <2>8
  <2> QED BY <2>7, <2>8
<1>6. F[n] = G[n]
  <2> HIDE DEF F, G
  <2> QED BY <1>1, <1>4, <1>5, StayEqual
<1>7. EntryMergePartial(e, Fields(from, EntryKinds)) = MergedUpTo(e, from, n)
  <2>1. n \in 0 .. n
    BY <1>1
  <2> QED BY <1>6, <2>1 DEF Fields, W, n, kinds
<1>8. EntryMergePartial(e, EntrySerialize(from))
        = [msg |-> Message(MergedHas(e, from, n), MergedVal(e, from, n),
                           e.unknown \o from.unknown, e.reg_entry), state |-> "go"]
  <2>1. from.unknown \in Seq({t \in FlatTokens : Foreign(t, kinds, valid)})
    BY <1>1, UnknownForeign
  <2>2. Fields(from, EntryKinds) \in Seq(FlatTokens) /\ e.unknown \in Seq(FlatTokens)
    BY EntrySerializeType
  <2> QED BY <1>7, <2>1, <2>2, EntryReadsUnknown
          DEF EntrySerialize, MergedUpTo, kinds, valid
<1>9. EntryMergeFrom(e, from)
        = Message(MergedHas(e, from, n), MergedVal(e, from, n),
                  e.unknown \o from.unknown, e.reg_entry)
  BY <1>1, MergedAll DEF EntryMergeFrom, n, kinds
<1> QED BY <1>8, <1>9

(* Merging into a new message gives the same fields. *)
LEMMA MergeIntoNew ==
  ASSUME NEW kinds, NEW valid, Schema(kinds, valid), NEW T, NEW E,
         NEW m \in Messages(kinds, valid, T, E)
  PROVE  /\ MergedHas(SharedCtor(kinds), m, Len(kinds)) = m.has
         /\ MergedVal(SharedCtor(kinds), m, Len(kinds)) = m.val
         /\ MergeFields(SharedCtor(kinds), m) = Message(m.has, m.val, m.unknown, <<>>)
<1> DEFINE c == SharedCtor(kinds)
           n == Len(kinds)
<1>1. c \in Messages(kinds, valid, T, E)
  BY SharedCtorType
<1>2. /\ m.has \subseteq 1 .. n /\ m.val \in [1 .. n -> Int] /\ m.unknown \in Seq(T)
      /\ \A g \in 1 .. n : g \notin m.has => m.val[g] = DefaultOf(kinds[g])
  BY MessageParts
<1>3. DOMAIN kinds = 1 .. n /\ n \in Int
  BY DEF Schema
<1>4. /\ c.has = {} /\ c.val = [g \in 1 .. n |-> DefaultOf(kinds[g])]
      /\ c.unknown = <<>> /\ c.reg_entry = <<>>
  BY <1>3 DEF SharedCtor
<1> HIDE DEF c, n
<1>5. MergedHas(c, m, n) = m.has
  BY <1>2, <1>3, <1>4 DEF MergedHas
<1>6. MergedVal(c, m, n) = m.val
  <2>1. DOMAIN c.val = 1 .. n /\ \A g \in 1 .. n : c.val[g] = DefaultOf(kinds[g])
    BY <1>4
  <2>2. \A g \in m.has : g =< n
    BY <1>2, <1>3
  <2> DEFINE a == MergedVal(c, m, n)
  <2>3. ASSUME NEW g \in 1 .. n PROVE a[g] = m.val[g]
    BY <1>2, <2>1, <2>2 DEF MergedVal
  <2>4. a = [g \in 1 .. n |-> a[g]]
    BY <2>1 DEF MergedVal
  <2> HIDE DEF a
  <2>5. a = m.val
    BY <1>2, <2>3, <2>4
  <2> QED BY <2>5 DEF a
<1>7. c.unknown \o m.unknown = m.unknown
  BY <1>2, <1>4, ConcatEmpty
<1>8. MergeFields(c, m) = Message(MergedHas(c, m, n), MergedVal(c, m, n),
                                  c.unknown \o m.unknown, c.reg_entry)
  BY <1>1, MergedAll DEF n
<1> QED BY <1>4, <1>5, <1>6, <1>7, <1>8 DEF c, n

(* So an entry that is copied into a new one is the same. *)
LEMMA EntryMergeIntoNew ==
  ASSUME NEW e \in RegistryEntries
  PROVE  EntryMergeFrom(EntrySharedCtor, e) = e
<1>1. e \in Messages(EntryKinds, Command_RegistryEntryTypes, FlatTokens, {})
  BY DEF RegistryEntries
<1>2. e = Message(e.has, e.val, e.unknown, e.reg_entry) /\ e.reg_entry \in Seq({})
  BY <1>1, EntrySchema, MessageParts
<1>3. e.reg_entry = <<>>
  BY <1>2
<1>4. MergeFields(SharedCtor(EntryKinds), e) = Message(e.has, e.val, e.unknown, <<>>)
  BY <1>1, EntrySchema, MergeIntoNew
<1> QED BY <1>2, <1>3, <1>4 DEF EntryMergeFrom, EntrySharedCtor

(* MergeFrom in its four parts *)
LEMMA MergeFromParts ==
  ASSUME NEW m \in Commands, NEW from \in Commands
  PROVE  MergeFrom(m, from) =
           Message(MergedHas(m, from, Len(CommandKinds)),
                   MergedVal(m, from, Len(CommandKinds)),
                   m.unknown \o from.unknown, m.reg_entry \o from.reg_entry)
<1> DEFINE b == MergeFields(m, from)
           n == Len(CommandKinds)
           new == [i \in DOMAIN from.reg_entry |->
                     EntryMergeFrom(EntrySharedCtor, from.reg_entry[i])]
           a == MergeFrom(m, from)
<1>1. /\ m \in Messages(CommandKinds, Command_Cmds, PlainTokens, RegistryEntries)
      /\ from \in Messages(CommandKinds, Command_Cmds, PlainTokens, RegistryEntries)
  BY DEF Commands
<1>2. b = Message(MergedHas(m, from, n), MergedVal(m, from, n),
                  m.unknown \o from.unknown, m.reg_entry)
  <2> DEFINE kinds == CommandKinds
             valid == Command_Cmds
  <2>1. Schema(kinds, valid)
    BY CommandSchema
  <2> HIDE DEF kinds, valid
  <2> QED BY <1>1, <2>1, MergedAll DEF kinds, valid
<1>3. from.reg_entry \in Seq(RegistryEntries)
  BY <1>1, CommandSchema, MessageParts
<1>4. new = from.reg_entry
  <2> DEFINE q == from.reg_entry
  <2> HIDE DEF q
  <2>1. q \in Seq(RegistryEntries)
    BY <1>3 DEF q
  <2>2. \A i \in DOMAIN q : EntryMergeFrom(EntrySharedCtor, q[i]) = q[i]
    BY <2>1, EntryMergeIntoNew
  <2>3. [i \in DOMAIN q |-> EntryMergeFrom(EntrySharedCtor, q[i])] = q
    BY <2>1, <2>2
  <2> QED BY <2>3 DEF q
<1>5. a = [b EXCEPT !.reg_entry = b.reg_entry \o new]
  BY Zenon DEF MergeFrom
<1> HIDE DEF b, new, a
<1>6. /\ DOMAIN b = {"has", "val", "unknown", "reg_entry"}
      /\ b.has = MergedHas(m, from, n) /\ b.val = MergedVal(m, from, n)
      /\ b.unknown = m.unknown \o from.unknown /\ b.reg_entry = m.reg_entry
  BY <1>2 DEF Message
<1>7. /\ a.has = b.has /\ a.val = b.val /\ a.unknown = b.unknown
      /\ a.reg_entry = m.reg_entry \o from.reg_entry
  BY <1>4, <1>5, <1>6
<1>8. a = [x \in {"has", "val", "unknown", "reg_entry"} |-> a[x]]
  BY <1>5, <1>6
<1>9. a = Message(a.has, a.val, a.unknown, a.reg_entry)
  BY <1>8, MessageFields
<1> QED BY <1>6, <1>7, <1>9 DEF a

(* Reading the token of an entry adds the entry. *)
LEMMA EntryStep ==
  ASSUME NEW e \in RegistryEntries, NEW h, NEW v, NEW u, NEW r
  PROVE  /\ EntryToken(e) \in Tokens
         /\ CommandReadTag([msg |-> Message(h, v, u, r), state |-> "go"], EntryToken(e))
              = [msg |-> Message(h, v, u, Append(r, e)), state |-> "go"]
<1> DEFINE t == EntryToken(e)
           m == Message(h, v, u, r)
           p == [msg |-> m, state |-> "go"]
<1>1. EntrySerialize(e) \in Seq(FlatTokens)
  BY EntrySerializeType
<1>2. t = [field |-> RegEntry, wire |-> "length", value |-> EntrySerialize(e)]
  BY DEF EntryToken, Token
<1>3. HoldsEntry(t) /\ t.value = EntrySerialize(e)
  BY <1>2 DEF HoldsEntry
<1>4. t \in Tokens
  BY <1>1, <1>2 DEF Tokens, EntryTokens
<1> HIDE DEF t
<1>5. EntryMergePartial(EntrySharedCtor, t.value) = [msg |-> e, state |-> "go"]
  BY <1>3, EntrySharedCtorType, EntryMergeIsConcatenation, EntryMergeIntoNew
<1>6. add_reg_entry(m, e) = Message(h, v, u, Append(r, e))
  BY AddEntryParts
<1> HIDE DEF m
<1>7. CommandReadTag(p, t) = [msg |-> add_reg_entry(m, e), state |-> "go"]
  BY <1>3, <1>5 DEF CommandReadTag, ReadRegEntry
<1> QED BY <1>4, <1>6, <1>7 DEF t, m

EntryTokensOf(q) == [i \in DOMAIN q |-> EntryToken(q[i])]

(* The tokens of one entry more *)
LEMMA EntryTokensAppend ==
  ASSUME NEW q \in Seq(RegistryEntries), NEW e \in RegistryEntries
  PROVE  /\ EntryTokensOf(q) \in Seq(Tokens)
         /\ EntryTokensOf(Append(q, e)) = Append(EntryTokensOf(q), EntryToken(e))
<1> DEFINE a == EntryTokensOf(Append(q, e))
           b == Append(EntryTokensOf(q), EntryToken(e))
           n == Len(q)
<1>1. /\ n \in Nat /\ DOMAIN q = 1 .. n /\ DOMAIN Append(q, e) = 1 .. n + 1
      /\ \A i \in 1 .. n : Append(q, e)[i] = q[i] /\ q[i] \in RegistryEntries
      /\ Append(q, e)[n + 1] = e
  OBVIOUS
<1> HIDE DEF n
<1>2. \A d \in RegistryEntries : EntryToken(d) \in Tokens
  BY EntryStep
<1>3. EntryTokensOf(q) \in Seq(Tokens) /\ Len(EntryTokensOf(q)) = n
      /\ \A i \in 1 .. n : EntryTokensOf(q)[i] = EntryToken(q[i])
  BY <1>1, <1>2 DEF EntryTokensOf
<1>4. /\ b \in Seq(Tokens) /\ DOMAIN b = 1 .. n + 1
      /\ \A i \in 1 .. n : b[i] = EntryToken(q[i])
      /\ b[n + 1] = EntryToken(e)
  BY <1>2, <1>3, AppendFacts
<1>5. /\ a = [i \in 1 .. n + 1 |-> EntryToken(Append(q, e)[i])]
  BY <1>1 DEF EntryTokensOf
<1> HIDE DEF b
<1>6. ASSUME NEW i \in 1 .. n + 1 PROVE EntryToken(Append(q, e)[i]) = b[i]
  <2>1. i \in 1 .. n \/ i = n + 1
    BY <1>1
  <2> QED BY <1>1, <1>4, <2>1
<1>7. b = [i \in 1 .. n + 1 |-> b[i]]
  BY <1>4
<1>8. a = b
  <2> HIDE DEF a
  <2> QED BY <1>5, <1>6, <1>7
<1> QED BY <1>3, <1>8 DEF b

(* The entries of a Command are added in their order. *)
LEMMA CommandReadsEntries ==
  ASSUME NEW m \in Commands, NEW w \in Seq(Tokens),
         NEW h, NEW v, NEW u, NEW r \in Seq(RegistryEntries),
         MergePartialFromCodedStream(m, w) = [msg |-> Message(h, v, u, r), state |-> "go"],
         NEW q \in Seq(RegistryEntries)
  PROVE  MergePartialFromCodedStream(m, w \o EntryTokensOf(q))
           = [msg |-> Message(h, v, u, r \o q), state |-> "go"]
<1> DEFINE S == {y \in Seq(RegistryEntries) :
                   MergePartialFromCodedStream(m, w \o EntryTokensOf(y))
                     = [msg |-> Message(h, v, u, r \o y), state |-> "go"]}
<1>1. <<>> \in S
  <2>1. EntryTokensOf(<<>>) = <<>>
    BY DEF EntryTokensOf
  <2>2. w \o <<>> = w /\ r \o <<>> = r /\ <<>> \in Seq(RegistryEntries)
    BY ConcatEmpty
  <2> QED BY <2>1, <2>2
<1>2. ASSUME NEW y \in Seq(RegistryEntries), NEW e \in RegistryEntries, y \in S
      PROVE  Append(y, e) \in S
  <2> DEFINE z == EntryTokensOf(y)
             t == EntryToken(e)
  <2>1. z \in Seq(Tokens) /\ EntryTokensOf(Append(y, e)) = Append(z, t)
    BY EntryTokensAppend
  <2>2. t \in Tokens
    BY EntryStep
  <2>3. MergePartialFromCodedStream(m, w \o z)
          = [msg |-> Message(h, v, u, r \o y), state |-> "go"]
    BY <1>2
  <2>4. CommandReadTag([msg |-> Message(h, v, u, r \o y), state |-> "go"], t)
          = [msg |-> Message(h, v, u, Append(r \o y, e)), state |-> "go"]
    BY EntryStep
  <2> HIDE DEF z, t
  <2>5. w \o Append(z, t) = Append(w \o z, t) /\ w \o z \in Seq(Tokens)
    BY <2>1, <2>2, ConcatAppend
  <2>6. r \o Append(y, e) = Append(r \o y, e) /\ Append(y, e) \in Seq(RegistryEntries)
    BY ConcatAppend
  <2>7. MergePartialFromCodedStream(m, Append(w \o z, t))
          = CommandReadTag(MergePartialFromCodedStream(m, w \o z), t)
    BY <2>2, <2>5, CommandMergeAppend
  <2>8. MergePartialFromCodedStream(m, w \o EntryTokensOf(Append(y, e)))
          = [msg |-> Message(h, v, u, r \o Append(y, e)), state |-> "go"]
    BY <2>1, <2>3, <2>4, <2>5, <2>6, <2>7
  <2> QED BY <2>6, <2>8
<1>3. Seq(RegistryEntries) \subseteq S
  <2> HIDE DEF S
  <2> QED BY <1>1, <1>2, SequenceInduction
<1> QED BY <1>3

(* So are the foreign tokens of a Command. *)
LEMMA CommandReadsUnknown ==
  ASSUME NEW m \in Commands, NEW w \in Seq(Tokens),
         NEW h, NEW v, NEW x \in Seq(PlainTokens), NEW r,
         MergePartialFromCodedStream(m, w) = [msg |-> Message(h, v, x, r), state |-> "go"],
         NEW u \in Seq({t \in PlainTokens :
                          Foreign(t, CommandKinds, Command_Cmds)})
  PROVE  MergePartialFromCodedStream(m, w \o u) = [msg |-> Message(h, v, x \o u, r), state |-> "go"]
<1> DEFINE FT == {t \in PlainTokens : Foreign(t, CommandKinds, Command_Cmds)}
           S == {y \in Seq(FT) : MergePartialFromCodedStream(m, w \o y)
                                   = [msg |-> Message(h, v, x \o y, r), state |-> "go"]}
<1>1. FT \subseteq PlainTokens /\ PlainTokens \subseteq Tokens
  BY DEF Tokens
<1>2. <<>> \in S
  <2>1. w \o <<>> = w /\ x \o <<>> = x /\ <<>> \in Seq(FT)
    BY ConcatEmpty
  <2> QED BY <2>1
<1>3. ASSUME NEW y \in Seq(FT), NEW t \in FT, y \in S PROVE Append(y, t) \in S
  <2>1. /\ y \in Seq(PlainTokens) /\ y \in Seq(Tokens)
        /\ t \in PlainTokens /\ t \in Tokens /\ Append(y, t) \in Seq(FT)
    BY <1>1, SeqSubset
  <2> HIDE DEF FT
  <2>2. /\ w \o Append(y, t) = Append(w \o y, t)
        /\ x \o Append(y, t) = Append(x \o y, t)
    <3>1. w \o Append(y, t) = Append(w \o y, t)
      BY <2>1, ConcatAppend
    <3>2. x \o Append(y, t) = Append(x \o y, t)
      BY <2>1, ConcatAppend
    <3> QED BY <3>1, <3>2, Zenon
  <2>3. w \o y \in Seq(Tokens)
    BY <2>1
  <2>4. MergePartialFromCodedStream(m, Append(w \o y, t))
          = CommandReadTag(MergePartialFromCodedStream(m, w \o y), t)
    BY <2>1, <2>3, CommandMergeAppend
  <2>5. CommandReadTag([msg |-> Message(h, v, x \o y, r), state |-> "go"], t)
          = [msg |-> Message(h, v, Append(x \o y, t), r), state |-> "go"]
    BY <2>1, ForeignStep DEF CommandReadTag, FT, PlainTokens
  <2>6. MergePartialFromCodedStream(m, w \o y) = [msg |-> Message(h, v, x \o y, r), state |-> "go"]
    BY <1>3
  <2>7. MergePartialFromCodedStream(m, w \o Append(y, t))
          = [msg |-> Message(h, v, x \o Append(y, t), r), state |-> "go"]
    BY <2>2, <2>4, <2>5, <2>6
  <2> QED BY <2>1, <2>7
<1>4. Seq(FT) \subseteq S
  <2> HIDE DEF S, FT
  <2> QED BY <1>2, <1>3, SequenceInduction
<1> QED BY <1>4

(* What a Command writes: its fields, its entries, what is unknown. *)
LEMMA SerializeType ==
  ASSUME NEW m \in Commands
  PROVE  /\ Fields(m, CommandKinds) \in Seq(PlainTokens)
         /\ Fields(m, CommandKinds) \in Seq(Tokens)
         /\ m.reg_entry \in Seq(RegistryEntries)
         /\ EntryTokensOf(m.reg_entry) \in Seq(Tokens)
         /\ m.unknown \in Seq(PlainTokens)
         /\ m.unknown \in Seq(Tokens)
         /\ Serialize(m) = (Fields(m, CommandKinds) \o EntryTokensOf(m.reg_entry)) \o m.unknown
         /\ Serialize(m) \in Seq(Tokens)
<1>1. m \in Messages(CommandKinds, Command_Cmds, PlainTokens, RegistryEntries)
  BY DEF Commands
<1>2. Len(CommandKinds) \in 0 .. Len(CommandKinds)
  BY CommandSchema
<1>3. Fields(m, CommandKinds) \in Seq(PlainTokens)
  <2>1. FieldsUpTo(m, CommandKinds) \in [0 .. Len(CommandKinds) -> Seq(PlainTokens)]
    BY <1>1, CommandSchema, FieldsUpToDef
  <2> QED BY <1>2, <2>1 DEF Fields
<1>4. PlainTokens \subseteq Tokens
  BY DEF Tokens
<1>5. m.unknown \in Seq(PlainTokens) /\ m.reg_entry \in Seq(RegistryEntries)
  BY <1>1, CommandSchema, MessageParts
<1>6. Fields(m, CommandKinds) \in Seq(Tokens) /\ m.unknown \in Seq(Tokens)
  BY <1>3, <1>4, <1>5, SeqSubset
<1>7. EntryTokensOf(m.reg_entry) \in Seq(Tokens)
  BY <1>5, EntrySharedCtorType, EntryTokensAppend
<1>8. Serialize(m) = (Fields(m, CommandKinds) \o EntryTokensOf(m.reg_entry)) \o m.unknown
  BY Zenon DEF Serialize, EntryTokensOf
<1>9. Serialize(m) \in Seq(Tokens)
  BY <1>6, <1>7, <1>8
<1> QED BY <1>3, <1>5, <1>6, <1>7, <1>8, <1>9

(* Reading what a Command writes on top of another is merging the two. *)
LEMMA CommandMergeIsConcatenation ==
  ASSUME NEW m \in Commands, NEW from \in Commands
  PROVE  MergePartialFromCodedStream(m, Serialize(from))
           = [msg |-> MergeFrom(m, from), state |-> "go"]
<1> DEFINE kinds == CommandKinds
           valid == Command_Cmds
           n == Len(kinds)
           W == FieldsUpTo(from, kinds)
           F == [f \in 0 .. n |-> MergePartialFromCodedStream(m, W[f])]
           G == [f \in 0 .. n |-> MergedUpTo(m, from, f)]
<1>1. /\ m \in Messages(kinds, valid, PlainTokens, RegistryEntries)
      /\ from \in Messages(kinds, valid, PlainTokens, RegistryEntries)
      /\ Schema(kinds, valid) /\ n \in Nat
  BY CommandSchema DEF Commands
<1>2. /\ W \in [0 .. n -> Seq(PlainTokens)] /\ W[0] = <<>>
      /\ \A k \in 1 .. n :
           W[k] = IF k \in from.has
                  THEN Append(W[k - 1], Token(k, WireOf(kinds[k]), from.val[k]))
                  ELSE W[k - 1]
  <2>1. from \in Messages(kinds, valid, PlainTokens, RegistryEntries) /\ Schema(kinds, valid)
    BY <1>1
  <2> HIDE DEF kinds, valid
  <2> QED BY <2>1, FieldsUpToDef
<1> HIDE DEF W, n, kinds, valid
<1>3. \A k \in 0 .. n : W[k] \in Seq(Tokens)
  <2>1. PlainTokens \subseteq Tokens
    BY DEF Tokens
  <2> QED BY <1>2, <2>1, SeqSubset
<1>4. F[0] = G[0]
  <2>1. F[0] = [msg |-> m, state |-> "go"]
    BY <1>1, <1>2, CommandMergeEmpty
  <2>2. G[0] = [msg |-> m, state |-> "go"]
    BY <1>1, MergedNone
  <2> QED BY <2>1, <2>2
<1>5. ASSUME NEW k \in 1 .. n, F[k - 1] = G[k - 1] PROVE F[k] = G[k]
  <2> DEFINE t == Token(k, WireOf(kinds[k]), from.val[k])
             p == MergedUpTo(m, from, k - 1)
  <2>1. k - 1 \in 0 .. n /\ k \in 0 .. n /\ k \in 1 .. Len(kinds)
    BY <1>1 DEF n
  <2>2. MergePartialFromCodedStream(m, W[k - 1]) = p
    BY <1>5, <2>1
  <2>3. G[k] = IF k \in from.has THEN ReadTag(p, t, kinds, valid) ELSE p
    BY <1>1, <2>1, MergedStep
  <2>4. t \in Tokens /\ ~HoldsEntry(t)
    BY <1>1, <2>1, FieldToken DEF PlainTokens, Tokens
  <2>5. W[k - 1] \in Seq(Tokens)
    BY <1>3, <2>1
  <2>6. W[k] = IF k \in from.has THEN Append(W[k - 1], t) ELSE W[k - 1]
    BY <1>2
  <2> HIDE DEF t, p, G
  <2>7. CASE k \in from.has
    <3>1. MergePartialFromCodedStream(m, Append(W[k - 1], t)) = CommandReadTag(p, t)
      BY <2>2, <2>4, <2>5, CommandMergeAppend
    <3>2. F[k] = CommandReadTag(p, t)
      BY <2>1, <2>6, <2>7, <3>1
    <3> QED BY <2>3, <2>4, <2>7, <3>2 DEF CommandReadTag, kinds, valid
  <2>8. CASE k \notin from.has
    BY <2>1, <2>2, <2>3, <2>6, <2>8
  <2> QED BY <2>7, <2>8
<1>6. F[n] = G[n]
  <2> HIDE DEF F, G
  <2> QED BY <1>1, <1>4, <1>5, StayEqual
<1>7. MergePartialFromCodedStream(m, Fields(from, CommandKinds)) = MergedUpTo(m, from, n)
  <2>1. n \in 0 .. n
    BY <1>1
  <2> QED BY <1>6, <2>1 DEF Fields, W, n, kinds
<1>8. /\ Fields(from, CommandKinds) \in Seq(Tokens)
      /\ from.reg_entry \in Seq(RegistryEntries)
      /\ EntryTokensOf(from.reg_entry) \in Seq(Tokens)
      /\ Serialize(from) = (Fields(from, CommandKinds) \o EntryTokensOf(from.reg_entry))
                             \o from.unknown
      /\ m.unknown \in Seq(PlainTokens) /\ m.reg_entry \in Seq(RegistryEntries)
  BY SerializeType
<1>9. MergePartialFromCodedStream(m, Fields(from, CommandKinds) \o EntryTokensOf(from.reg_entry))
        = [msg |-> Message(MergedHas(m, from, n), MergedVal(m, from, n),
                           m.unknown, m.reg_entry \o from.reg_entry), state |-> "go"]
  BY <1>7, <1>8, CommandReadsEntries DEF MergedUpTo
<1>10. MergePartialFromCodedStream(m, Serialize(from))
         = [msg |-> Message(MergedHas(m, from, n), MergedVal(m, from, n),
                            m.unknown \o from.unknown, m.reg_entry \o from.reg_entry),
            state |-> "go"]
  <2> DEFINE w == Fields(from, CommandKinds) \o EntryTokensOf(from.reg_entry)
  <2>1. from.unknown \in Seq({t \in PlainTokens : Foreign(t, CommandKinds, Command_Cmds)})
    BY <1>1, UnknownForeign DEF kinds, valid
  <2>2. w \in Seq(Tokens)
    BY <1>8
  <2> DEFINE h == MergedHas(m, from, n)
             v == MergedVal(m, from, n)
             x == m.unknown
             r == m.reg_entry \o from.reg_entry
             u == from.unknown
  <2>3. MergePartialFromCodedStream(m, w) = [msg |-> Message(h, v, x, r), state |-> "go"]
    BY <1>9
  <2>4. x \in Seq(PlainTokens)
    BY <1>8
  <2> HIDE DEF w, h, v, x, r, u
  <2>5. MergePartialFromCodedStream(m, w \o u)
          = [msg |-> Message(h, v, x \o u, r), state |-> "go"]
    BY <2>1, <2>2, <2>3, <2>4, CommandReadsUnknown DEF u
  <2> QED BY <1>8, <2>5 DEF w, h, v, x, r, u
<1>11. MergeFrom(m, from)
         = Message(MergedHas(m, from, n), MergedVal(m, from, n),
                   m.unknown \o from.unknown, m.reg_entry \o from.reg_entry)
  BY MergeFromParts DEF n, kinds
<1> QED BY <1>10, <1>11
----------------------------------------------------------------------------
(* Sizes *)

(* The sums of the specification, with the sizes as functions *)
FlatSizes == [t \in FlatTokens |-> FlatSize(t)]

WireSizes == [t \in Tokens |-> WireSize(t)]

EntrySizes == [e \in RegistryEntries |-> LengthSize(EntryByteSize(e))]

(* Sizes are numbers. *)
LEMMA VarintSizeType ==
  ASSUME NEW x \in Int
  PROVE  VarintSize(x) \in Int /\ LengthSize(x) \in Int
BY DEF VarintSize, LengthSize

(* The tag of a known field has one byte. *)
LEMMA TagSizeSmall ==
  ASSUME NEW f \in 1 .. 11
  PROVE  TagSize(f) = 1
BY DEF TagSize, VarintSize

(* The size of a token is a number. *)
LEMMA FlatSizeType ==
  ASSUME NEW t \in FlatTokens
  PROVE  FlatSize(t) \in Int
<1>1. t.field \in Int /\ t.value \in Int
  BY DEF FlatTokens
<1>2. 8 * t.field + 2 \in Int
  BY <1>1
<1>3. TagSize(t.field) \in Int
  BY <1>2, VarintSizeType DEF TagSize
<1>4. VarintSize(t.value) \in Int /\ LengthSize(t.value) \in Int
  BY <1>1, VarintSizeType
<1> QED BY <1>3, <1>4 DEF FlatSize

(* FlatTotal is such a sum. *)
LEMMA FlatSums ==
  /\ FlatSizes \in [FlatTokens -> Int]
  /\ \A s \in Seq(FlatTokens) : FlatTotal(s) = SumOf(FlatSizes, s)
<1>1. FlatSizes \in [FlatTokens -> Int]
  BY FlatSizeType DEF FlatSizes
<1>2. ASSUME NEW s \in Seq(FlatTokens) PROVE FlatTotal(s) = SumOf(FlatSizes, s)
  <2>1. \A i \in DOMAIN s : FlatSizes[s[i]] = FlatSize(s[i])
    BY DEF FlatSizes
  <2>2. [i \in DOMAIN s |-> FlatSizes[s[i]]] = [i \in DOMAIN s |-> FlatSize(s[i])]
    BY <2>1
  <2> QED BY <2>2 DEF FlatTotal, SumOf
<1> QED BY <1>1, <1>2

(* A field has the size that ByteSize adds for it. *)
LEMMA FieldTokenSize ==
  ASSUME NEW kinds, NEW valid, Schema(kinds, valid), NEW T, NEW E,
         NEW m \in Messages(kinds, valid, T, E), NEW f \in 1 .. Len(kinds)
  PROVE  FlatSizes[Token(f, WireOf(kinds[f]), m.val[f])] = FieldSize(kinds[f], m.val[f])
<1> DEFINE t == Token(f, WireOf(kinds[f]), m.val[f])
<1>1. t \in FlatTokens
  BY FieldToken DEF PlainTokens
<1>2. t.field = f /\ t.wire = WireOf(kinds[f]) /\ t.value = m.val[f]
  BY DEF Token
<1> HIDE DEF t
<1>3. FlatSizes[t] = FlatSize(t)
  BY <1>1 DEF FlatSizes
<1>4. TagSize(f) = 1
  <2>1. f \in 1 .. 11
    BY FieldNumber, Zenon
  <2> QED BY <2>1, TagSizeSmall, Zenon
<1>5. FlatSize(t) = FieldSize(kinds[f], m.val[f])
  BY <1>2, <1>4 DEF FlatSize, FieldSize, WireOf
<1> QED BY <1>3, <1>5 DEF t

(* Field by field, what ByteSize adds is what is written. *)
LEMMA FieldsSizeExact ==
  ASSUME NEW kinds, NEW valid, Schema(kinds, valid), NEW T, NEW E,
         NEW m \in Messages(kinds, valid, T, E)
  PROVE  FieldsSize(m, kinds) = SumOf(FlatSizes, Fields(m, kinds))
<1> DEFINE n == Len(kinds)
           W == FieldsUpTo(m, kinds)
           z == [f \in DOMAIN kinds |->
                   IF f \in m.has THEN FieldSize(kinds[f], m.val[f]) ELSE 0]
           F == [f \in 0 .. n |-> SumOf(FlatSizes, W[f])]
           G == TotalUpTo(z)
<1>1. n \in Nat /\ DOMAIN kinds = 1 .. n
  BY DEF Schema
<1>2. /\ W \in [0 .. n -> Seq(PlainTokens)] /\ W[0] = <<>>
      /\ \A k \in 1 .. n :
           W[k] = IF k \in m.has
                  THEN Append(W[k - 1], Token(k, WireOf(kinds[k]), m.val[k]))
                  ELSE W[k - 1]
  BY FieldsUpToDef
<1>3. PlainTokens \subseteq FlatTokens
  BY DEF PlainTokens
<1>4. \A k \in 1 .. n : m.val[k] \in Int
  BY MessageParts
<1>5. ASSUME NEW k \in 1 .. n
      PROVE  z[k] = (IF k \in m.has THEN FieldSize(kinds[k], m.val[k]) ELSE 0) /\ z[k] \in Int
  <2>1. z[k] = IF k \in m.has THEN FieldSize(kinds[k], m.val[k]) ELSE 0
    BY <1>1
  <2>2. VarintSize(m.val[k]) \in Int /\ LengthSize(m.val[k]) \in Int
    BY <1>4, VarintSizeType
  <2>3. FieldSize(kinds[k], m.val[k]) \in Int
    BY <2>2 DEF FieldSize
  <2> HIDE DEF z
  <2> QED BY <2>1, <2>3
<1>6. z \in Seq(Int) /\ Len(z) = n
  <2>1. z = [k \in 1 .. n |-> z[k]]
    BY <1>1
  <2> HIDE DEF z
  <2>2. z \in [1 .. n -> Int]
    BY <1>5, <2>1
  <2> QED BY <1>1, <2>2
<1> HIDE DEF n, W, z, G
<1>7. G[0] = 0 /\ \A k \in 1 .. n : G[k] = G[k - 1] + z[k]
  BY <1>6, TotalUpToDef DEF G
<1>8. F[0] = G[0]
  <2>1. W[0] \in Seq(FlatTokens)
    BY <1>1, <1>2, <1>3, SeqSubset
  <2>2. SumOf(FlatSizes, <<>>) = 0
    BY <2>1, FlatSums, SumOfType
  <2> QED BY <1>1, <1>2, <1>7, <2>2
<1>9. ASSUME NEW k \in 1 .. n, F[k - 1] = G[k - 1] PROVE F[k] = G[k]
  <2> DEFINE t == Token(k, WireOf(kinds[k]), m.val[k])
  <2>1. k - 1 \in 0 .. n /\ k \in 0 .. n /\ k \in 1 .. Len(kinds)
    BY <1>1 DEF n
  <2>2. W[k - 1] \in Seq(FlatTokens)
    BY <1>2, <1>3, <2>1, SeqSubset
  <2>3. t \in FlatTokens /\ FlatSizes[t] = FieldSize(kinds[k], m.val[k])
    BY <2>1, FieldToken, FieldTokenSize DEF PlainTokens
  <2>4. W[k] = IF k \in m.has THEN Append(W[k - 1], t) ELSE W[k - 1]
    BY <1>2
  <2>5. /\ z[k] = IF k \in m.has THEN FieldSize(kinds[k], m.val[k]) ELSE 0
        /\ G[k] = G[k - 1] + z[k]
    BY <1>5, <1>7
  <2>6. F[k - 1] = SumOf(FlatSizes, W[k - 1]) /\ F[k] = SumOf(FlatSizes, W[k])
    BY <2>1
  <2> HIDE DEF t, F
  <2>7. /\ SumOf(FlatSizes, W[k - 1]) \in Int
        /\ SumOf(FlatSizes, Append(W[k - 1], t)) = SumOf(FlatSizes, W[k - 1]) + FlatSizes[t]
    BY <2>2, <2>3, FlatSums, SumOfAppend, SumOfType
  <2>8. CASE k \in m.has
    BY <1>9, <2>3, <2>4, <2>5, <2>6, <2>7, <2>8
  <2>9. CASE k \notin m.has
    BY <1>9, <2>4, <2>5, <2>6, <2>7, <2>9
  <2> QED BY <2>8, <2>9
<1>10. F[n] = G[n]
  <2> HIDE DEF F
  <2> QED BY <1>1, <1>8, <1>9, StayEqual
<1>11. F[n] = SumOf(FlatSizes, Fields(m, kinds))
  <2>1. n \in 0 .. n
    BY <1>1
  <2> QED BY <2>1 DEF Fields, W, n
<1>12. FieldsSize(m, kinds) = G[n]
  BY <1>6 DEF FieldsSize, Total, G, z
<1> QED BY <1>10, <1>11, <1>12

(* EntryByteSize is the number of bytes that an entry writes. *)
LEMMA EntrySizeExact ==
  ASSUME NEW e \in RegistryEntries
  PROVE  /\ FlatTotal(EntrySerialize(e)) = EntryByteSize(e)
         /\ EntryByteSize(e) \in Int
<1> DEFINE a == Fields(e, EntryKinds)
           u == e.unknown
<1>1. a \in Seq(FlatTokens) /\ u \in Seq(FlatTokens) /\ EntrySerialize(e) = a \o u
  BY EntrySerializeType DEF EntrySerialize
<1>2. FieldsSize(e, EntryKinds) = SumOf(FlatSizes, a)
  <2>1. e \in Messages(EntryKinds, Command_RegistryEntryTypes, FlatTokens, {})
    BY DEF RegistryEntries
  <2> QED BY <2>1, EntrySchema, FieldsSizeExact
<1>3. EntryByteSize(e) = FieldsSize(e, EntryKinds) + FlatTotal(u)
  BY DEF EntryByteSize
<1> HIDE DEF a, u
<1>4. a \o u \in Seq(FlatTokens)
  BY <1>1
<1>5. FlatTotal(a \o u) = SumOf(FlatSizes, a \o u) /\ FlatTotal(u) = SumOf(FlatSizes, u)
  BY <1>1, <1>4, FlatSums
<1>6. SumOf(FlatSizes, a \o u) = SumOf(FlatSizes, a) + SumOf(FlatSizes, u)
  BY <1>1, FlatSums, SumOfConcat
<1>7. SumOf(FlatSizes, a) \in Int /\ SumOf(FlatSizes, u) \in Int
  BY <1>1, FlatSums, SumOfType
<1> QED BY <1>1, <1>2, <1>3, <1>5, <1>6, <1>7

(* WireTotal is such a sum, too. *)
LEMMA WireSums ==
  /\ WireSizes \in [Tokens -> Int]
  /\ \A s \in Seq(Tokens) : WireTotal(s) = SumOf(WireSizes, s)
<1>1. ASSUME NEW t \in Tokens PROVE WireSize(t) \in Int
  <2>1. CASE HoldsEntry(t)
    <3>1. t.value \in Seq(FlatTokens) /\ t.field = 11
      BY <2>1 DEF Tokens, EntryTokens, PlainTokens, HoldsEntry, RegEntry
    <3>2. FlatTotal(t.value) \in Int
      BY <3>1, FlatSums, SumOfType
    <3>3. LengthSize(FlatTotal(t.value)) \in Int
      BY <3>2, VarintSizeType
    <3>4. TagSize(t.field) = 1
      BY <3>1, TagSizeSmall
    <3> QED BY <2>1, <3>3, <3>4 DEF WireSize
  <2>2. CASE ~HoldsEntry(t)
    <3>1. t \in FlatTokens
      BY <2>2 DEF Tokens, EntryTokens, PlainTokens, HoldsEntry
    <3> QED BY <2>2, <3>1, FlatSizeType DEF WireSize
  <2> QED BY <2>1, <2>2
<1>2. WireSizes \in [Tokens -> Int]
  BY <1>1 DEF WireSizes
<1>3. ASSUME NEW s \in Seq(Tokens) PROVE WireTotal(s) = SumOf(WireSizes, s)
  <2>1. \A i \in DOMAIN s : WireSizes[s[i]] = WireSize(s[i])
    BY DEF WireSizes
  <2>2. [i \in DOMAIN s |-> WireSizes[s[i]]] = [i \in DOMAIN s |-> WireSize(s[i])]
    BY <2>1
  <2> QED BY <2>2 DEF WireTotal, SumOf
<1> QED BY <1>2, <1>3

(* What holds no entry has the same size in a Command as anywhere. *)
LEMMA PlainSums ==
  ASSUME NEW s \in Seq(PlainTokens)
  PROVE  SumOf(WireSizes, s) = SumOf(FlatSizes, s)
<1>1. ASSUME NEW t \in PlainTokens PROVE WireSizes[t] = FlatSizes[t]
  <2>1. t \in FlatTokens /\ t \in Tokens /\ ~HoldsEntry(t)
    BY DEF PlainTokens, Tokens
  <2> QED BY <2>1 DEF WireSizes, FlatSizes, WireSize
<1>2. \A i \in DOMAIN s : WireSizes[s[i]] = FlatSizes[s[i]]
  BY <1>1
<1>3. [i \in DOMAIN s |-> WireSizes[s[i]]] = [i \in DOMAIN s |-> FlatSizes[s[i]]]
  BY <1>2
<1> QED BY <1>3 DEF SumOf

(* The entries: one byte of tag each, their length and their bytes *)
LEMMA EntriesSizeExact ==
  ASSUME NEW q \in Seq(RegistryEntries)
  PROVE  /\ EntrySizes \in [RegistryEntries -> Int]
         /\ SumOf(WireSizes, EntryTokensOf(q)) = Len(q) + SumOf(EntrySizes, q)
<1> DEFINE S == {y \in Seq(RegistryEntries) :
                   SumOf(WireSizes, EntryTokensOf(y)) = Len(y) + SumOf(EntrySizes, y)}
<1>1. EntrySizes \in [RegistryEntries -> Int]
  BY EntrySizeExact, VarintSizeType DEF EntrySizes
<1>2. <<>> \in S
  <2>1. EntryTokensOf(<<>>) = <<>>
    BY DEF EntryTokensOf
  <2>2. <<>> \in Seq(RegistryEntries) /\ <<>> \in Seq(Tokens) /\ Len(<<>>) = 0
    OBVIOUS
  <2>3. SumOf(WireSizes, <<>>) = 0
    BY <2>2, WireSums, SumOfType
  <2>4. SumOf(EntrySizes, <<>>) = 0
    BY <1>1, <2>2, SumOfType
  <2> QED BY <2>1, <2>2, <2>3, <2>4
<1>3. ASSUME NEW y \in Seq(RegistryEntries), NEW e \in RegistryEntries, y \in S
      PROVE  Append(y, e) \in S
  <2> DEFINE z == EntryTokensOf(y)
             t == EntryToken(e)
  <2>1. z \in Seq(Tokens) /\ EntryTokensOf(Append(y, e)) = Append(z, t)
    BY EntryTokensAppend
  <2>2. t \in Tokens
    BY EntryStep
  <2>3. WireSizes[t] = 1 + EntrySizes[e]
    <3>1. HoldsEntry(t) /\ t.field = 11 /\ t.value = EntrySerialize(e)
      BY DEF EntryToken, Token, HoldsEntry, RegEntry
    <3> HIDE DEF t
    <3>2. TagSize(t.field) = 1
      BY <3>1, TagSizeSmall
    <3>3. WireSize(t) = 1 + LengthSize(EntryByteSize(e))
      BY <3>1, <3>2, EntrySizeExact DEF WireSize
    <3> QED BY <2>2, <3>3 DEF WireSizes, EntrySizes
  <2>4. SumOf(WireSizes, z) = Len(y) + SumOf(EntrySizes, y)
    BY <1>3
  <2> HIDE DEF z, t
  <2>5. SumOf(WireSizes, Append(z, t)) = SumOf(WireSizes, z) + WireSizes[t]
    BY <2>1, <2>2, WireSums, SumOfAppend
  <2>6. /\ SumOf(EntrySizes, Append(y, e)) = SumOf(EntrySizes, y) + EntrySizes[e]
        /\ SumOf(EntrySizes, y) \in Int /\ EntrySizes[e] \in Int
    BY <1>1, SumOfAppend, SumOfType
  <2>7. Append(y, e) \in Seq(RegistryEntries) /\ Len(Append(y, e)) = Len(y) + 1 /\ Len(y) \in Int
    OBVIOUS
  <2>8. SumOf(WireSizes, EntryTokensOf(Append(y, e)))
          = Len(Append(y, e)) + SumOf(EntrySizes, Append(y, e))
    <3>1. SumOf(WireSizes, EntryTokensOf(Append(y, e)))
            = (Len(y) + SumOf(EntrySizes, y)) + (1 + EntrySizes[e])
      BY <2>1, <2>3, <2>4, <2>5, Zenon
    <3>2. \A a, b, c \in Int : (a + b) + (1 + c) = (a + 1) + (b + c)
      OBVIOUS
    <3>3. (Len(y) + SumOf(EntrySizes, y)) + (1 + EntrySizes[e])
            = (Len(y) + 1) + (SumOf(EntrySizes, y) + EntrySizes[e])
      BY <2>6, <2>7, <3>2, Zenon
    <3> QED BY <2>6, <2>7, <3>1, <3>3, Zenon
  <2> QED BY <2>7, <2>8
<1>4. Seq(RegistryEntries) \subseteq S
  <2> HIDE DEF S
  <2> QED BY <1>2, <1>3, SequenceInduction
<1> QED BY <1>1, <1>4

(* ByteSize is the number of bytes that a Command writes. *)
LEMMA CommandSizeExact ==
  ASSUME NEW m \in Commands
  PROVE  ByteSize(m) = WireTotal(Serialize(m))
<1> DEFINE a == Fields(m, CommandKinds)
           q == m.reg_entry
           b == EntryTokensOf(q)
           u == m.unknown
<1>1. /\ a \in Seq(PlainTokens) /\ a \in Seq(Tokens) /\ q \in Seq(RegistryEntries)
      /\ b \in Seq(Tokens) /\ u \in Seq(PlainTokens) /\ u \in Seq(Tokens)
      /\ Serialize(m) = (a \o b) \o u /\ Serialize(m) \in Seq(Tokens)
  BY SerializeType
<1>2. FieldsSize(m, CommandKinds) = SumOf(FlatSizes, a)
  <2>1. m \in Messages(CommandKinds, Command_Cmds, PlainTokens, RegistryEntries)
    BY DEF Commands
  <2> QED BY <2>1, CommandSchema, FieldsSizeExact
<1>3. ByteSize(m) = FieldsSize(m, CommandKinds) + Len(q)
                    + Total([i \in DOMAIN q |-> LengthSize(EntryByteSize(q[i]))])
                    + FlatTotal(u)
  BY DEF ByteSize
<1>4. SumOf(WireSizes, b) = Len(q) + SumOf(EntrySizes, q) /\ EntrySizes \in [RegistryEntries -> Int]
  BY <1>1, EntriesSizeExact
<1> HIDE DEF a, q, b, u
<1>5. Total([i \in DOMAIN q |-> LengthSize(EntryByteSize(q[i]))]) = SumOf(EntrySizes, q)
  <2>1. \A i \in DOMAIN q : EntrySizes[q[i]] = LengthSize(EntryByteSize(q[i]))
    BY <1>1 DEF EntrySizes
  <2>2. [i \in DOMAIN q |-> EntrySizes[q[i]]]
          = [i \in DOMAIN q |-> LengthSize(EntryByteSize(q[i]))]
    BY <2>1
  <2> QED BY <2>2 DEF SumOf
<1>6. FlatTotal(u) = SumOf(FlatSizes, u)
  <2>1. u \in Seq(FlatTokens)
    BY <1>1, SeqSubset DEF PlainTokens
  <2> QED BY <2>1, FlatSums
<1>7. WireTotal(Serialize(m))
        = SumOf(WireSizes, a) + SumOf(WireSizes, b) + SumOf(WireSizes, u)
  <2>1. WireTotal(Serialize(m)) = SumOf(WireSizes, (a \o b) \o u)
    BY <1>1, WireSums
  <2>2. a \o b \in Seq(Tokens)
    BY <1>1
  <2>3. SumOf(WireSizes, (a \o b) \o u) = SumOf(WireSizes, a \o b) + SumOf(WireSizes, u)
    BY <1>1, <2>2, WireSums, SumOfConcat
  <2>4. SumOf(WireSizes, a \o b) = SumOf(WireSizes, a) + SumOf(WireSizes, b)
    BY <1>1, WireSums, SumOfConcat
  <2> QED BY <2>1, <2>3, <2>4
<1>8. SumOf(WireSizes, a) = SumOf(FlatSizes, a) /\ SumOf(WireSizes, u) = SumOf(FlatSizes, u)
  BY <1>1, PlainSums
<1>9. /\ SumOf(WireSizes, a) \in Int /\ SumOf(WireSizes, u) \in Int
      /\ SumOf(EntrySizes, q) \in Int /\ Len(q) \in Int
  <2>1. SumOf(WireSizes, a) \in Int /\ SumOf(WireSizes, u) \in Int
    BY <1>1, WireSums, SumOfType, Zenon
  <2>2. SumOf(EntrySizes, q) \in Int
    BY <1>1, <1>4, SumOfType, Zenon
  <2>3. Len(q) \in Int
    BY <1>1
  <2> QED BY <2>1, <2>2, <2>3
<1> QED BY <1>2, <1>3, <1>4, <1>5, <1>6, <1>7, <1>8, <1>9
----------------------------------------------------------------------------
(* What holds of all Commands *)

(* MergeFrom makes a Command. *)
LEMMA MergeFromType ==
  ASSUME NEW m \in Commands, NEW from \in Commands
  PROVE  MergeFrom(m, from) \in Commands
<1>1. MergePartialFromCodedStream(m, Serialize(from)) \in Parses(Commands)
  BY SerializeType, CommandMergeType
<1>2. MergePartialFromCodedStream(m, Serialize(from)).msg = MergeFrom(m, from)
  BY CommandMergeIsConcatenation
<1> QED BY <1>1, <1>2 DEF Parses

(* A Command that is merged into a new one is the same. *)
LEMMA CommandMergeIntoNew ==
  ASSUME NEW m \in Commands
  PROVE  MergeFrom(CommandSharedCtor, m) = m
<1> DEFINE c == CommandSharedCtor
<1>1. m \in Messages(CommandKinds, Command_Cmds, PlainTokens, RegistryEntries)
  BY DEF Commands
<1>2. /\ m = Message(m.has, m.val, m.unknown, m.reg_entry)
      /\ m.unknown \in Seq(PlainTokens) /\ m.reg_entry \in Seq(RegistryEntries)
  BY <1>1, CommandSchema, MessageParts
<1>3. /\ MergedHas(c, m, Len(CommandKinds)) = m.has
      /\ MergedVal(c, m, Len(CommandKinds)) = m.val
  BY <1>1, CommandSchema, MergeIntoNew DEF CommandSharedCtor
<1>4. c.unknown = <<>> /\ c.reg_entry = <<>>
  BY DEF CommandSharedCtor, SharedCtor
<1>5. c.unknown \o m.unknown = m.unknown /\ c.reg_entry \o m.reg_entry = m.reg_entry
  BY <1>2, <1>4, ConcatEmpty
<1>6. MergeFrom(c, m) = Message(MergedHas(c, m, Len(CommandKinds)),
                                MergedVal(c, m, Len(CommandKinds)),
                                c.unknown \o m.unknown, c.reg_entry \o m.reg_entry)
  BY CommandSharedCtorType, MergeFromParts
<1> HIDE DEF c
<1>7. MergeFrom(c, m) = m
  BY <1>2, <1>3, <1>5, <1>6
<1> QED BY <1>7 DEF c

(* What was written is read again, whatever was in the object. *)
LEMMA ParseInvertsSerialize ==
  ASSUME NEW o, NEW m \in Commands
  PROVE  ParseFromArray(o, Serialize(m)) = [msg |-> m, ok |-> IsInitialized(m)]
<1>1. MergePartialFromCodedStream(CommandSharedCtor, Serialize(m)) = [msg |-> m, state |-> "go"]
  BY CommandSharedCtorType, CommandMergeIsConcatenation, CommandMergeIntoNew
<1> DEFINE p == MergePartialFromCodedStream(Clear(o), Serialize(m))
<1>2. p.msg = m /\ p.state = "go"
  BY <1>1 DEF Clear
<1>3. ParseFromArray(o, Serialize(m))
        = [msg |-> p.msg, ok |-> p.state = "go" /\ IsInitialized(p.msg)]
  BY DEF ParseFromArray
<1>4. (p.state = "go" /\ IsInitialized(p.msg)) = IsInitialized(m)
  <2> HIDE DEF p
  <2>1. IsInitialized(p.msg) \in BOOLEAN
    BY DEF IsInitialized
  <2> QED BY <1>2, <2>1, Zenon
<1> HIDE DEF p
<1> QED BY <1>2, <1>3, <1>4, Zenon

(* Whatever is read is a Command. *)
LEMMA ParseType ==
  ASSUME NEW o, NEW s \in Seq(Tokens)
  PROVE  ParseFromArray(o, s).msg \in Commands
<1>1. MergePartialFromCodedStream(CommandSharedCtor, s) \in Parses(Commands)
  BY CommandSharedCtorType, CommandMergeType
<1> QED BY <1>1 DEF ParseFromArray, Clear, Parses
----------------------------------------------------------------------------
(* TypeOK is inductive.  It holds in the beginning, *)
LEMMA CodecInit == Init => TypeOK
BY CommandSharedCtorType DEF Init, TypeOK

(* a change of one object to another Command keeps it, *)
LEMMA ChangeKeeps ==
  ASSUME TypeOK, NEW i \in 1 .. 2, NEW m \in Commands, Change(i, m)
  PROVE  TypeOK'
BY DEF TypeOK, Change

(* and swapping two objects does. *)
LEMMA SwapKeeps ==
  ASSUME TypeOK, Swap
  PROVE  TypeOK'
<1>1. \A k \in 1 .. 2 : 3 - k \in 1 .. 2
  OBVIOUS
<1> QED BY <1>1 DEF TypeOK, Swap

(* Reading into an object, from the other or from elsewhere, is a change   *)
LEMMA ParseKeeps ==
  ASSUME TypeOK, NEW i \in 1 .. 2, Parse(i)
  PROVE  TypeOK'
<1>1. obj \in [1 .. 2 -> Commands] /\ 3 - i \in 1 .. 2
  BY DEF TypeOK
<1>2. PICK s \in Inputs \cup {Serialize(obj[3 - i])} :
        Change(i, ParseFromArray(obj[i], s).msg)
  BY DEF Parse
<1>3. s \in Seq(Tokens)
  <2>1. Serialize(obj[3 - i]) \in Seq(Tokens)
    BY <1>1, SerializeType
  <2>2. Inputs \subseteq Seq(Tokens)
    BY CodecAssumption
  <2> QED BY <2>1, <2>2
<1>4. ParseFromArray(obj[i], s).msg \in Commands
  BY <1>3, ParseType
<1> QED BY <1>2, <1>4, ChangeKeeps

(* so every step keeps it. *)
LEMMA CodecStep == TypeOK /\ [Next]_vars => TypeOK'
<1> SUFFICES ASSUME TypeOK, [Next]_vars PROVE TypeOK'
  OBVIOUS
<1>1. obj \in [1 .. 2 -> Commands]
  BY DEF TypeOK
<1>2. \A k \in 1 .. 2 : obj[k] \in Commands /\ obj[3 - k] \in Commands
  BY <1>1
<1>3. CASE Swap
  BY <1>3, SwapKeeps
<1>4. ASSUME NEW i \in 1 .. 2, SetField(i) PROVE TypeOK'
  <2>1. PICK f \in DOMAIN Values : \E v \in Values[f] : Change(i, set(obj[i], f, v))
    BY <1>4 DEF SetField
  <2>2. PICK v \in Values[f] : Change(i, set(obj[i], f, v))
    BY <2>1
  <2>3. f \in 1 .. Len(CommandKinds) /\ v \in Int /\ (f = 1 => v \in Command_Cmds)
    <3>1. DOMAIN CommandKinds = 1 .. Len(CommandKinds) /\ Command_Cmds \subseteq Int
      BY CommandSchema DEF Schema
    <3> QED BY <3>1, CodecAssumption
  <2>4. set(obj[i], f, v) \in Commands
    BY <1>2, <2>3, CommandSchema, SetType DEF Commands
  <2> QED BY <2>2, <2>4, ChangeKeeps
<1>5. ASSUME NEW i \in 1 .. 2, ClearField(i) PROVE TypeOK'
  <2>1. PICK f \in DOMAIN Values : Change(i, clear(obj[i], f, CommandKinds))
    BY <1>5 DEF ClearField
  <2>2. f \in 1 .. Len(CommandKinds)
    BY CodecAssumption, CommandSchema DEF Schema
  <2>3. clear(obj[i], f, CommandKinds) \in Commands
    BY <1>2, <2>2, CommandSchema, ClearType DEF Commands
  <2> QED BY <2>1, <2>3, ChangeKeeps
<1>6. ASSUME NEW i \in 1 .. 2, AddRegEntry(i) PROVE TypeOK'
  <2>1. PICK e \in Entries : Change(i, add_reg_entry(obj[i], e))
    BY <1>6 DEF AddRegEntry
  <2>2. e \in RegistryEntries
    BY CodecAssumption
  <2>3. add_reg_entry(obj[i], e) \in Commands
    BY <1>2, <2>2, CommandSchema, AddEntryType DEF Commands
  <2> QED BY <2>1, <2>3, ChangeKeeps
<1>7. ASSUME NEW i \in 1 .. 2, ClearAll(i) PROVE TypeOK'
  BY <1>7, CommandSharedCtorType, ChangeKeeps DEF ClearAll, Clear
<1>8. ASSUME NEW i \in 1 .. 2, Merge(i) PROVE TypeOK'
  <2>1. MergeFrom(obj[i], obj[3 - i]) \in Commands
    BY <1>2, MergeFromType
  <2> QED BY <1>8, <2>1, ChangeKeeps DEF Merge
<1>9. ASSUME NEW i \in 1 .. 2, Copy(i) PROVE TypeOK'
  <2>1. CopyFrom(obj[i], obj[3 - i]) \in Commands
    BY <1>2, CommandSharedCtorType, MergeFromType DEF CopyFrom, Clear
  <2> QED BY <1>9, <2>1, ChangeKeeps DEF Copy
<1>10. ASSUME NEW i \in 1 .. 2, Parse(i) PROVE TypeOK'
  BY <1>10, ParseKeeps
<1>11. CASE UNCHANGED vars
  BY <1>11 DEF TypeOK, vars
<1> QED BY <1>3, <1>4, <1>5, <1>6, <1>7, <1>8, <1>9, <1>10, <1>11 DEF Next

(* A Command never has a value in a field that is not there, an enum value *)
(* of another version, or a known field among the unknown ones, whatever   *)
(* was set, cleared, merged, swapped or read, broken input included.       *)
THEOREM CodecTypeCorrect == Spec => []TypeOK
BY CodecInit, CodecStep, PTL DEF Spec

(* Reading what SerializeToArray wrote gives the same message back, with   *)
(* the fields of other versions in it.                                     *)
THEOREM CodecRoundTrip == Spec => []RoundTrip
<1>1. TypeOK => RoundTrip
  BY ParseInvertsSerialize DEF TypeOK, RoundTrip
<1> QED BY <1>1, CodecTypeCorrect, PTL

(* The buffer that ByteSize allocates is filled to its last byte, and not  *)
(* beyond: for every message, not only for the sizes of the instance.      *)
THEOREM CodecSizeExact == Spec => []SizeExact
<1>1. TypeOK => SizeExact
  BY CommandSizeExact DEF TypeOK, SizeExact
<1> QED BY <1>1, CodecTypeCorrect, PTL

(* Reading the bytes of one message into another is MergeFrom. *)
THEOREM CodecMergeIsConcatenation == Spec => []MergeIsConcatenation
<1>1. TypeOK => MergeIsConcatenation
  <2> SUFFICES ASSUME TypeOK PROVE MergeIsConcatenation
    OBVIOUS
  <2>1. obj[1] \in Commands /\ obj[2] \in Commands
    BY DEF TypeOK
  <2> QED BY <2>1, CommandMergeIsConcatenation DEF MergeIsConcatenation
<1> QED BY <1>1, CodecTypeCorrect, PTL
============================================================================
