-------------------------- MODULE RedisWireProofs --------------------------
(***************************************************************************)
(* For any texts and any encoding: the command respArray builds is read by *)
(* the broker as it was meant, in whatever pieces it arrives and wherever  *)
(* the connection breaks, and the exchange is a pipeline of one event.     *)
(***************************************************************************)
EXTENDS RedisWire, SequenceTheorems, WellFoundedInduction, TLAPS

-----------------------------------------------------------------------------
(* FlattenSeq.                                                             *)

LEMMA LeastOf ==
  ASSUME NEW S \in SUBSET Nat, S # {}
  PROVE  \E m \in S : \A n \in S : m <= n
<1> DEFINE R == OpToRel(<, Nat)
<1>1. IsWellFoundedOn(R, Nat)
  BY NatLessThanWellFounded, Zenon
<1>2. \A x, y \in Nat : <<x, y>> \in R <=> x < y
  BY Zenon DEF OpToRel
<1> HIDE DEF R
<1>3. \E m \in S : \A n \in S : ~(<<n, m>> \in R)
  BY <1>1, WFMin, Zenon
<1>4. \A m, n \in S : m \in Nat /\ n \in Nat
  OBVIOUS
<1>5. \A m, n \in Nat : ~(n < m) => m <= n
  OBVIOUS
<1> QED
  BY <1>2, <1>3, <1>4, <1>5, Zenon

(* What the library computes, one sequence after the other. *)
Joining(seqs, n, f) == f = [i \in 1..n |-> IF i = 1 THEN seqs[i] ELSE f[i - 1] \o seqs[i]]

LEMMA JoiningExists ==
  ASSUME NEW seqs, NEW n \in Nat
  PROVE  \E f : Joining(seqs, n, f)
<1> DEFINE Bad == {m \in Nat : ~\E f : Joining(seqs, m, f)}
<1>1. ASSUME n \in Bad PROVE FALSE
  <2>1. PICK m \in Bad : \A k \in Bad : m <= k
    BY <1>1, LeastOf
  <2>2. m # 0
    <3>1. Joining(seqs, 0, <<>>)
      BY DEF Joining
    <3> QED
      BY <2>1, <3>1
  <2>3. m - 1 \in Nat /\ m - 1 \notin Bad
    BY <2>1, <2>2
  <2>4. PICK f : Joining(seqs, m - 1, f)
    BY <2>3
  <2> DEFINE g == [i \in 1..m |-> IF i = 1 THEN seqs[i] ELSE f[i - 1] \o seqs[i]]
  <2>5. ASSUME NEW i \in 1..m - 1 PROVE g[i] = f[i]
    <3>1. f[i] = IF i = 1 THEN seqs[i] ELSE f[i - 1] \o seqs[i]
      BY <2>4, Zenon DEF Joining
    <3>2. i \in 1..m
      BY <2>1
    <3> QED
      BY <3>1, <3>2, Zenon
  <2>6. \A i \in 1..m : i # 1 => g[i - 1] = f[i - 1]
    <3>1. \A i \in 1..m : i # 1 => i - 1 \in 1..m - 1
      BY <2>1
    <3> QED
      BY <2>5, <3>1
  <2>7. Joining(seqs, m, g)
    BY <2>6 DEF Joining
  <2> QED
    BY <2>1, <2>7
<1> QED
  BY <1>1

LEMMA Flattened ==
  ASSUME NEW seqs, Len(seqs) \in Nat \ {0}
  PROVE  \E f : Joining(seqs, Len(seqs), f) /\ FlattenSeq(seqs) = f[Len(seqs)]
<1> DEFINE F == CHOOSE f : Joining(seqs, Len(seqs), f)
<1>1. Joining(seqs, Len(seqs), F)
  BY JoiningExists
<1>2. FlattenSeq(seqs) = F[Len(seqs)]
  BY DEF FlattenSeq, Joining
<1> QED
  BY <1>1, <1>2

(* Concatenation as an operator of its own: the provers rewrite \o.        *)
Cat(x, y) == x \o y

LEMMA CatProperties ==
  ASSUME NEW S
  PROVE  /\ \A x, y \in Seq(S) : Cat(x, y) \in Seq(S)
         /\ \A x, y, z \in Seq(S) : Cat(Cat(x, y), z) = Cat(x, Cat(y, z))
         /\ \A x \in Seq(S) : Cat(x, <<>>) = x
<1>1. \A x, y \in Seq(S) : Cat(x, y) \in Seq(S)
  BY SMT DEF Cat
<1>2. \A x, y, z \in Seq(S) : Cat(Cat(x, y), z) = Cat(x, Cat(y, z))
  BY SMT DEF Cat
<1>3. \A x \in Seq(S) : Cat(x, <<>>) = x
  BY SMT DEF Cat
<1> QED
  BY <1>1, <1>2, <1>3, Zenon

LEMMA FlattenThree ==
  ASSUME NEW S, NEW a \in Seq(S), NEW b \in Seq(S), NEW c \in Seq(S)
  PROVE  FlattenSeq(<<a, b, c>>) = Cat(Cat(a, b), c)
<1> DEFINE s == <<a, b, c>>
<1>1. Len(s) = 3 /\ s[1] = a /\ s[2] = b /\ s[3] = c
  OBVIOUS
<1> HIDE DEF s
<1>2. Len(s) \in Nat \ {0}
  BY <1>1
<1>3. PICK f : Joining(s, Len(s), f) /\ FlattenSeq(s) = f[Len(s)]
  BY <1>2, Flattened, Zenon
<1>4. \A i \in 1..3 : f[i] = IF i = 1 THEN s[i] ELSE f[i - 1] \o s[i]
  BY <1>1, <1>3, Zenon DEF Joining
<1>5. f[1] = s[1]
  BY <1>4
<1>6. ASSUME NEW i \in 1..3, NEW j \in 1..3, j = i - 1 PROVE f[i] = f[j] \o s[i]
  <2>1. i # 1
    BY <1>6
  <2>2. f[i] = f[i - 1] \o s[i]
    BY <1>4, <2>1, Zenon
  <2> QED
    BY <1>6, <2>2, Zenon
<1>7. f[2] = f[1] \o s[2] /\ f[3] = f[2] \o s[3]
  <2>1. 1 \in 1..3 /\ 2 \in 1..3 /\ 3 \in 1..3 /\ 1 = 2 - 1 /\ 2 = 3 - 1
    OBVIOUS
  <2> QED
    BY <1>6, <2>1, Zenon
<1>8. FlattenSeq(s) = Cat(Cat(a, b), c)
  BY <1>1, <1>3, <1>5, <1>7, Zenon DEF Cat
<1> QED
  BY <1>8, Zenon DEF s

(* Sequences over S are joined to a sequence over S. *)
LEMMA FlattenType ==
  ASSUME NEW S, NEW seqs \in Seq(Seq(S))
  PROVE  FlattenSeq(seqs) \in Seq(S)
<1>1. CASE Len(seqs) = 0
  BY <1>1 DEF FlattenSeq
<1>2. CASE Len(seqs) # 0
  <2> DEFINE n == Len(seqs)
  <2>1. n \in Nat \ {0}
    BY <1>2
  <2>2. PICK f : Joining(seqs, n, f) /\ FlattenSeq(seqs) = f[n]
    BY <2>1, Flattened
  <2>3. \A i \in 1..n : seqs[i] \in Seq(S)
    OBVIOUS
  <2>4. \A i \in 1..n : f[i] = IF i = 1 THEN seqs[i] ELSE f[i - 1] \o seqs[i]
    BY <2>2 DEF Joining
  <2> DEFINE Bad == {i \in 1..n : f[i] \notin Seq(S)}
  <2> HIDE DEF n
  <2>5. Bad = {}
    <3> SUFFICES ASSUME Bad # {} PROVE FALSE
      OBVIOUS
    <3> Bad \in SUBSET Nat
      BY <2>1
    <3>1. PICK m \in Bad : \A k \in Bad : m <= k
      BY LeastOf
    <3>2. m \in 1..n /\ f[m] \notin Seq(S)
      BY <3>1
    <3>3. m # 1
      BY <2>3, <2>4, <3>2
    <3>4. m - 1 \in 1..n /\ m - 1 \notin Bad
      BY <2>1, <3>1, <3>2, <3>3
    <3>5. f[m - 1] \in Seq(S) /\ seqs[m] \in Seq(S)
      BY <2>3, <3>2, <3>4
    <3>6. f[m - 1] \o seqs[m] \in Seq(S)
      BY <3>5
    <3> QED
      BY <2>4, <3>2, <3>3, <3>6
  <2> QED
    BY <2>1, <2>2, <2>5
<1> QED
  BY <1>1, <1>2

-----------------------------------------------------------------------------
(* Bytes.                                                                  *)

Then(b, r) == <<b>> \o r
EndThen(r) == Then(CR, Then(LF, r))

LEMMA BytesType ==
  ASSUME NEW text \in Messages \cup {Command, Channel}
  PROVE  /\ Bytes(text) \in Seq(Byte)
         /\ Len(Bytes(text)) \in Nat
<1> DEFINE encoded == [i \in DOMAIN text |-> Encoding[text[i]]]
<1>1. text \in Seq(Characters)
  BY WireAssumption DEF WireAssumption
<1>2. \A i \in 1..Len(text) : text[i] \in Characters
  BY <1>1
<1>3. \A i \in 1..Len(text) : Encoding[text[i]] \in Seq(Byte)
  BY <1>2, WireAssumption DEF WireAssumption
<1>4. encoded = [i \in 1..Len(text) |-> Encoding[text[i]]] /\ Len(text) \in Nat
  BY <1>1
<1>5. encoded \in Seq(Seq(Byte))
  BY <1>3, <1>4
<1>6. Bytes(text) \in Seq(Byte)
  BY <1>5, FlattenType DEF Bytes
<1> QED
  BY <1>6

LEMMA SignsAreBytes ==
  /\ CR \in Byte /\ LF \in Byte /\ "*" \in Byte /\ "$" \in Byte /\ ":" \in Byte /\ "-" \in Byte
  /\ \A n \in 0..9 : Digits[n + 1] \in Byte
  /\ Digits[4] = "3" /\ "3" \in Byte /\ "1" \in Byte
<1>1. \A n \in 0..9 : Digits[n + 1] \in ToSet(Digits)
  BY DEF ToSet, Digits
<1>2. Digits[4] = "3" /\ Digits[2] = "1"
  BY DEF Digits
<1>3. Digits[3 + 1] \in ToSet(Digits) /\ Digits[1 + 1] \in ToSet(Digits)
  BY <1>1
<1>4. "3" \in ToSet(Digits) /\ "1" \in ToSet(Digits)
  BY <1>2, <1>3
<1>5. ToSet(Digits) \subseteq Byte
  BY DEF Byte
<1>6. \A n \in 0..9 : Digits[n + 1] \in Byte
  BY <1>1, <1>5, Zenon
<1>7. CR \in Byte /\ LF \in Byte /\ "*" \in Byte /\ "$" \in Byte /\ ":" \in Byte /\ "-" \in Byte
  BY Zenon DEF Byte
<1> QED
  BY <1>2, <1>4, <1>5, <1>6, <1>7, Zenon

(* A digit is a digit, no sign is, and it stands for its place.            *)
LEMMA DigitValue ==
  ASSUME NEW n \in 0..9
  PROVE  /\ IsDigit(Digits[n + 1])
         /\ Value(Digits[n + 1]) = n
         /\ ~IsDigit(CR)
<1>1. \A i, j \in 1..10 : Digits[i] = Digits[j] => i = j
  BY DEF Digits
<1>2. IsDigit(Digits[n + 1])
  BY DEF IsDigit, ToSet, Digits
<1>3. ~IsDigit(CR)
  BY DEF IsDigit, ToSet, Digits, CR
<1>4. n + 1 \in 1..10
  OBVIOUS
<1> DEFINE i == CHOOSE i \in 1..10 : Digits[i] = Digits[n + 1]
<1>5. i \in 1..10 /\ Digits[i] = Digits[n + 1]
  BY <1>4
<1>6. i = n + 1
  BY <1>1, <1>4, <1>5
<1>7. Value(Digits[n + 1]) = i - 1
  BY DEF Value
<1> HIDE DEF i
<1>8. Value(Digits[n + 1]) = n
  BY <1>6, <1>7
<1> QED
  BY <1>2, <1>3, <1>8, Zenon

LEMMA ThenType ==
  ASSUME NEW b \in Byte, NEW r \in Seq(Byte)
  PROVE  /\ Then(b, r) \in Seq(Byte)
         /\ Then(b, r) # <<>>
         /\ Head(Then(b, r)) = b
         /\ Tail(Then(b, r)) = r
BY DEF Then

LEMMA TwoThenRest ==
  ASSUME NEW S, NEW a \in S, NEW b \in S, NEW r \in Seq(S)
  PROVE  (<<a, b>> \o r) = (<<a>> \o (<<b>> \o r))
<1> DEFINE s == <<a, b>> \o r
           t == <<a>> \o (<<b>> \o r)
<1>1. s \in Seq(S) /\ Len(s) = 2 + Len(r) /\ Len(r) \in Nat
  OBVIOUS
<1>2. t \in Seq(S) /\ Len(t) = 2 + Len(r)
  OBVIOUS
<1>3. \A i \in 1..Len(s) : s[i] = IF i = 1 THEN a ELSE IF i = 2 THEN b ELSE r[i - 2]
  OBVIOUS
<1>4. \A i \in 1..Len(s) : t[i] = IF i = 1 THEN a ELSE IF i = 2 THEN b ELSE r[i - 2]
  OBVIOUS
<1> HIDE DEF s, t
<1> s = t
  BY <1>1, <1>2, <1>3, <1>4, SeqEqual
<1> QED
  BY DEF s, t

LEMMA EndThenType ==
  ASSUME NEW r \in Seq(Byte)
  PROVE  EndThen(r) \in Seq(Byte) /\ EndThen(r) = (<<CR, LF>> \o r)
<1>1. EndThen(r) \in Seq(Byte)
  BY ThenType, SignsAreBytes DEF EndThen
<1>2. (<<CR, LF>> \o r) = (<<CR>> \o (<<LF>> \o r))
  BY SignsAreBytes, TwoThenRest
<1> QED
  BY <1>1, <1>2 DEF EndThen, Then

(* Taking the first byte off what begins with a text.                      *)
LEMMA TakeByte ==
  ASSUME NEW u \in Seq(Byte), NEW r \in Seq(Byte), u # <<>>
  PROVE  /\ Head(u) \in Byte /\ Tail(u) \in Seq(Byte)
         /\ Len(Tail(u)) = Len(u) - 1 /\ Len(u) \in Nat \ {0}
         /\ Head(u \o r) = Head(u)
         /\ Tail(u \o r) = (Tail(u) \o r)
BY SMT

LEMMA MoveByte ==
  ASSUME NEW t \in Seq(Byte), NEW u \in Seq(Byte), u # <<>>
  PROVE  /\ Append(t, Head(u)) \in Seq(Byte)
         /\ (Append(t, Head(u)) \o Tail(u)) = (t \o u)
<1>1. Head(u) \in Byte /\ Tail(u) \in Seq(Byte)
  BY TakeByte
<1>2. Append(t, Head(u)) = (t \o <<Head(u)>>)
  BY <1>1
<1>3. (<<Head(u)>> \o Tail(u)) = u
  BY <1>1
<1>4. ((t \o <<Head(u)>>) \o Tail(u)) = (t \o (<<Head(u)>> \o Tail(u)))
  BY <1>1
<1> QED
  BY <1>1, <1>2, <1>3, <1>4

-----------------------------------------------------------------------------
(* The command, string by string.                                          *)

Texts == Messages \cup {Command, Channel}
Parts(m) == <<Command, Channel, m>>

(* The command from its i-th string on.                                    *)
From(m, i) ==
  CASE i = 1 -> BulkString(Command) \o (BulkString(Channel) \o BulkString(m))
    [] i = 2 -> BulkString(Channel) \o BulkString(m)
    [] i = 3 -> BulkString(m)
    [] i = 4 -> <<>>

LEMMA PartsAreTexts ==
  ASSUME NEW m \in Messages, NEW i \in 1..3
  PROVE  Parts(m)[i] \in Texts
BY DEF Parts, Texts

LEMMA EndOfLineType == EndOfLine \in Seq(Byte)
BY SignsAreBytes DEF EndOfLine

LEMMA DollarType == <<"$">> \in Seq(Byte)
BY SignsAreBytes

(* Reading the digits ds after num, the broker's number becomes n. *)
Reads(num, ds, n) ==
  \E v \in [0..Len(ds) -> Nat] :
    /\ v[0] = num /\ v[Len(ds)] = n
    /\ \A i \in 1..Len(ds) : IsDigit(ds[i]) /\ v[i] = v[i - 1] * 10 + Value(ds[i])

(* A number is read as what it was written for.                            *)
Numeral(n, f) ==
  f = [k \in 0..n |-> IF k < 10 THEN <<Digits[k + 1]>>
                      ELSE Append(f[k \div 10], Digits[(k % 10) + 1])]

LEMMA Division ==
  ASSUME NEW k \in Nat, k >= 10
  PROVE  /\ k \div 10 \in 0..k - 1
         /\ k % 10 \in 0..9
         /\ k = (k \div 10) * 10 + (k % 10)
OBVIOUS

LEMMA NumeralExists ==
  ASSUME NEW n \in Nat
  PROVE  \E f : Numeral(n, f)
<1> DEFINE Bad == {m \in Nat : ~\E f : Numeral(m, f)}
<1>1. ASSUME n \in Bad PROVE FALSE
  <2>1. PICK m \in Bad : \A k \in Bad : m <= k
    BY <1>1, LeastOf
  <2>2. m # 0
    <3>1. Numeral(0, [k \in 0..0 |-> <<Digits[k + 1]>>])
      BY DEF Numeral
    <3> QED
      BY <2>1, <3>1
  <2>3. m - 1 \in Nat /\ m - 1 \notin Bad
    BY <2>1, <2>2
  <2>4. PICK f : Numeral(m - 1, f)
    BY <2>3
  <2> DEFINE g == [k \in 0..m |-> IF k < 10 THEN <<Digits[k + 1]>>
                                  ELSE Append(f[k \div 10], Digits[(k % 10) + 1])]
  <2>5. ASSUME NEW k \in 0..m - 1 PROVE g[k] = f[k]
    <3>1. f[k] = IF k < 10 THEN <<Digits[k + 1]>> ELSE Append(f[k \div 10], Digits[(k % 10) + 1])
      BY <2>4, Zenon DEF Numeral
    <3>2. k \in 0..m
      BY <2>1
    <3> QED
      BY <3>1, <3>2, Zenon
  <2>6. \A k \in 0..m : ~(k < 10) => g[k \div 10] = f[k \div 10]
    <3>1. ASSUME NEW k \in 0..m, ~(k < 10) PROVE k \div 10 \in 0..m - 1
      <4>1. k \in Nat /\ k >= 10 /\ k <= m /\ m \in Nat
        BY <2>1, <3>1
      <4>2. k \div 10 \in 0..k - 1
        BY <4>1, Division
      <4> QED
        BY <4>1, <4>2
    <3> QED
      BY <2>5, <3>1, Zenon
  <2>7. Numeral(m, g)
    <3>1. \A k \in 0..m : (IF k < 10 THEN <<Digits[k + 1]>> ELSE Append(f[k \div 10], Digits[(k % 10) + 1]))
                         = (IF k < 10 THEN <<Digits[k + 1]>> ELSE Append(g[k \div 10], Digits[(k % 10) + 1]))
      BY <2>6, Zenon
    <3> QED
      BY <3>1, Zenon DEF Numeral
  <2> QED
    BY <2>1, <2>7
<1> QED
  BY <1>1

LEMMA NumberIs ==
  ASSUME NEW n \in Nat
  PROVE  \E f : Numeral(n, f) /\ Number(n) = f[n]
<1> DEFINE F == CHOOSE f : Numeral(n, f)
<1>1. Numeral(n, F)
  BY NumeralExists
<1>2. Number(n) = F[n]
  BY DEF Number, Numeral
<1> QED
  BY <1>1, <1>2

LEMMA DigitRead ==
  ASSUME NEW ds \in Seq(Byte), NEW a \in Nat, NEW n \in Nat, Reads(a, ds, n), NEW d \in 0..9
  PROVE  Append(ds, Digits[d + 1]) \in Seq(Byte) /\ Reads(a, Append(ds, Digits[d + 1]), n * 10 + d)
<1> DEFINE b == Digits[d + 1]
           es == Append(ds, b)
           c == n * 10 + d
<1>1. b \in Byte /\ IsDigit(b) /\ Value(b) = d
  BY SignsAreBytes, DigitValue
<1>2. c \in Nat
  OBVIOUS
<1> HIDE DEF b, c
<1>3. es \in Seq(Byte) /\ Len(es) = Len(ds) + 1 /\ Len(ds) \in Nat /\ es[Len(ds) + 1] = b
  BY <1>1
<1>4. \A i \in 1..Len(ds) : es[i] = ds[i]
  BY <1>1
<1>5. PICK v \in [0..Len(ds) -> Nat] :
        /\ v[0] = a /\ v[Len(ds)] = n
        /\ \A i \in 1..Len(ds) : IsDigit(ds[i]) /\ v[i] = v[i - 1] * 10 + Value(ds[i])
  BY Zenon DEF Reads
<1> DEFINE w == [i \in 0..Len(ds) + 1 |-> IF i \in 0..Len(ds) THEN v[i] ELSE c]
<1> HIDE DEF es
<1>6. w \in [0..Len(es) -> Nat]
  <2>1. \A i \in 0..Len(ds) + 1 : (IF i \in 0..Len(ds) THEN v[i] ELSE c) \in Nat
    BY <1>2
  <2> QED
    BY <1>3, <2>1
<1>7. w[0] = a /\ w[Len(es)] = c
  BY <1>3, <1>5
<1>8. ASSUME NEW i \in 1..Len(es)
      PROVE  IsDigit(es[i]) /\ w[i] = w[i - 1] * 10 + Value(es[i])
  <2>1. i \in 1..Len(ds) \/ i = Len(ds) + 1
    BY <1>3
  <2>2. CASE i \in 1..Len(ds)
    <3>1. i \in 0..Len(ds) /\ i - 1 \in 0..Len(ds) /\ i \in 0..Len(ds) + 1 /\ i - 1 \in 0..Len(ds) + 1
      BY <1>3, <2>2
    <3>2. w[i] = v[i] /\ w[i - 1] = v[i - 1]
      BY <3>1
    <3> HIDE DEF w
    <3> QED
      BY <1>4, <1>5, <2>2, <3>2, Zenon
  <2>3. CASE i = Len(ds) + 1
    <3>1. w[i] = c /\ w[i - 1] = n
      BY <1>3, <1>5, <2>3
    <3>2. es[i] = b
      BY <1>3, <2>3
    <3> HIDE DEF w
    <3> QED
      BY <1>1, <3>1, <3>2, Zenon DEF c
  <2> QED
    BY <2>1, <2>2, <2>3
<1>9. Reads(a, es, c)
  <2> HIDE DEF w
  <2> QED
    BY <1>6, <1>7, <1>8, Zenon DEF Reads
<1> QED
  BY <1>3, <1>9 DEF es, b, c

LEMMA NoDigitRead ==
  ASSUME NEW n \in Nat
  PROVE  Reads(n, <<>>, n)
<1> DEFINE v == [i \in 0..0 |-> n]
<1>1. v \in [0..0 -> Nat] /\ v[0] = n
  OBVIOUS
<1> HIDE DEF v
<1> QED
  BY <1>1 DEF Reads

(* A number is read as what it was written for.                            *)
LEMMA NumberRead ==
  ASSUME NEW n \in Nat
  PROVE  Number(n) \in Seq(Byte) /\ Reads(0, Number(n), n)
<1>1. PICK f : Numeral(n, f) /\ Number(n) = f[n]
  BY NumberIs
<1>2. \A k \in 0..n : f[k] = IF k < 10 THEN <<Digits[k + 1]>>
                               ELSE Append(f[k \div 10], Digits[(k % 10) + 1])
  BY <1>1, Zenon DEF Numeral
<1> DEFINE Good(k) == f[k] \in Seq(Byte) /\ Reads(0, f[k], k)
           Bad == {k \in 0..n : ~Good(k)}
<1>3. ASSUME n \in Bad PROVE FALSE
  <2>1. PICK m \in Bad : \A k \in Bad : m <= k
    <3>1. Bad \in SUBSET Nat /\ Bad # {}
      BY <1>3
    <3> HIDE DEF Bad
    <3> QED
      BY <3>1, LeastOf, Zenon
  <2>2. m \in 0..n /\ ~Good(m) /\ m \in Nat
    BY <2>1
  <2>3. CASE m < 10
    <3>1. m \in 0..9
      BY <2>2, <2>3
    <3>2. Reads(0, <<>>, 0) /\ <<>> \in Seq(Byte)
      BY NoDigitRead
    <3>3. Append(<<>>, Digits[m + 1]) \in Seq(Byte) /\ Reads(0, Append(<<>>, Digits[m + 1]), 0 * 10 + m)
      BY <3>1, <3>2, DigitRead
    <3>4. Append(<<>>, Digits[m + 1]) = <<Digits[m + 1]>> /\ 0 * 10 + m = m
      BY <2>2
    <3>5. f[m] = <<Digits[m + 1]>>
      BY <1>2, <2>2, <2>3, Zenon
    <3> QED
      BY <2>2, <3>3, <3>4, <3>5
  <2>4. CASE ~(m < 10)
    <3> DEFINE k == m \div 10
               d == m % 10
    <3>1. k \in 0..m - 1 /\ d \in 0..9 /\ m = k * 10 + d
      BY <2>2, <2>4, Division
    <3>2. f[m] = Append(f[k], Digits[d + 1])
      BY <1>2, <2>2, <2>4, Zenon
    <3> HIDE DEF k, d
    <3>3. k \in 0..n /\ k \in Nat /\ k < m
      BY <2>2, <3>1
    <3>4. k \notin Bad
      BY <2>1, <2>2, <3>3
    <3>5. Good(k)
      BY <3>3, <3>4
    <3>6. Append(f[k], Digits[d + 1]) \in Seq(Byte)
          /\ Reads(0, Append(f[k], Digits[d + 1]), k * 10 + d)
      BY <3>1, <3>3, <3>5, DigitRead
    <3> QED
      BY <2>2, <3>1, <3>2, <3>6, Zenon
  <2> QED
    BY <2>3, <2>4
<1>4. n \in 0..n
  OBVIOUS
<1> QED
  BY <1>1, <1>3, <1>4, Zenon

LEMMA NumberType ==
  ASSUME NEW n \in Nat
  PROVE  Number(n) \in Seq(Byte)
BY NumberRead

LEMMA FiveAndRest ==
  ASSUME NEW S, NEW a \in Seq(S), NEW b \in Seq(S), NEW c \in Seq(S), NEW d \in Seq(S),
         NEW e \in Seq(S), NEW r \in Seq(S)
  PROVE  Cat(Cat(Cat(Cat(Cat(a, b), c), d), e), r) = Cat(a, Cat(b, Cat(c, Cat(d, Cat(e, r)))))
<1>1. Cat(a, b) \in Seq(S) /\ Cat(Cat(a, b), c) \in Seq(S) /\ Cat(Cat(Cat(a, b), c), d) \in Seq(S)
  BY CatProperties
<1>2. Cat(e, r) \in Seq(S) /\ Cat(d, Cat(e, r)) \in Seq(S) /\ Cat(c, Cat(d, Cat(e, r))) \in Seq(S)
  BY CatProperties
<1>3. Cat(Cat(Cat(Cat(Cat(a, b), c), d), e), r) = Cat(Cat(Cat(Cat(a, b), c), d), Cat(e, r))
  BY <1>1, CatProperties
<1>4. Cat(Cat(Cat(Cat(a, b), c), d), Cat(e, r)) = Cat(Cat(Cat(a, b), c), Cat(d, Cat(e, r)))
  BY <1>1, <1>2, CatProperties
<1>5. Cat(Cat(Cat(a, b), c), Cat(d, Cat(e, r))) = Cat(Cat(a, b), Cat(c, Cat(d, Cat(e, r))))
  BY <1>1, <1>2, CatProperties
<1>6. Cat(Cat(a, b), Cat(c, Cat(d, Cat(e, r)))) = Cat(a, Cat(b, Cat(c, Cat(d, Cat(e, r)))))
  BY <1>1, <1>2, CatProperties
<1> QED
  BY <1>3, <1>4, <1>5, <1>6, Zenon

LEMMA BulkStringType ==
  ASSUME NEW text \in Texts
  PROVE  BulkString(text) \in Seq(Byte)
<1>1. Bytes(text) \in Seq(Byte) /\ Length(text) \in Nat
  BY BytesType DEF Texts, Length
<1>2. Number(Length(text)) \in Seq(Byte) /\ EndOfLine \in Seq(Byte) /\ <<"$">> \in Seq(Byte)
  BY <1>1, NumberType, EndOfLineType, DollarType
<1> QED
  BY <1>1, <1>2 DEF BulkString

(* A string and what follows it, byte by byte up to its text.              *)
LEMMA BulkStringThen ==
  ASSUME NEW text \in Texts, NEW r \in Seq(Byte)
  PROVE  (BulkString(text) \o r)
           = Then("$", Cat(Number(Len(Bytes(text))), EndThen(Bytes(text) \o EndThen(r))))
<1>1. Bytes(text) \in Seq(Byte) /\ Length(text) \in Nat
  BY BytesType DEF Texts, Length
<1>2. Number(Length(text)) \in Seq(Byte) /\ EndOfLine \in Seq(Byte) /\ <<"$">> \in Seq(Byte)
  BY <1>1, NumberType, EndOfLineType, DollarType
<1>3. (BulkString(text) \o r)
        = (<<"$">> \o (Number(Length(text)) \o (EndOfLine \o (Bytes(text) \o (EndOfLine \o r)))))
  <2> DEFINE q == <<"$">>
             n == Number(Length(text))
             t == Bytes(text)
  <2>1. BulkString(text) = Cat(Cat(Cat(Cat(q, n), EndOfLine), t), EndOfLine)
    BY Zenon DEF BulkString, Cat
  <2>2. q \in Seq(Byte) /\ n \in Seq(Byte) /\ t \in Seq(Byte) /\ EndOfLine \in Seq(Byte)
    BY <1>1, <1>2, Zenon
  <2> HIDE DEF q, n, t
  <2>3. Cat(Cat(Cat(Cat(Cat(q, n), EndOfLine), t), EndOfLine), r)
          = Cat(q, Cat(n, Cat(EndOfLine, Cat(t, Cat(EndOfLine, r)))))
    BY <2>2, FiveAndRest
  <2>4. Cat(BulkString(text), r) = Cat(q, Cat(n, Cat(EndOfLine, Cat(t, Cat(EndOfLine, r)))))
    BY <2>1, <2>3, Zenon
  <2> QED
    BY <2>4, Zenon DEF Cat, q, n, t
<1>4. (EndOfLine \o r) = EndThen(r)
  BY EndThenType, Zenon DEF EndOfLine
<1>5. (Bytes(text) \o EndThen(r)) \in Seq(Byte)
  BY <1>1, EndThenType
<1>6. (EndOfLine \o (Bytes(text) \o EndThen(r))) = EndThen(Bytes(text) \o EndThen(r))
  BY <1>5, EndThenType, Zenon DEF EndOfLine
<1> QED
  BY <1>3, <1>4, <1>6, Zenon DEF Then, Length, Cat

LEMMA FromType ==
  ASSUME NEW m \in Messages, NEW i \in 1..4
  PROVE  From(m, i) \in Seq(Byte)
<1>1. BulkString(Command) \in Seq(Byte) /\ BulkString(Channel) \in Seq(Byte)
      /\ BulkString(m) \in Seq(Byte)
  BY BulkStringType DEF Texts
<1>2. (BulkString(Channel) \o BulkString(m)) \in Seq(Byte)
  BY <1>1
<1>3. (BulkString(Command) \o (BulkString(Channel) \o BulkString(m))) \in Seq(Byte)
  BY <1>1, <1>2
<1> QED
  BY <1>1, <1>2, <1>3 DEF From

LEMMA FromNext ==
  ASSUME NEW m \in Messages, NEW i \in 1..3
  PROVE  From(m, i) = (BulkString(Parts(m)[i]) \o From(m, i + 1))
<1>1. BulkString(m) \in Seq(Byte)
  BY BulkStringType DEF Texts
<1>2. (BulkString(m) \o <<>>) = BulkString(m)
  BY <1>1
<1>3. CASE i = 1
  <2>1. Parts(m)[i] = Command /\ i + 1 = 2
    BY <1>3 DEF Parts
  <2>2. From(m, 1) = (BulkString(Command) \o From(m, 2))
    BY DEF From
  <2> QED
    BY <1>3, <2>1, <2>2, Zenon
<1>4. CASE i = 2
  <2>1. Parts(m)[i] = Channel /\ i + 1 = 3
    BY <1>4 DEF Parts
  <2>2. From(m, 2) = (BulkString(Channel) \o From(m, 3))
    BY DEF From
  <2> QED
    BY <1>4, <2>1, <2>2, Zenon
<1>5. CASE i = 3
  <2>1. Parts(m)[i] = m /\ i + 1 = 4 /\ From(m, 3) = BulkString(m) /\ From(m, 4) = <<>>
    BY <1>5 DEF Parts, From
  <2> QED
    BY <1>2, <1>5, <2>1, Zenon
<1> QED
  BY <1>3, <1>4, <1>5

(* The whole command: its three strings are announced, then they follow.   *)
LEMMA CommandIs ==
  ASSUME NEW m \in Messages
  PROVE  respArray(Parts(m)) = Then("*", Then("3", EndThen(From(m, 1))))
<1> DEFINE a == BulkString(Command)
           b == BulkString(Channel)
           c == BulkString(m)
           strings == [i \in DOMAIN Parts(m) |-> BulkString(Parts(m)[i])]
<1>1. a \in Seq(Byte) /\ b \in Seq(Byte) /\ c \in Seq(Byte)
  BY BulkStringType DEF Texts
<1>2. strings = <<a, b, c>> /\ Len(Parts(m)) = 3
  BY DEF Parts
<1>3. FlattenSeq(strings) = Cat(a, Cat(b, c))
  <2> HIDE DEF a, b, c, strings
  <2>1. FlattenSeq(<<a, b, c>>) = Cat(Cat(a, b), c)
    BY <1>1, FlattenThree
  <2>2. Cat(Cat(a, b), c) = Cat(a, Cat(b, c))
    BY <1>1, CatProperties
  <2> QED
    BY <1>2, <2>1, <2>2, Zenon
<1>4. From(m, 1) = Cat(a, Cat(b, c))
  BY DEF From, Cat
<1>5. Number(3) = <<"3">>
  <2>1. PICK f : Numeral(3, f) /\ Number(3) = f[3]
    BY NumberIs
  <2> QED
    BY <2>1 DEF Numeral, Digits
<1> DEFINE star == <<"*">>
           three == <<"3">>
           r == From(m, 1)
<1>6. star \in Seq(Byte) /\ three \in Seq(Byte) /\ EndOfLine \in Seq(Byte) /\ r \in Seq(Byte)
  BY SignsAreBytes, EndOfLineType, FromType
<1>7. respArray(Parts(m)) = Cat(Cat(Cat(star, three), EndOfLine), r)
  BY <1>2, <1>3, <1>4, <1>5, Zenon DEF respArray, Cat
<1>8. Cat(Cat(Cat(star, three), EndOfLine), r) = Cat(star, Cat(three, Cat(EndOfLine, r)))
  <2> HIDE DEF star, three, r
  <2>1. Cat(star, three) \in Seq(Byte) /\ Cat(EndOfLine, r) \in Seq(Byte)
    BY <1>6, CatProperties
  <2>2. Cat(Cat(Cat(star, three), EndOfLine), r) = Cat(Cat(star, three), Cat(EndOfLine, r))
    BY <1>6, <2>1, CatProperties
  <2>3. Cat(Cat(star, three), Cat(EndOfLine, r)) = Cat(star, Cat(three, Cat(EndOfLine, r)))
    BY <1>6, <2>1, CatProperties
  <2> QED
    BY <2>2, <2>3, Zenon
<1>9. (EndOfLine \o r) = EndThen(r)
  BY <1>6, EndThenType, Zenon DEF EndOfLine
<1> QED
  BY <1>7, <1>8, <1>9, Zenon DEF Then, Cat

-----------------------------------------------------------------------------
(* The broker's reader.                                                    *)

Reader(mode, num, left, text, parts) ==
  [mode |-> mode, num |-> num, left |-> left, text |-> text, parts |-> parts]

(* What the reader has when the first i - 1 strings are complete.          *)
Complete(m, i) == [j \in 1..i - 1 |-> Bytes(Parts(m)[j])]
Text(m, i) == Bytes(Parts(m)[i])
TextThen(m, i) == Text(m, i) \o EndThen(From(m, i + 1))

(* A reader in p needs exactly the bytes r to have read the command: in    *)
(* front of the strings, in the i-th string, and at the end.               *)
InHeader(p, r, m) ==
  \/ p = Reader("*", 0, 0, <<>>, <<>>) /\ r = Then("*", Then("3", EndThen(From(m, 1))))
  \/ p = Reader("count", 0, 0, <<>>, <<>>) /\ r = Then("3", EndThen(From(m, 1)))
  \/ p = Reader("count", 3, 0, <<>>, <<>>) /\ r = EndThen(From(m, 1))
  \/ p = Reader("countEnd", 3, 0, <<>>, <<>>) /\ r = Then(LF, From(m, 1))

InLength(p, r, m, i) ==
  LET At(mode, num) == p = Reader(mode, num, 4 - i, <<>>, Complete(m, i))
      n == Len(Text(m, i))
  IN  \/ At("$", 0) /\ r = From(m, i)
      \/ \E ds \in Seq(Byte), num \in Nat :
            /\ Reads(num, ds, n)
            /\ At("length", num)
            /\ r = Cat(ds, EndThen(TextThen(m, i)))
      \/ At("lengthEnd", n) /\ r = Then(LF, TextThen(m, i))

InText(p, r, m, i) ==
  \/ \E text, u \in Seq(Byte) :
       /\ Cat(text, u) = Text(m, i)
       /\ p = Reader("text", Len(u) + 2, 4 - i, text, Complete(m, i))
       /\ r = (u \o EndThen(From(m, i + 1)))
  \/ p = Reader("text", 1, 4 - i, Text(m, i), Complete(m, i)) /\ r = Then(LF, From(m, i + 1))

AtEnd(p, r, m) == p = Reader("executed", 0, 0, <<>>, Complete(m, 4)) /\ r = <<>>

Expects(p, r, m) ==
  \/ InHeader(p, r, m)
  \/ \E i \in 1..3 : InLength(p, r, m, i) \/ InText(p, r, m, i)
  \/ AtEnd(p, r, m)

LEMMA TextType ==
  ASSUME NEW m \in Messages, NEW i \in 1..3
  PROVE  /\ Text(m, i) \in Seq(Byte)
         /\ Len(Text(m, i)) \in Nat
         /\ TextThen(m, i) \in Seq(Byte)
         /\ From(m, i) = Then("$", Cat(Number(Len(Text(m, i))), EndThen(TextThen(m, i))))
<1>1. Text(m, i) \in Seq(Byte) /\ Len(Text(m, i)) \in Nat
  BY PartsAreTexts, BytesType, Zenon DEF Texts, Text
<1>2. From(m, i + 1) \in Seq(Byte)
  <2>1. i + 1 \in 1..4
    OBVIOUS
  <2> QED
    BY <2>1, FromType
<1>3. EndThen(From(m, i + 1)) \in Seq(Byte)
  BY <1>2, EndThenType
<1>4. TextThen(m, i) \in Seq(Byte)
  BY <1>1, <1>3 DEF TextThen
<1>5. From(m, i) = Then("$", Cat(Number(Len(Text(m, i))), EndThen(TextThen(m, i))))
  <2>1. Parts(m)[i] \in Texts
    BY PartsAreTexts
  <2> QED
    BY <1>2, <2>1, FromNext, BulkStringThen, Zenon DEF Text, TextThen
<1> QED
  BY <1>1, <1>4, <1>5, Zenon

LEMMA CompleteNext ==
  ASSUME NEW m \in Messages, NEW i \in 1..3
  PROVE  /\ Complete(m, i) \in Seq(Seq(Byte))
         /\ Append(Complete(m, i), Text(m, i)) = Complete(m, i + 1)
<1>1. \A j \in 1..3 : Bytes(Parts(m)[j]) \in Seq(Byte)
  BY TextType DEF Text
<1>2. Complete(m, i) \in Seq(Seq(Byte)) /\ Len(Complete(m, i)) = i - 1
  BY <1>1 DEF Complete
<1>3. Complete(m, i + 1) \in Seq(Seq(Byte)) /\ Len(Complete(m, i + 1)) = i
  BY <1>1 DEF Complete
<1>4. Append(Complete(m, i), Text(m, i)) = Complete(m, i + 1)
  <2> DEFINE s == Append(Complete(m, i), Text(m, i))
             t == Complete(m, i + 1)
  <2>1. s \in Seq(Seq(Byte)) /\ Len(s) = i
    BY <1>2, TextType
  <2>2. \A j \in 1..i : s[j] = Bytes(Parts(m)[j])
    <3>1. \A j \in 1..i - 1 : Complete(m, i)[j] = Bytes(Parts(m)[j])
      BY DEF Complete
    <3>2. s[i] = Text(m, i)
      BY <1>2, TextType
    <3>3. \A j \in 1..i - 1 : s[j] = Complete(m, i)[j]
      BY <1>2, TextType
    <3>4. ASSUME NEW j \in 1..i PROVE s[j] = Bytes(Parts(m)[j])
      <4>1. j \in 1..i - 1 \/ j = i
        OBVIOUS
      <4>2. CASE j \in 1..i - 1
        BY <3>1, <3>3, <4>2, Zenon
      <4>3. CASE j = i
        BY <3>2, <4>3, Zenon DEF Text
      <4> QED
        BY <4>1, <4>2, <4>3
    <3> QED
      BY <3>4, Zenon
  <2>3. \A j \in 1..i : t[j] = Bytes(Parts(m)[j])
    BY DEF Complete
  <2> HIDE DEF s, t
  <2>4. s = t
    BY <1>3, <2>1, <2>2, <2>3, SeqEqual DEF t
  <2> QED
    BY <2>4 DEF s, t
<1> QED
  BY <1>2, <1>4

(* One byte further, in each of the three places.                          *)
LEMMA HeaderStep ==
  ASSUME NEW m \in Messages, NEW p, NEW r, InHeader(p, r, m)
  PROVE  r \in Seq(Byte) /\ r # <<>> /\ Expects(Parse(p, Head(r)), Tail(r), m)
<1> DEFINE f == From(m, 1)
           q == Parse(p, Head(r))
<1>1. f \in Seq(Byte) /\ EndThen(f) \in Seq(Byte) /\ Then(LF, f) \in Seq(Byte)
  BY FromType, EndThenType, ThenType, SignsAreBytes
<1>2. Then("3", EndThen(f)) \in Seq(Byte)
  BY <1>1, ThenType, SignsAreBytes
<1>3. IsDigit("3") /\ Value("3") = 3 /\ ~IsDigit(CR)
  <2>1. Digits[3 + 1] = "3" /\ 3 \in 0..9
    BY DEF Digits
  <2> QED
    BY <2>1, DigitValue, Zenon
<1> HIDE DEF f
<1>4. CASE p = Reader("*", 0, 0, <<>>, <<>>) /\ r = Then("*", Then("3", EndThen(f)))
  <2>1. r \in Seq(Byte) /\ r # <<>> /\ Head(r) = "*" /\ Tail(r) = Then("3", EndThen(f))
    BY <1>2, <1>4, ThenType, SignsAreBytes
  <2>2. q = Reader("count", 0, 0, <<>>, <<>>)
    BY <1>4, <2>1 DEF Parse, Reader
  <2> QED
    BY <2>1, <2>2, Zenon DEF Expects, InHeader, f
<1>5. CASE p = Reader("count", 0, 0, <<>>, <<>>) /\ r = Then("3", EndThen(f))
  <2>1. r \in Seq(Byte) /\ r # <<>> /\ Head(r) = "3" /\ Tail(r) = EndThen(f)
    BY <1>1, <1>5, ThenType, SignsAreBytes
  <2>2. q = Reader("count", 3, 0, <<>>, <<>>)
    BY <1>3, <1>5, <2>1 DEF Parse, Reader
  <2> QED
    BY <2>1, <2>2, Zenon DEF Expects, InHeader, f
<1>6. CASE p = Reader("count", 3, 0, <<>>, <<>>) /\ r = EndThen(f)
  <2>1. r \in Seq(Byte) /\ r # <<>> /\ Head(r) = CR /\ Tail(r) = Then(LF, f)
    BY <1>1, <1>6, ThenType, SignsAreBytes DEF EndThen
  <2>2. q = Reader("countEnd", 3, 0, <<>>, <<>>)
    BY <1>3, <1>6, <2>1 DEF Parse, Reader
  <2> QED
    BY <2>1, <2>2, Zenon DEF Expects, InHeader, f
<1>7. CASE p = Reader("countEnd", 3, 0, <<>>, <<>>) /\ r = Then(LF, f)
  <2>1. r \in Seq(Byte) /\ r # <<>> /\ Head(r) = LF /\ Tail(r) = f
    BY <1>1, <1>7, ThenType, SignsAreBytes
  <2>2. q = Reader("$", 0, 3, <<>>, <<>>)
    BY <1>7, <2>1 DEF Parse, Reader
  <2>3. Complete(m, 1) = <<>> /\ 4 - 1 = 3 /\ 1 \in 1..3
    BY DEF Complete
  <2>4. InLength(q, Tail(r), m, 1)
    BY <2>1, <2>2, <2>3, Zenon DEF InLength, f
  <2> QED
    BY <2>1, <2>3, <2>4, Zenon DEF Expects
<1> QED
  BY <1>4, <1>5, <1>6, <1>7, Zenon DEF InHeader, f

LEMMA DigitTaken ==
  ASSUME NEW ds \in Seq(Byte), ds # <<>>, NEW a \in Nat, NEW n \in Nat, Reads(a, ds, n)
  PROVE  /\ IsDigit(Head(ds)) /\ Tail(ds) \in Seq(Byte)
         /\ a * 10 + Value(Head(ds)) \in Nat
         /\ Reads(a * 10 + Value(Head(ds)), Tail(ds), n)
<1>1. Len(ds) \in Nat \ {0} /\ Tail(ds) \in Seq(Byte) /\ Len(Tail(ds)) = Len(ds) - 1 /\ Head(ds) = ds[1]
  OBVIOUS
<1>2. \A i \in 1..Len(ds) - 1 : Tail(ds)[i] = ds[i + 1]
  OBVIOUS
<1>3. PICK v \in [0..Len(ds) -> Nat] :
        /\ v[0] = a /\ v[Len(ds)] = n
        /\ \A i \in 1..Len(ds) : IsDigit(ds[i]) /\ v[i] = v[i - 1] * 10 + Value(ds[i])
  BY Zenon DEF Reads
<1> DEFINE es == Tail(ds)
           w == [i \in 0..Len(ds) - 1 |-> v[i + 1]]
<1>4. IsDigit(Head(ds)) /\ v[1] = a * 10 + Value(Head(ds)) /\ v[1] \in Nat
  <2>1. 1 \in 1..Len(ds) /\ 1 \in 0..Len(ds) /\ 1 - 1 = 0
    BY <1>1
  <2> QED
    BY <1>1, <1>3, <2>1
<1> HIDE DEF es
<1>5. w \in [0..Len(es) -> Nat]
  <2>1. \A i \in 0..Len(ds) - 1 : i + 1 \in 0..Len(ds)
    BY <1>1
  <2> QED
    BY <1>1, <2>1 DEF es
<1>6. w[0] = v[1] /\ w[Len(es)] = n
  BY <1>1, <1>3 DEF es
<1>7. ASSUME NEW i \in 1..Len(es)
      PROVE  IsDigit(es[i]) /\ w[i] = w[i - 1] * 10 + Value(es[i])
  <2> DEFINE j == i + 1
  <2>1. i \in 1..Len(ds) - 1 /\ j \in 1..Len(ds) /\ j - 1 = i /\ i \in 0..Len(ds) - 1
        /\ i - 1 \in 0..Len(ds) - 1 /\ (i - 1) + 1 = i
    BY <1>1 DEF es
  <2>2. w[i] = v[j] /\ w[i - 1] = v[i] /\ es[i] = ds[j]
    BY <1>2, <2>1 DEF es
  <2>3. IsDigit(ds[j]) /\ v[j] = v[j - 1] * 10 + Value(ds[j])
    BY <1>3, <2>1, Zenon
  <2> HIDE DEF j, w
  <2> QED
    BY <2>1, <2>2, <2>3, Zenon
<1>8. Reads(v[1], es, n)
  <2> HIDE DEF w
  <2> QED
    BY <1>5, <1>6, <1>7, Zenon DEF Reads
<1> QED
  BY <1>1, <1>4, <1>8, Zenon DEF es

LEMMA AllRead ==
  ASSUME NEW a, NEW n, Reads(a, <<>>, n)
  PROVE  a = n
BY DEF Reads

LEMMA LengthStep ==
  ASSUME NEW m \in Messages, NEW i \in 1..3, NEW p, NEW r, InLength(p, r, m, i)
  PROVE  r \in Seq(Byte) /\ r # <<>> /\ Expects(Parse(p, Head(r)), Tail(r), m)
<1> DEFINE n == Len(Text(m, i))
           t == TextThen(m, i)
           c == Complete(m, i)
           q == Parse(p, Head(r))
           At(mode, num) == p = Reader(mode, num, 4 - i, <<>>, c)
<1>1. n \in Nat /\ t \in Seq(Byte) /\ EndThen(t) \in Seq(Byte) /\ Then(LF, t) \in Seq(Byte)
  BY TextType, EndThenType, ThenType, SignsAreBytes
<1>2. ~IsDigit(CR)
  BY DigitValue
<1> HIDE DEF t, c, n
<1>3. CASE At("$", 0) /\ r = From(m, i)
  <2> DEFINE ds == Number(n)
  <2>1. ds \in Seq(Byte) /\ Reads(0, ds, n)
    BY <1>1, NumberRead
  <2>2. Cat(ds, EndThen(t)) \in Seq(Byte)
    BY <1>1, <2>1, CatProperties
  <2>3. r = Then("$", Cat(ds, EndThen(t)))
    BY <1>3, TextType, Zenon DEF n, t
  <2> HIDE DEF ds
  <2>4. r \in Seq(Byte) /\ r # <<>> /\ Head(r) = "$" /\ Tail(r) = Cat(ds, EndThen(t))
    BY <2>2, <2>3, ThenType, SignsAreBytes
  <2>5. q = Reader("length", 0, 4 - i, <<>>, c)
    BY <1>3, <2>4 DEF Parse, Reader
  <2>6. InLength(q, Tail(r), m, i)
    BY <1>1, <2>1, <2>4, <2>5 DEF InLength, n, t, c
  <2> QED
    BY <2>4, <2>6, Zenon DEF Expects
<1>4. ASSUME NEW ds \in Seq(Byte), NEW num \in Nat, Reads(num, ds, n), At("length", num),
             r = Cat(ds, EndThen(t))
      PROVE  r \in Seq(Byte) /\ r # <<>> /\ Expects(q, Tail(r), m)
  <2>1. r \in Seq(Byte)
    BY <1>1, <1>4, CatProperties
  <2>2. CASE ds = <<>>
    <3>1. num = n
      BY <1>4, <2>2, AllRead
    <3>2. r = EndThen(t)
      BY <1>1, <1>4, <2>2 DEF Cat
    <3>3. r # <<>> /\ Head(r) = CR /\ Tail(r) = Then(LF, t)
      BY <1>1, <3>2, ThenType, SignsAreBytes DEF EndThen
    <3>4. q = Reader("lengthEnd", n, 4 - i, <<>>, c)
      BY <1>2, <1>4, <3>1, <3>3 DEF Parse, Reader
    <3>5. InLength(q, Tail(r), m, i)
      BY <3>3, <3>4, Zenon DEF InLength, n, t, c
    <3> QED
      BY <2>1, <3>3, <3>5, Zenon DEF Expects
  <2>3. CASE ds # <<>>
    <3> DEFINE b == Head(ds)
               a == num * 10 + Value(b)
    <3>1. IsDigit(b) /\ Tail(ds) \in Seq(Byte) /\ a \in Nat /\ Reads(a, Tail(ds), n)
      BY <1>1, <1>4, <2>3, DigitTaken, Zenon
    <3>2. r # <<>> /\ Head(r) = b /\ Tail(r) = Cat(Tail(ds), EndThen(t))
      <4> DEFINE e == EndThen(t)
      <4> HIDE DEF e
      <4>1. e \in Seq(Byte) /\ r = (ds \o e)
        BY <1>1, <1>4, Zenon DEF e, Cat
      <4>2. r # <<>>
        BY <2>3, <4>1
      <4>3. Head(r) = b /\ Tail(r) = (Tail(ds) \o e)
        BY <2>3, <4>1, TakeByte
      <4> QED
        BY <4>2, <4>3, Zenon DEF e, Cat
    <3>3. b # CR
      BY <1>2, <3>1
    <3>4. q = Reader("length", a, 4 - i, <<>>, c)
      <4> HIDE DEF b
      <4> QED
        BY <1>4, <3>1, <3>2, <3>3 DEF Parse, Reader
    <3> HIDE DEF a, b
    <3>5. InLength(q, Tail(r), m, i)
      BY <3>1, <3>2, <3>4, Zenon DEF InLength, n, t, c
    <3> QED
      BY <2>1, <3>2, <3>5, Zenon DEF Expects
  <2> QED
    BY <2>2, <2>3
<1>5. CASE At("lengthEnd", n) /\ r = Then(LF, t)
  <2>1. r \in Seq(Byte) /\ r # <<>> /\ Head(r) = LF /\ Tail(r) = t
    BY <1>1, <1>5, ThenType, SignsAreBytes
  <2>2. q = Reader("text", n + 2, 4 - i, <<>>, c)
    BY <1>5, <2>1 DEF Parse, Reader
  <2>3. Text(m, i) \in Seq(Byte) /\ <<>> \in Seq(Byte)
    BY TextType
  <2>4. Cat(<<>>, Text(m, i)) = Text(m, i)
    BY <2>3 DEF Cat
  <2>5. InText(q, Tail(r), m, i)
    BY <2>1, <2>2, <2>3, <2>4, Zenon DEF InText, TextThen, n, t, c
  <2> QED
    BY <2>1, <2>5, Zenon DEF Expects
<1> QED
  BY <1>3, <1>4, <1>5, Zenon DEF InLength, n, t, c

LEMMA TextStep ==
  ASSUME NEW m \in Messages, NEW i \in 1..3, NEW p, NEW r, InText(p, r, m, i)
  PROVE  r \in Seq(Byte) /\ r # <<>> /\ Expects(Parse(p, Head(r)), Tail(r), m)
<1> DEFINE f == From(m, i + 1)
           e == EndThen(f)
           c == Complete(m, i)
           t == Text(m, i)
           q == Parse(p, Head(r))
<1>1. f \in Seq(Byte) /\ e \in Seq(Byte) /\ Then(LF, f) \in Seq(Byte) /\ t \in Seq(Byte)
  <2>1. i + 1 \in 1..4
    OBVIOUS
  <2> QED
    BY <2>1, FromType, TextType, EndThenType, ThenType, SignsAreBytes
<1> HIDE DEF f, c, t
<1>2. ASSUME NEW text \in Seq(Byte), NEW u \in Seq(Byte), Cat(text, u) = t,
             p = Reader("text", Len(u) + 2, 4 - i, text, c), r = (u \o e)
      PROVE  r \in Seq(Byte) /\ r # <<>> /\ Expects(q, Tail(r), m)
  <2>1. r \in Seq(Byte)
    BY <1>1, <1>2
  <2>2. CASE u = <<>>
    <3>1. text = t
      BY <1>2, <2>2 DEF Cat
    <3>2. r = e
      BY <1>1, <1>2, <2>2
    <3>3. r # <<>> /\ Head(r) = CR /\ Tail(r) = Then(LF, f)
      BY <1>1, <3>2, ThenType, SignsAreBytes DEF EndThen
    <3>4. p = Reader("text", 2, 4 - i, t, c)
      BY <1>2, <2>2, <3>1
    <3>5. q = Reader("text", 1, 4 - i, t, c)
      BY <3>4 DEF Parse, Reader
    <3>6. InText(q, Tail(r), m, i)
      BY <3>3, <3>5, Zenon DEF InText, f, t, c
    <3> QED
      BY <2>1, <3>3, <3>6, Zenon DEF Expects
  <2>3. CASE u # <<>>
    <3> DEFINE v == Tail(u)
               s == Append(text, Head(u))
    <3> HIDE DEF e
    <3>1. v \in Seq(Byte) /\ Len(v) = Len(u) - 1 /\ Len(u) \in Nat \ {0}
          /\ Head(r) = Head(u) /\ Tail(r) = (v \o e)
      BY <1>1, <1>2, <2>3, TakeByte
    <3>2. s \in Seq(Byte) /\ Cat(s, v) = t
      BY <1>2, <2>3, MoveByte, Zenon DEF Cat
    <3>3. r # <<>>
      BY <1>1, <1>2, <2>3
    <3>4. q = Reader("text", Len(v) + 2, 4 - i, s, c)
      <4> DEFINE b == Head(r)
                 k == Len(u) + 2
      <4>1. k \in Nat /\ k > 2 /\ k - 1 = Len(v) + 2
        BY <3>1
      <4>2. p = Reader("text", k, 4 - i, text, c) /\ s = Append(text, b)
        BY <1>2, <3>1
      <4> HIDE DEF b, k, s
      <4>3. Parse(p, b) = Reader("text", k - 1, 4 - i, Append(text, b), c)
        <5>1. p.mode = "text" /\ p.num = k /\ p.text = text
          BY <4>2 DEF Reader
        <5>2. Parse(p, b) = [p EXCEPT !.text = Append(p.text, b), !.num = p.num - 1]
          BY <4>1, <5>1 DEF Parse
        <5> DEFINE a == Append(text, b)
                   l == k - 1
                   o == 4 - i
        <5>3. p = Reader("text", k, o, text, c)
          BY <4>2
        <5> HIDE DEF a, l, o
        <5>4. PICK p1 : p1 = [p EXCEPT !.text = a]
          OBVIOUS
        <5>5. p1 = Reader("text", k, o, a, c)
          BY <5>3, <5>4 DEF Reader
        <5>6. [p1 EXCEPT !.num = l] = Reader("text", l, o, a, c)
          BY <5>5 DEF Reader
        <5>7. Parse(p, b) = Reader("text", l, o, a, c)
          BY <5>1, <5>2, <5>4, <5>6, Zenon DEF a, l
        <5> QED
          BY <5>7, Zenon DEF a, l, o
      <4> QED
        BY <4>1, <4>2, <4>3, Zenon DEF b
    <3> HIDE DEF v, s
    <3>5. InText(q, Tail(r), m, i)
      BY <3>1, <3>2, <3>4, Zenon DEF InText, e, f, t, c
    <3> QED
      BY <2>1, <3>3, <3>5, Zenon DEF Expects
  <2> QED
    BY <2>2, <2>3
<1>3. CASE p = Reader("text", 1, 4 - i, t, c) /\ r = Then(LF, f)
  <2>1. r \in Seq(Byte) /\ r # <<>> /\ Head(r) = LF /\ Tail(r) = f
    BY <1>1, <1>3, ThenType, SignsAreBytes
  <2>2. Append(c, t) = Complete(m, i + 1)
    BY CompleteNext DEF c, t
  <2>3. q = Reader(IF 4 - i = 1 THEN "executed" ELSE "$", 0, (4 - i) - 1, <<>>, Append(c, t))
    <3> DEFINE k == 4 - i
    <3>1. k \in Int
      OBVIOUS
    <3>2. p = Reader("text", 1, k, t, c)
      BY <1>3
    <3> HIDE DEF k
    <3>3. q = Reader(IF k = 1 THEN "executed" ELSE "$", 0, k - 1, <<>>, Append(c, t))
      <4> DEFINE b == Head(r)
      <4>1. p.mode = "text" /\ p.num = 1 /\ p.left = k /\ p.text = t /\ p.parts = c
        BY <3>2 DEF Reader
      <4> HIDE DEF b
      <4>2. Parse(p, b) = [Fresh EXCEPT !.parts = Append(p.parts, p.text), !.left = p.left - 1,
                                        !.mode = IF p.left = 1 THEN "executed" ELSE "$"]
        BY <4>1 DEF Parse
      <4> DEFINE x == Append(c, t)
                 l == k - 1
                 d == IF k = 1 THEN "executed" ELSE "$"
      <4>3. Fresh = Reader("*", 0, 0, <<>>, <<>>)
        BY Zenon DEF Fresh, Reader
      <4>4. Parse(p, b) = [[[Fresh EXCEPT !.parts = x] EXCEPT !.left = l] EXCEPT !.mode = d]
        BY <4>1, <4>2, Zenon
      <4> HIDE DEF x, l, d
      <4>5. PICK p0 : p0 = Fresh
        OBVIOUS
      <4>6. PICK p1 : p1 = [p0 EXCEPT !.parts = x]
        OBVIOUS
      <4>7. PICK p2 : p2 = [p1 EXCEPT !.left = l]
        OBVIOUS
      <4>8. p1 = Reader("*", 0, 0, <<>>, x)
        BY <4>3, <4>5, <4>6 DEF Reader
      <4>9. p2 = Reader("*", 0, l, <<>>, x)
        BY <4>7, <4>8 DEF Reader
      <4>10. [p2 EXCEPT !.mode = d] = Reader(d, 0, l, <<>>, x)
        BY <4>9 DEF Reader
      <4>11. Parse(p, b) = Reader(d, 0, l, <<>>, x)
        BY <4>4, <4>5, <4>6, <4>7, <4>10, Zenon
      <4> QED
        BY <4>11, Zenon DEF b, x, l, d
    <3> QED
      BY <3>3 DEF k
  <2>4. CASE i = 3
    <3>1. q = Reader("executed", 0, 0, <<>>, Complete(m, 4)) /\ f = <<>>
      BY <2>2, <2>3, <2>4 DEF f, From
    <3> QED
      BY <2>1, <3>1, Zenon DEF Expects, AtEnd
  <2>5. CASE i # 3
    <3> DEFINE j == i + 1
    <3>1. j \in 1..3 /\ (4 - i) - 1 = 4 - j /\ 4 - i # 1
      BY <2>5
    <3>2. q = Reader("$", 0, 4 - j, <<>>, Complete(m, j)) /\ Tail(r) = From(m, j)
      BY <2>1, <2>2, <2>3, <3>1 DEF f
    <3> HIDE DEF j
    <3>3. InLength(q, Tail(r), m, j)
      BY <3>2, Zenon DEF InLength
    <3> QED
      BY <2>1, <3>1, <3>3, Zenon DEF Expects
  <2> QED
    BY <2>4, <2>5
<1> QED
  BY <1>2, <1>3, Zenon DEF InText, e, f, t, c

(* A reader that needs more is not done and takes the next byte as it was  *)
(* meant.                                                                  *)
LEMMA ReaderStep ==
  ASSUME NEW m \in Messages, NEW p, NEW r, Expects(p, r, m), r # <<>>
  PROVE  r \in Seq(Byte) /\ Expects(Parse(p, Head(r)), Tail(r), m)
<1>1. ~AtEnd(p, r, m)
  BY DEF AtEnd
<1> QED
  BY <1>1, HeaderStep, LengthStep, TextStep, Zenon DEF Expects

LEMMA ReaderIs ==
  ASSUME NEW m \in Messages, NEW p, NEW r, Expects(p, r, m)
  PROVE  /\ r \in Seq(Byte)
         /\ p.mode \in {"*", "count", "countEnd", "$", "length", "lengthEnd", "text", "executed"}
         /\ p.num \in Nat /\ p.left \in 0..3
         /\ p.mode = "executed" <=> r = <<>>
         /\ p.mode = "executed" => p.parts = Complete(m, 4)
<1>1. CASE InHeader(p, r, m)
  <2>1. r \in Seq(Byte) /\ r # <<>>
    BY <1>1, HeaderStep
  <2> QED
    BY <1>1, <2>1 DEF InHeader, Reader
<1>2. ASSUME NEW i \in 1..3, InLength(p, r, m, i) \/ InText(p, r, m, i)
      PROVE  /\ r \in Seq(Byte) /\ r # <<>>
             /\ p.mode \in {"$", "length", "lengthEnd", "text"}
             /\ p.num \in Nat /\ p.left \in 0..3
  <2>1. r \in Seq(Byte) /\ r # <<>>
    BY <1>2, LengthStep, TextStep
  <2>2. \E num \in Nat, mode \in {"$", "length", "lengthEnd", "text"} : \E text :
          p = Reader(mode, num, 4 - i, text, Complete(m, i))
    <3>1. CASE InLength(p, r, m, i)
      <4>1. Len(Text(m, i)) \in Nat
        BY TextType
      <4> DEFINE n == Len(Text(m, i))
                 At(mode, num) == p = Reader(mode, num, 4 - i, <<>>, Complete(m, i))
      <4>2. At("$", 0) \/ (\E num \in Nat : At("length", num)) \/ At("lengthEnd", n)
        BY <3>1, Zenon DEF InLength
      <4> HIDE DEF n
      <4> QED
        BY <4>1, <4>2 DEF n
    <3>2. CASE InText(p, r, m, i)
      <4>1. \A u \in Seq(Byte) : Len(u) + 2 \in Nat
        OBVIOUS
      <4>2. \E num \in Nat : \E text : p = Reader("text", num, 4 - i, text, Complete(m, i))
        BY <3>2, <4>1 DEF InText
      <4> QED
        BY <4>2
    <3> QED
      BY <1>2, <3>1, <3>2
  <2>3. 4 - i \in 0..3
    OBVIOUS
  <2> QED
    BY <2>1, <2>2, <2>3 DEF Reader
<1>3. CASE AtEnd(p, r, m)
  BY <1>3 DEF AtEnd, Reader
<1> QED
  BY <1>1, <1>2, <1>3 DEF Expects

LEMMA CompleteIs ==
  ASSUME NEW m \in Messages
  PROVE  /\ Len(Complete(m, 4)) = 3
         /\ Complete(m, 4)[1] = Bytes(Command)
         /\ Complete(m, 4)[2] = Bytes(Channel)
         /\ Complete(m, 4)[3] = Bytes(m)
BY DEF Complete, Parts

-----------------------------------------------------------------------------
(* The inductive invariant.  Every byte that is on the wire is one the     *)
(* broker is waiting for: with some bytes more (those the gateway has not  *)
(* written, or the connection has lost) it would have read the command.    *)

Understood(p, w, m) == \E rest \in Seq(Byte) : Expects(p, Cat(w, rest), m)

(* An answer comes after the command, and a success after the publication. *)
Answered(p, pub, l, r, m) ==
  Cat(l, r) # <<>> =>
    /\ p.mode = "executed"
    /\ Cat(l, r)[1] = ":" => pub = <<Bytes(m)>>

WireInv ==
  /\ pc \in {"called", "dial", "write", "failing", "read"} \cup Returned
  /\ message \in Messages
  /\ wire \in Seq(Byte) /\ reply \in Seq(Byte) /\ line \in Seq(Byte)
  /\ up \in BOOLEAN
  /\ Understood(parser, wire, message)
  /\ pc \in {"called", "dial", "write"} => parser = Fresh
  /\ wire # <<>> => pc \in {"read", "failing"}
  /\ published \in {<<>>, <<Bytes(message)>>}
  /\ parser.mode # "executed" => published = <<>>
  /\ Answered(parser, published, line, reply, message)

LEMMA CommandUnderstood ==
  ASSUME NEW m \in Messages
  PROVE  /\ respArray(Parts(m)) \in Seq(Byte)
         /\ Expects(Fresh, respArray(Parts(m)), m)
<1>1. Fresh = Reader("*", 0, 0, <<>>, <<>>)
  BY DEF Fresh, Reader
<1>2. Expects(Fresh, respArray(Parts(m)), m)
  BY <1>1, CommandIs, Zenon DEF Expects, InHeader
<1> QED
  BY <1>2, ReaderIs

LEMMA PrefixRest ==
  ASSUME NEW s \in Seq(Byte), NEW n \in 0..Len(s) - 1
  PROVE  /\ SubSeq(s, 1, n) \in Seq(Byte)
         /\ \E rest \in Seq(Byte) : Cat(SubSeq(s, 1, n), rest) = s
<1> DEFINE a == SubSeq(s, 1, n)
           b == SubSeq(s, n + 1, Len(s))
<1>1. a \in Seq(Byte) /\ Len(a) = n /\ \A j \in 1..n : a[j] = s[j]
  OBVIOUS
<1>2. b \in Seq(Byte) /\ Len(b) = Len(s) - n /\ \A j \in 1..Len(s) - n : b[j] = s[n + j]
  OBVIOUS
<1> HIDE DEF a, b
<1>3. (a \o b) = s
  <2>1. (a \o b) \in Seq(Byte) /\ Len(a \o b) = Len(s)
    BY <1>1, <1>2
  <2>2. ASSUME NEW j \in 1..Len(s) PROVE (a \o b)[j] = s[j]
    <3>1. CASE j \in 1..n
      BY <1>1, <1>2, <3>1
    <3>2. CASE j \notin 1..n
      <4>1. j - n \in 1..Len(s) - n /\ n + (j - n) = j
        BY <3>2
      <4>2. (a \o b)[j] = b[j - n]
        BY <1>1, <1>2, <3>2
      <4> QED
        BY <1>2, <4>1, <4>2
    <3> QED
      BY <3>1, <3>2
  <2> QED
    BY <2>1, <2>2, SeqEqual
<1> QED
  BY <1>1, <1>2, <1>3 DEF Cat, a, b

(* Bytes that are lost are bytes the broker would still have needed.       *)
LEMMA WireLost ==
  ASSUME NEW p, NEW w \in Seq(Byte), NEW m, Understood(p, w, m)
  PROVE  Understood(p, <<>>, m)
<1>1. PICK rest \in Seq(Byte) : Expects(p, Cat(w, rest), m)
  BY DEF Understood
<1> DEFINE r == Cat(w, rest)
<1>2. r \in Seq(Byte)
  BY CatProperties
<1> HIDE DEF r
<1>3. Cat(<<>>, r) = r
  BY <1>2 DEF Cat
<1> QED
  BY <1>1, <1>2, <1>3, Zenon DEF Understood, r

LEMMA UnderstoodStep ==
  ASSUME NEW m \in Messages, NEW p, NEW w \in Seq(Byte), w # <<>>, Understood(p, w, m)
  PROVE  /\ Understood(Parse(p, Head(w)), Tail(w), m)
         /\ p.mode # "executed"
<1>1. PICK rest \in Seq(Byte) : Expects(p, Cat(w, rest), m)
  BY DEF Understood
<1> DEFINE r == Cat(w, rest)
<1>2. r # <<>> /\ Head(r) = Head(w) /\ Tail(r) = Cat(Tail(w), rest)
  BY TakeByte DEF Cat
<1> HIDE DEF r
<1>3. Expects(Parse(p, Head(r)), Tail(r), m)
  BY <1>1, <1>2, ReaderStep DEF r
<1>4. p.mode # "executed"
  BY <1>1, <1>2, ReaderIs DEF r
<1> QED
  BY <1>2, <1>3, <1>4, Zenon DEF Understood

LEMMA UnderstoodIs ==
  ASSUME NEW m \in Messages, NEW p, NEW w, Understood(p, w, m)
  PROVE  /\ p.mode \in {"*", "count", "countEnd", "$", "length", "lengthEnd", "text", "executed"}
         /\ p.num \in Nat /\ p.left \in 0..3
         /\ p.mode = "executed" => p.parts = Complete(m, 4)
BY ReaderIs, Zenon DEF Understood

LEMMA WireInit == Init => WireInv
<1> SUFFICES ASSUME Init PROVE WireInv
  OBVIOUS
<1> USE DEF Init
<1>1. Understood(parser, wire, message)
  <2> DEFINE cmd == respArray(Parts(message))
  <2>1. cmd \in Seq(Byte) /\ Expects(Fresh, cmd, message)
    BY CommandUnderstood
  <2> HIDE DEF cmd
  <2>2. Cat(<<>>, cmd) = cmd
    BY <2>1 DEF Cat
  <2> QED
    BY <2>1, <2>2, Zenon DEF Understood
<1>2. Answered(parser, published, line, reply, message)
  BY DEF Answered, Cat
<1>3. parser = Fresh /\ <<>> \in Seq(Byte)
  OBVIOUS
<1> QED
  BY <1>1, <1>2, <1>3 DEF WireInv

(* The connection ends: what was still on the way counts for nothing.      *)
LEMMA ReturnStep ==
  ASSUME WireInv, NEW result \in Returned, Return(result), UNCHANGED <<message, parser, published>>,
         line' \in Seq(Byte), Answered(parser, published, line', <<>>, message)
  PROVE  WireInv'
<1>1. Understood(parser, <<>>, message)
  BY WireLost DEF WireInv
<1>2. pc' \in Returned /\ up' = FALSE /\ wire' = <<>> /\ reply' = <<>>
  BY DEF Return
<1>3. pc' \notin {"called", "dial", "write", "read", "failing"} /\ <<>> \in Seq(Byte)
  BY <1>2 DEF Returned
<1>4. Understood(parser', wire', message')
  BY <1>1, <1>2
<1>5. Answered(parser', published', line', reply', message')
  BY <1>2
<1> HIDE DEF Return
<1> QED
  BY <1>2, <1>3, <1>4, <1>5 DEF WireInv

LEMMA AnsweredLess ==
  ASSUME NEW p, NEW pub, NEW l \in Seq(Byte), NEW r \in Seq(Byte), NEW m, Answered(p, pub, l, r, m)
  PROVE  Answered(p, pub, l, <<>>, m)
<1>1. CASE l = <<>>
  BY <1>1 DEF Answered, Cat
<1>2. CASE l # <<>>
  <2>1. Cat(l, r) # <<>> /\ Cat(l, r)[1] = l[1] /\ Cat(l, <<>>) = l
    BY <1>2 DEF Cat
  <2> QED
    BY <2>1 DEF Answered
<1> QED
  BY <1>1, <1>2

LEMMA GatewayInvariance ==
  ASSUME WireInv, GatewayStep
  PROVE  WireInv'
<1>0. line \in Seq(Byte) /\ reply \in Seq(Byte) /\ wire \in Seq(Byte) /\ message \in Messages
  BY DEF WireInv
<1>7. Answered(parser, published, line, <<>>, message) /\ "error" \in Returned /\ "nil" \in Returned
  BY AnsweredLess DEF WireInv, Returned
<1>1. CASE StartDial
  BY <1>1 DEF StartDial, WireInv, Returned
<1>2. CASE Dial
  <2>1. CASE Return("error")
    <3>1. UNCHANGED <<message, parser, published, line>>
      BY <1>2 DEF Dial
    <3> QED
      BY <1>0, <1>7, <2>1, <3>1, ReturnStep
  <2>2. CASE pc' = "write" /\ UNCHANGED <<up, wire, reply>>
    BY <1>2, <2>2 DEF Dial, WireInv, Returned
  <2> QED
    BY <1>2, <2>1, <2>2 DEF Dial
<1>3. CASE Write
  <2> DEFINE cmd == respArray(Parts(message))
  <2>1. cmd \in Seq(Byte) /\ Expects(Fresh, cmd, message)
    BY <1>0, CommandUnderstood
  <2>2. parser = Fresh /\ pc = "write" /\ UNCHANGED <<message, parser, published, reply, line, up>>
    BY <1>3 DEF Write, WireInv
  <2>3. \/ pc' = "read" /\ wire' = cmd
        \/ pc' = "failing" /\ \E n \in 0..Len(cmd) - 1 : wire' = SubSeq(cmd, 1, n)
    BY <1>3, Zenon DEF Write, Parts
  <2> HIDE DEF cmd
  <2>4. wire' \in Seq(Byte) /\ \E rest \in Seq(Byte) : Cat(wire', rest) = cmd
    <3>1. CASE wire' = cmd
      <4>1. Cat(cmd, <<>>) = cmd /\ <<>> \in Seq(Byte)
        BY <2>1 DEF Cat
      <4> QED
        BY <2>1, <3>1, <4>1
    <3>2. CASE \E n \in 0..Len(cmd) - 1 : wire' = SubSeq(cmd, 1, n)
      BY <2>1, <3>2, PrefixRest, Zenon
    <3> QED
      BY <2>3, <3>1, <3>2
  <2>5. Understood(parser', wire', message')
    <3>1. Understood(Fresh, wire', message)
      BY <2>1, <2>4, Zenon DEF Understood
    <3> QED
      BY <2>2, <3>1
  <2>6. Answered(parser', published', line', reply', message')
    BY <2>2 DEF WireInv
  <2> QED
    BY <2>2, <2>3, <2>4, <2>5, <2>6 DEF WireInv
<1>4. CASE WriteFails
  <2>1. Return("error") /\ UNCHANGED <<message, parser, published, line>>
    BY <1>4 DEF WriteFails
  <2> QED
    BY <1>0, <1>7, <2>1, ReturnStep
<1>5. CASE ReadByte
  <2>1. pc = "read" /\ reply # <<>> /\ line' = Append(line, Head(reply))
        /\ UNCHANGED <<message, parser, published>>
    BY <1>5 DEF ReadByte
  <2>2. line' \in Seq(Byte) /\ Cat(line', Tail(reply)) = Cat(line, reply) /\ Tail(reply) \in Seq(Byte)
    BY <1>0, <2>1, MoveByte, TakeByte, Zenon DEF Cat
  <2>3. Answered(parser, published, line', Tail(reply), message)
    BY <2>2 DEF WireInv, Answered
  <2>4. CASE Head(reply) = LF
    <3>1. Return(IF IsSuccess(line') THEN "nil" ELSE "error")
      BY <1>5, <2>4 DEF ReadByte
    <3>2. PICK result \in Returned : Return(result)
      BY <1>7, <3>1
    <3>3. Answered(parser, published, line', <<>>, message)
      BY <2>2, <2>3, AnsweredLess
    <3> QED
      BY <2>1, <2>2, <3>2, <3>3, ReturnStep
  <2>5. CASE Head(reply) # LF
    <3>1. reply' = Tail(reply) /\ UNCHANGED <<pc, wire, up>>
      BY <1>5, <2>5 DEF ReadByte
    <3>2. Answered(parser', published', line', reply', message')
      BY <2>1, <2>3, <3>1
    <3>3. reply' \in Seq(Byte) /\ Understood(parser', wire', message')
      BY <2>1, <2>2, <3>1 DEF WireInv
    <3> QED
      BY <2>1, <2>2, <3>1, <3>2, <3>3 DEF WireInv
  <2> QED
    BY <2>4, <2>5
<1>6. CASE ReadFails
  <2>1. Return("error") /\ UNCHANGED <<message, parser, published, line>>
    BY <1>6 DEF ReadFails
  <2> QED
    BY <1>0, <1>7, <2>1, ReturnStep
<1> QED
  BY <1>1, <1>2, <1>3, <1>4, <1>5, <1>6 DEF GatewayStep

LEMMA BreakInvariance ==
  ASSUME WireInv, Break
  PROVE  WireInv'
<1>1. pc \in {"read", "failing"} /\ up' = FALSE /\ wire' = <<>> /\ reply' = <<>>
      /\ UNCHANGED <<pc, message, parser, published, line>>
  BY DEF Break
<1>2. Understood(parser, <<>>, message) /\ Answered(parser, published, line, <<>>, message)
  BY WireLost, AnsweredLess DEF WireInv
<1>3. Understood(parser', wire', message') /\ Answered(parser', published', line', reply', message')
  BY <1>1, <1>2
<1>4. <<>> \in Seq(Byte)
  OBVIOUS
<1> QED
  BY <1>1, <1>3, <1>4 DEF WireInv

LEMMA AnswerSigns ==
  /\ <<":", "1", CR, LF>> \in Seq(Byte) /\ <<"-", CR, LF>> \in Seq(Byte)
  /\ <<":", "1", CR, LF>>[1] = ":" /\ <<"-", CR, LF>>[1] # ":"
  /\ <<":", "1", CR, LF>> # <<>> /\ <<"-", CR, LF>> # <<>>
BY SignsAreBytes

(* Until the command is complete nothing is published and nothing answered;*)
(* when it is complete it is the one that was meant.                       *)
LEMMA BeforeTheEnd ==
  ASSUME WireInv, Deliver
  PROVE  /\ parser.mode # "executed" /\ published = <<>> /\ line = <<>> /\ reply = <<>>
         /\ Understood(parser', wire', message) /\ wire' \in Seq(Byte)
         /\ parser'.mode = "executed" => parser'.parts = Complete(message, 4)
         /\ parser'.mode # "confused"
<1>1. wire \in Seq(Byte) /\ wire # <<>> /\ Understood(parser, wire, message) /\ message \in Messages
      /\ line \in Seq(Byte) /\ reply \in Seq(Byte)
  BY DEF WireInv, Deliver
<1>2. wire' = Tail(wire) /\ parser' = Parse(parser, Head(wire))
  BY DEF Deliver
<1>3. parser.mode # "executed" /\ Understood(parser', wire', message)
  BY <1>1, <1>2, UnderstoodStep
<1>4. published = <<>> /\ Cat(line, reply) = <<>>
  BY <1>3 DEF WireInv, Answered
<1>5. line = <<>> /\ reply = <<>>
  BY <1>1, <1>4 DEF Cat
<1>6. parser'.mode # "confused" /\ (parser'.mode = "executed" => parser'.parts = Complete(message, 4))
  BY <1>1, <1>3, UnderstoodIs
<1> QED
  BY <1>1, <1>2, <1>3, <1>4, <1>5, <1>6

LEMMA DeliverInvariance ==
  ASSUME WireInv, Deliver
  PROVE  WireInv'
<1>1. message \in Messages /\ UNCHANGED <<pc, message, line, up>> /\ wire # <<>>
  BY DEF WireInv, Deliver
<1>2. pc \in {"read", "failing"}
  BY <1>1 DEF WireInv
<1>3. Understood(parser', wire', message') /\ wire' \in Seq(Byte)
  BY <1>1, BeforeTheEnd
<1>4. /\ reply' \in Seq(Byte)
      /\ published' \in {<<>>, <<Bytes(message')>>}
      /\ parser'.mode # "executed" => published' = <<>>
      /\ Answered(parser', published', line', reply', message')
  <2>1. CASE /\ parser'.mode = "executed"
             /\ published' = Append(published, parser'.parts[3])
             /\ reply' = reply \o <<":", "1", CR, LF>>
    <3> DEFINE answer == <<":", "1", CR, LF>>
               b == Bytes(message)
    <3>1. answer \in Seq(Byte) /\ parser'.parts[3] = b /\ b \in Seq(Byte)
      BY <1>1, <2>1, BeforeTheEnd, CompleteIs, AnswerSigns, BytesType
    <3> HIDE DEF answer, b
    <3>2. reply' = answer /\ published' = <<b>> /\ line' = <<>>
      <4>1. reply' = reply \o answer /\ reply = <<>> /\ line = <<>> /\ published = <<>>
        BY <2>1, BeforeTheEnd DEF answer
      <4> QED
        BY <1>1, <2>1, <3>1, <4>1
    <3> QED
      BY <1>1, <2>1, <3>1, <3>2 DEF Answered, b
  <2>2. CASE /\ parser'.mode = "executed"
             /\ reply' = reply \o <<"-", CR, LF>>
             /\ UNCHANGED published
    <3> DEFINE answer == <<"-", CR, LF>>
    <3>1. answer \in Seq(Byte) /\ answer[1] # ":"
      BY AnswerSigns
    <3> HIDE DEF answer
    <3>2. reply' = answer /\ published' = <<>> /\ line' = <<>>
      <4>1. reply' = reply \o answer /\ reply = <<>> /\ line = <<>> /\ published = <<>>
        BY <2>2, BeforeTheEnd DEF answer
      <4> QED
        BY <1>1, <2>2, <3>1, <4>1
    <3>3. Cat(line', reply') = answer
      BY <3>1, <3>2 DEF Cat
    <3> QED
      BY <1>1, <2>2, <3>1, <3>2, <3>3 DEF Answered
  <2>3. CASE UNCHANGED <<published, reply>>
    <3>1. published' = <<>> /\ reply' = <<>> /\ line' = <<>>
      BY <1>1, <2>3, BeforeTheEnd
    <3>2. Cat(line', reply') = <<>> /\ <<>> \in Seq(Byte)
      BY <3>1 DEF Cat
    <3> QED
      BY <3>1, <3>2 DEF Answered
  <2> QED
    BY <2>1, <2>2, <2>3, BeforeTheEnd DEF Deliver
<1> QED
  BY <1>1, <1>2, <1>3, <1>4 DEF WireInv

LEMMA WireInvariance ==
  ASSUME WireInv, [Next]_vars
  PROVE  WireInv'
<1>1. CASE UNCHANGED vars
  BY <1>1 DEF vars, WireInv
<1>2. CASE Done
  BY <1>2 DEF Done, vars, WireInv
<1> QED
  BY <1>1, <1>2, GatewayInvariance, BreakInvariance, DeliverInvariance DEF Next

(* The broker understands every byte it takes, and the connection carries  *)
(* nothing but bytes.                                                      *)
THEOREM WireTypes == Spec => []TypeOK
<1>1. WireInv => TypeOK
  <2> SUFFICES ASSUME WireInv PROVE TypeOK
    OBVIOUS
  <2>1. message \in Messages /\ Bytes(message) \in Seq(Byte)
    BY BytesType DEF WireInv
  <2>2. published \in Seq(Seq(Byte))
    <3>1. <<Bytes(message)>> \in Seq(Seq(Byte)) /\ <<>> \in Seq(Seq(Byte))
      BY <2>1
    <3> QED
      BY <3>1 DEF WireInv
  <2>3. /\ parser.mode \in {"*", "count", "countEnd", "$", "length", "lengthEnd", "text", "executed"}
        /\ parser.num \in Nat /\ parser.left \in 0..3
    BY <2>1, UnderstoodIs DEF WireInv
  <2> QED
    BY <2>2, <2>3 DEF WireInv, TypeOK
<1> QED
  BY <1>1, WireInit, WireInvariance, PTL DEF Spec

(* Whatever the message holds, however its bytes travel and wherever the   *)
(* connection breaks, the subscribers get it exactly, once at most.        *)
THEOREM PublishedAsPassed == Spec => []PublishedExactly
<1>1. WireInv => PublishedExactly
  BY DEF WireInv, PublishedExactly
<1> QED
  BY <1>1, WireInit, WireInvariance, PTL DEF Spec

-----------------------------------------------------------------------------
(* Refinement of EventPipeline.                                            *)

(* The state of the exchange as the pipeline has it. *)
Taken == IF pc = "called" THEN {} ELSE {message}
Seen == {m \in Messages : \E i \in DOMAIN published : published[i] = Bytes(m)}
Succeeded == IF pc = "nil" THEN {message} ELSE {}
Failed == IF pc = "error" THEN {message} ELSE {}

LEMMA SeenIs ==
  ASSUME NEW p, NEW m \in Messages, p \in {<<>>, <<Bytes(m)>>}
  PROVE  {n \in Messages : \E i \in DOMAIN p : p[i] = Bytes(n)} = IF p = <<>> THEN {} ELSE {m}
<1>1. CASE p = <<>>
  BY <1>1
<1>2. CASE p = <<Bytes(m)>>
  <2>1. DOMAIN p = {1} /\ p[1] = Bytes(m) /\ p # <<>>
    BY <1>2
  <2>2. \A n \in Messages : (\E i \in DOMAIN p : p[i] = Bytes(n)) <=> n = m
    BY <2>1, WireAssumption, Zenon DEF WireAssumption
  <2> QED
    BY <2>1, <2>2
<1> QED
  BY <1>1, <1>2

LEMMA PipelineInit == Init => Pipeline!Init
BY DEF Init, Pipeline!Init

LEMMA PipelineStep ==
  ASSUME WireInv, [Next]_vars
  PROVE  [Pipeline!Next]_(Pipeline!vars)
<1>1. WireInv'
  BY WireInvariance
<1>2. Seen = (IF published = <<>> THEN {} ELSE {message}) /\ message \in Messages
  BY SeenIs DEF WireInv, Seen
<1>3. Seen' = IF published' = <<>> THEN {} ELSE {message'}
  BY <1>1, SeenIs DEF WireInv, Seen
<1>4. ASSUME UNCHANGED <<Taken, Seen, Succeeded, Failed>>
      PROVE  [Pipeline!Next]_(Pipeline!vars)
  BY <1>4 DEF Pipeline!vars, Taken, Seen, Succeeded, Failed
<1>5. message' = message
  BY DEF Next, GatewayStep, StartDial, Dial, Write, WriteFails, ReadByte, ReadFails, Deliver, Break,
         Done, vars
<1>6. CASE published' = published /\ pc' = pc
  BY <1>2, <1>3, <1>4, <1>5, <1>6 DEF Taken, Succeeded, Failed
<1>7. CASE StartDial
  <2>1. Pipeline!Accept(message)
    BY <1>5, <1>7 DEF StartDial, Pipeline!Accept
  <2> QED
    BY <1>2, <2>1 DEF Pipeline!Next
<1>8. CASE /\ pc \in {"dial", "failing", "read"} /\ pc' = "error"
           /\ UNCHANGED <<message, published>>
  <2>1. Pipeline!Fail(message)
    BY <1>2, <1>8 DEF Pipeline!Fail, Pipeline!Decided
  <2> QED
    BY <1>2, <2>1 DEF Pipeline!Next
<1>9. CASE ReadByte
  <2>1. pc = "read" /\ UNCHANGED <<message, parser, published>> /\ line' = Append(line, Head(reply))
        /\ reply # <<>>
    BY <1>9 DEF ReadByte
  <2>2. CASE Head(reply) # LF
    BY <1>6, <1>9, <2>1, <2>2 DEF ReadByte
  <2>3. CASE Head(reply) = LF
    <3>1. reply' = <<>> /\ pc' = IF IsSuccess(line') THEN "nil" ELSE "error"
      BY <1>9, <2>3 DEF ReadByte, Return
    <3>2. CASE IsSuccess(line')
      <4>1. line' \in Seq(Byte) /\ Answered(parser', published', line', reply', message')
        BY <1>1 DEF WireInv
      <4>2. Cat(line', reply') = line'
        BY <3>1, <4>1 DEF Cat
      <4>3. published' = <<Bytes(message')>>
        BY <3>2, <4>1, <4>2 DEF Answered, IsSuccess
      <4>4. Seen = {message}
        <5>1. published # <<>>
          BY <2>1, <4>3
        <5> QED
          BY <1>2, <5>1
      <4>5. Pipeline!Acknowledge(message)
        BY <1>5, <2>1, <3>1, <3>2, <4>4 DEF Pipeline!Acknowledge, Pipeline!Decided, Seen
      <4> QED
        BY <1>2, <4>5 DEF Pipeline!Next
    <3>3. CASE ~IsSuccess(line')
      BY <1>8, <2>1, <3>1, <3>3
    <3> QED
      BY <3>2, <3>3
  <2> QED
    BY <2>2, <2>3
<1>10. CASE Dial \/ WriteFails \/ ReadFails
  <2>1. UNCHANGED <<message, published>> /\ pc \in {"dial", "failing", "read"} /\ pc' \in {"error", "write"}
    BY <1>10 DEF Dial, WriteFails, ReadFails, Return
  <2>2. CASE pc' = "write"
    <3>1. pc # "called" /\ pc \notin {"nil", "error"}
      BY <2>1
    <3> QED
      BY <1>2, <1>3, <1>4, <2>1, <2>2, <3>1 DEF Taken, Succeeded, Failed
  <2> QED
    BY <1>8, <2>1, <2>2
<1>11. CASE Write
  <2>1. UNCHANGED <<message, published>> /\ pc = "write" /\ pc' \in {"read", "failing"}
    BY <1>11 DEF Write
  <2> QED
    BY <1>2, <1>3, <1>4, <2>1 DEF Taken, Succeeded, Failed
<1>12. CASE Deliver
  <2>1. pc' = pc /\ wire # <<>> /\ published = <<>>
    BY <1>12, BeforeTheEnd DEF Deliver
  <2>2. pc \in {"read", "failing"}
    BY <2>1 DEF WireInv
  <2>3. CASE published' = <<>>
    BY <1>6, <2>1, <2>3
  <2>4. CASE published' # <<>>
    <3>1. Seen = {} /\ Seen' = {message}
      BY <1>2, <1>3, <1>5, <2>1, <2>4
    <3>2. pc # "called" /\ pc # "nil" /\ pc # "error"
      BY <2>2
    <3>3. Taken = {message} /\ Succeeded = {} /\ Failed = {}
          /\ UNCHANGED <<Taken, Succeeded, Failed>>
      BY <1>5, <2>1, <3>2 DEF Taken, Succeeded, Failed
    <3>4. PICK e \in Messages : e = message
      BY <1>2
    <3>5. e \in Taken \ (Seen \cup (Succeeded \cup Failed)) /\ Seen' = Seen \cup {e}
      BY <3>1, <3>3, <3>4
    <3>6. Pipeline!Deliver(e)
      BY <3>3, <3>5, Zenon DEF Pipeline!Deliver, Pipeline!Decided, Taken, Seen, Succeeded, Failed
    <3> QED
      BY <3>6 DEF Pipeline!Next
  <2> QED
    BY <2>3, <2>4
<1>13. CASE Break \/ Done \/ UNCHANGED vars
  BY <1>6, <1>13 DEF Break, Done, vars
<1> QED
  BY <1>7, <1>9, <1>10, <1>11, <1>12, <1>13 DEF Next, GatewayStep

(* The exchange over TCP is a pipeline of one event: tried once, decided   *)
(* once, and a success only if the broker published it.                    *)
THEOREM WireIsPipeline == Spec => ImplementsPipeline
<1> QED
  BY PipelineInit, PipelineStep, WireInit, WireInvariance, PTL
  DEF Spec, ImplementsPipeline, Pipeline!Spec
=============================================================================
