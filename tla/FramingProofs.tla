--------------------------- MODULE FramingProofs ---------------------------
(* What is proved of Framing for every Base, Width, set of payloads and       *)
(* number of frames.                                                          *)
EXTENDS Framing, FiniteSetTheorems, TLAPS

-----------------------------------------------------------------------------
(* Numbers and their digits.                                                  *)

(* Induction up to N, on a set: no chain of subsets of 0..N descends forever. *)
LEMMA Induction ==
    ASSUME NEW N \in Nat, NEW S, 0 \in S, \A k \in 1..N : k - 1 \in S => k \in S
    PROVE  \A k \in 0..N : k \in S
<1> SUFFICES ASSUME NEW n \in 0..N, n \notin S PROVE FALSE
    OBVIOUS
<1> DEFINE T == {0..k : k \in (0..N) \ S}
<1>1. T \subseteq FiniteSubsetsOf(Nat)
    <2> SUFFICES ASSUME NEW k \in 0..N PROVE IsFiniteSet(0..k) /\ 0..k \subseteq Nat
        BY DEF FiniteSubsetsOf
    <2> QED BY FS_Interval
<1>2. T # {}
    OBVIOUS
<1>3. PICK x \in T : \A y \in T : <<y, x>> \notin StrictSubsetOrdering(Nat)
    <2> HIDE DEF T
    <2> QED BY <1>1, <1>2, FS_StrictSubsetOrderingWellFounded, WFMin
<1>4. PICK k \in (0..N) \ S : x = 0..k
    BY <1>3
<1>5. k - 1 \in (0..N) \ S
    OBVIOUS
<1>6. /\ 0..(k - 1) \in T /\ 0..(k - 1) \in SUBSET Nat /\ x \in SUBSET Nat
      /\ 0..(k - 1) \subseteq x /\ 0..(k - 1) # x
    <2>1. k \in x /\ k \notin 0..(k - 1)
        BY <1>4
    <2> QED BY <1>4, <1>5, <2>1
<1> QED BY <1>3, <1>6 DEF StrictSubsetOrdering

(* A function defined from its value at k - 1 exists.                         *)
Horner(f, N, c, B, d) ==
    /\ f = [k \in 0..N |-> f[k]] /\ f[0] = c
    /\ \A k \in 1..N : f[k] = f[k - 1] * B + d[k]

LEMMA HornerExists ==
    ASSUME NEW N \in Nat, NEW c, NEW B, NEW d
    PROVE  \E f : Horner(f, N, c, B, d)
<1> DEFINE Step(f, k) == IF k = 0 THEN c ELSE f[k - 1] * B + d[k]
           S == {n \in 0..N : \E f : f = [k \in 0..n |-> Step(f, k)]}
<1>1. 0 \in S
    <2>1. PICK f : f = [k \in 0..0 |-> c]
        OBVIOUS
    <2>2. f = [k \in 0..0 |-> Step(f, k)]
        BY <2>1
    <2> QED BY <2>2
<1>2. ASSUME NEW n \in 1..N, n - 1 \in S PROVE n \in S
    <2>1. PICK f : f = [k \in 0..(n - 1) |-> Step(f, k)]
        BY <1>2
    <2>2. PICK g : g = [k \in 0..n |-> IF k = n THEN Step(f, n) ELSE f[k]]
        OBVIOUS
    <2>3. \A k \in 0..n : g[k] = Step(g, k)
        <3> SUFFICES ASSUME NEW k \in 0..n PROVE g[k] = Step(g, k)
            OBVIOUS
        <3>1. CASE k = 0
            BY <2>1, <2>2, <3>1
        <3>2. CASE k # 0
            <4>1. g[k - 1] = f[k - 1]
                BY <2>2, <3>2
            <4>2. Step(g, k) = Step(f, k)
                BY <4>1
            <4> QED BY <2>1, <2>2, <4>2
        <3> QED BY <3>1, <3>2
    <2>4. g = [k \in 0..n |-> Step(g, k)]
        BY <2>2, <2>3
    <2> QED BY <2>4
<1>3. N \in S
    <2> HIDE DEF S
    <2> QED BY <1>1, <1>2, Induction
<1>4. PICK f : f = [k \in 0..N |-> Step(f, k)]
    BY <1>3
<1>5. f[0] = c /\ \A k \in 1..N : f[k] = f[k - 1] * B + d[k]
    BY <1>4
<1> QED BY <1>4, <1>5 DEF Horner

LEMMA PowerIs ==
    /\ Power[0] = 1
    /\ \A k \in 1..Width : Power[k] = Base * Power[k - 1]
    /\ \A k \in 0..Width : Power[k] \in Nat \ {0}
<1> DEFINE Def(f) == [k \in 0..Width |-> IF k = 0 THEN 1 ELSE Base * f[k - 1]]
<1>0. Width \in Nat \ {0} /\ Base \in Nat \ {0, 1}
    BY BaseAssumption
<1>1. \E f : f = Def(f)
    <2>1. PICK z : z = [k \in 0..Width |-> 0]
        OBVIOUS
    <2>2. PICK f : Horner(f, Width, 1, Base, z)
        <3>1. Width \in Nat
            BY <1>0
        <3> QED BY <3>1, HornerExists, Zenon
    <2>3. f = [k \in 0..Width |-> f[k]] /\ 0 \in 0..Width /\ f[0] = 1
        BY <1>0, <2>2 DEF Horner
    <2>4. \A k \in 1..Width : f[k] = f[k - 1] * Base + z[k]
        BY <2>2 DEF Horner
    <2>5. \A k \in 0..Width : k \in {j \in 0..Width : f[j] \in Nat}
        <3> DEFINE S == {j \in 0..Width : f[j] \in Nat}
        <3>1. 0 \in S
            BY <1>0, <2>3
        <3>2. \A k \in 1..Width : k - 1 \in S => k \in S
            BY <1>0, <2>1, <2>4
        <3> HIDE DEF S
        <3>3. \A k \in 0..Width : k \in S
            BY <1>0, <3>1, <3>2, Induction
        <3> QED BY <3>3 DEF S
    <2>6. \A k \in 1..Width : f[k] = Base * f[k - 1]
        BY <1>0, <2>1, <2>4, <2>5
    <2>7. f = Def(f)
        <3>1. \A k \in 0..Width : f[k] = IF k = 0 THEN 1 ELSE Base * f[k - 1]
            BY <1>0, <2>3, <2>6
        <3> QED BY <2>3, <3>1
    <2> QED BY <2>7
<1>2. Power = Def(Power)
    BY <1>1 DEF Power
<1>3. Power[0] = 1 /\ \A k \in 1..Width : Power[k] = Base * Power[k - 1]
    BY <1>0, <1>2
<1>4. \A k \in 0..Width : k \in {j \in 0..Width : Power[j] \in Nat \ {0}}
    <2> DEFINE S == {j \in 0..Width : Power[j] \in Nat \ {0}}
    <2>1. 0 \in S
        BY <1>0, <1>3
    <2>2. ASSUME NEW k \in 1..Width, k - 1 \in S PROVE k \in S
        <3>1. PICK p \in Nat \ {0} : p = Power[k - 1] /\ Power[k] = Base * p
            BY <1>3, <2>2
        <3>2. Base * p \in Nat \ {0}
            BY <1>0
        <3> QED BY <3>1, <3>2
    <2> HIDE DEF S
    <2>3. \A k \in 0..Width : k \in S
        BY <1>0, <2>1, <2>2, Induction
    <2> QED BY <2>3 DEF S
<1> QED BY <1>3, <1>4

(* Dividing by B * P is dividing by P and then by B.                          *)
LEMMA DivideTwice ==
    ASSUME NEW n \in Nat, NEW P \in Nat \ {0}, NEW B \in Nat \ {0}
    PROVE  /\ n \div (B * P) = (n \div P) \div B
           /\ n \div P \in Nat
           /\ n \div P = ((n \div P) \div B) * B + ((n \div P) % B)
<1>1. PICK q, r : q = n \div P /\ r = n % P
    OBVIOUS
<1>2. q \in Nat /\ r \in 0..(P - 1) /\ n = P * q + r
    BY <1>1
<1>3. PICK t, u : t = q \div B /\ u = q % B
    OBVIOUS
<1>4. t \in Nat /\ u \in 0..(B - 1) /\ q = B * t + u
    BY <1>2, <1>3
<1>5. PICK s \in Nat : s = P * u + r
    BY <1>2, <1>4
<1>6. P * u + r < P * B
    <2>1. P * u <= P * (B - 1)
        BY <1>4
    <2>2. P * (B - 1) = P * B - P
        OBVIOUS
    <2> QED BY <1>2, <1>4, <2>1, <2>2
<1>7. n = (B * P) * t + s
    <2>1. P * q = P * (B * t) + P * u
        BY <1>2, <1>4
    <2>2. P * (B * t) = (B * P) * t
        BY <1>4
    <2> QED BY <1>2, <1>4, <1>5, <2>1, <2>2
<1>8. PICK M \in Nat \ {0} : M = B * P
    OBVIOUS
<1>9. n \div M = t
    <2>1. n = M * t + s /\ s \in 0..(M - 1)
        BY <1>5, <1>6, <1>7, <1>8
    <2> QED BY <1>4, <2>1
<1> QED BY <1>1, <1>2, <1>3, <1>4, <1>8, <1>9

LEMMA DecodedIs ==
    ASSUME NEW s
    PROVE  \E v : Horner(v, Width, 0, Base, s) /\ Decoded(s) = v[Width]
<1> DEFINE Def(f) == [k \in 0..Width |-> IF k = 0 THEN 0 ELSE f[k - 1] * Base + s[k]]
           value == CHOOSE f : f = Def(f)
<1>0. Width \in Nat \ {0}
    BY BaseAssumption
<1>1. \E f : f = Def(f)
    <2>1. PICK f : Horner(f, Width, 0, Base, s)
        <3>1. Width \in Nat
            BY <1>0
        <3> QED BY <3>1, HornerExists, Zenon
    <2>2. /\ f = [k \in 0..Width |-> f[k]] /\ f[0] = 0
          /\ \A k \in 1..Width : f[k] = f[k - 1] * Base + s[k]
        BY <2>1 DEF Horner
    <2>3. f = Def(f)
        <3>1. ASSUME NEW k \in 0..Width PROVE f[k] = IF k = 0 THEN 0 ELSE f[k - 1] * Base + s[k]
            <4>1. CASE k = 0
                BY <2>2, <4>1
            <4>2. CASE k # 0
                <5>1. k \in 1..Width
                    BY <1>0, <4>2
                <5>2. f[k] = f[k - 1] * Base + s[k]
                    BY <2>2, <5>1
                <5> QED BY <4>2, <5>2, Zenon
            <4> QED BY <4>1, <4>2
        <3> QED BY <2>2, <3>1, Zenon
    <2> QED BY <2>3
<1>2. value = Def(value)
    BY <1>1
<1>3. Decoded(s) = value[Width]
    BY DEF Decoded
<1> HIDE DEF value
<1>4. Horner(value, Width, 0, Base, s)
    BY <1>0, <1>2 DEF Horner
<1> QED BY <1>3, <1>4

LEMMA PrefixIs ==
    ASSUME NEW n \in Nat
    PROVE  Prefix(n) \in Seq(Bytes) /\ Len(Prefix(n)) = Width
<1>0. Width \in Nat \ {0} /\ Base \in Nat \ {0, 1}
    BY BaseAssumption
<1>1. ASSUME NEW k \in 1..Width PROVE (n \div Power[Width - k]) % Base \in Bytes
    <2>1. PICK q \in Nat : q = n \div Power[Width - k]
        <3>1. Width - k \in 0..Width
            BY <1>0
        <3>2. PICK P \in Nat \ {0} : P = Power[Width - k]
            BY <3>1, PowerIs
        <3>3. n \div P \in Nat
            BY <1>0, DivideTwice
        <3> QED BY <3>2, <3>3
    <2>2. q % Base \in 0..(Base - 1)
        BY <1>0
    <2> QED BY <2>1, <2>2 DEF Bytes
<1> QED BY <1>0, <1>1 DEF Prefix

(* What a reader makes of the prefix is the length the writer put there, as   *)
(* long as that fits: the shifts of writeUint32BE and of readUint32BE are     *)
(* each other's inverse, for every base and width.                            *)
THEOREM PrefixRoundTrip ==
    ASSUME NEW n \in Nat, n < Power[Width], NEW s, \A k \in 1..Width : s[k] = Prefix(n)[k]
    PROVE  Decoded(s) = n
<1>0. Width \in Nat \ {0} /\ Base \in Nat \ {0, 1}
    BY BaseAssumption
<1>1. PICK v : Horner(v, Width, 0, Base, s) /\ Decoded(s) = v[Width]
    BY DecodedIs
<1>2. v[0] = 0 /\ \A k \in 1..Width : v[k] = v[k - 1] * Base + s[k]
    BY <1>1 DEF Horner
<1> DEFINE S == {k \in 0..Width : v[k] = n \div Power[Width - k]}
<1>3. 0 \in S
    <2>1. PICK P \in Nat \ {0} : P = Power[Width]
        BY <1>0, PowerIs
    <2>2. n \div P = 0
        BY <2>1
    <2> QED BY <1>0, <1>2, <2>1, <2>2
<1>4. ASSUME NEW k \in 1..Width, k - 1 \in S PROVE k \in S
    <2>1. Width - k \in 0..Width /\ Width - (k - 1) \in 1..Width /\ (Width - (k - 1)) - 1 = Width - k
        BY <1>0
    <2>2. PICK P \in Nat \ {0} : P = Power[Width - k]
        BY <2>1, PowerIs
    <2>3. Power[Width - (k - 1)] = Base * P
        BY <2>1, <2>2, PowerIs
    <2>4. v[k - 1] = n \div (Base * P)
        BY <1>4, <2>3
    <2>5. s[k] = (n \div P) % Base
        BY <2>2 DEF Prefix
    <2>6. v[k] = n \div P
        <3>1. v[k] = ((n \div P) \div Base) * Base + ((n \div P) % Base)
            BY <1>0, <1>2, <2>4, <2>5, DivideTwice
        <3> QED BY <1>0, <3>1, DivideTwice
    <2> QED BY <1>0, <2>2, <2>6
<1>5. Width \in S
    <2> HIDE DEF S
    <2> QED BY <1>0, <1>3, <1>4, Induction
<1>6. v[Width] = n \div 1
    BY <1>0, <1>5, PowerIs
<1> QED BY <1>1, <1>6

-----------------------------------------------------------------------------
(* The stream and what is left of it.                                         *)

Joined(u, v, w, T) ==
    /\ u \in Seq(T) /\ Len(u) = Len(v) + Len(w) /\ Len(v) \in Nat /\ Len(w) \in Nat
    /\ \A k \in 1..Len(v) : u[k] = v[k]
    /\ \A k \in 1..Len(w) : u[Len(v) + k] = w[k]

LEMMA ConcatIs ==
    ASSUME NEW T, NEW v \in Seq(T), NEW w \in Seq(T), NEW u, u = v \o w
    PROVE  Joined(u, v, w, T)
<1>0. Len(v) \in Nat /\ Len(w) \in Nat
    OBVIOUS
<1>1. v \o w \in Seq(T) /\ Len(v \o w) = Len(v) + Len(w)
    OBVIOUS
<1>2. \A k \in 1..Len(v) : (v \o w)[k] = v[k]
    BY <1>0
<1>3. \A k \in 1..Len(w) : (v \o w)[Len(v) + k] = w[k]
    BY <1>0
<1> QED BY <1>0, <1>1, <1>2, <1>3, Zenon DEF Joined

Longer(u, v, e, T) ==
    /\ u \in Seq(T) /\ Len(u) = Len(v) + 1 /\ u[Len(v) + 1] = e /\ Len(v) \in Nat
    /\ \A k \in 1..Len(v) : u[k] = v[k]

LEMMA AppendIs ==
    ASSUME NEW T, NEW v \in Seq(T), NEW e \in T, NEW u, u = Append(v, e)
    PROVE  Longer(u, v, e, T)
<1>0. Len(v) \in Nat
    OBVIOUS
<1>1. Append(v, e) \in Seq(T) /\ Len(Append(v, e)) = Len(v) + 1
    OBVIOUS
<1>2. Append(v, e)[Len(v) + 1] = e
    BY <1>0
<1>3. \A k \in 1..Len(v) : Append(v, e)[k] = v[k]
    BY <1>0
<1> QED BY <1>0, <1>1, <1>2, <1>3, Zenon DEF Longer

Piece(v, w, a, c, T) ==
    /\ v \in Seq(T) /\ Len(v) = c - a
    /\ \A k \in 1..Len(v) : v[k] = w[a + k]

LEMMA PieceIs ==
    ASSUME NEW T, NEW w \in Seq(T), NEW a \in 0..Len(w), NEW c \in a..Len(w), NEW v, v = SubSeq(w, a + 1, c)
    PROVE  Piece(v, w, a, c, T)
<1>0. Len(w) \in Nat
    OBVIOUS
<1>1. v \in Seq(T) /\ Len(v) = c - a
    BY <1>0
<1>2. \A k \in 1..Len(v) : v[k] = w[a + k]
    BY <1>0
<1> QED BY <1>1, <1>2 DEF Piece

(* w holds the bytes x + 1 .. y of S. *)
Window(w, S, x, y) ==
    /\ w \in Seq(Bytes) /\ x \in Nat /\ y \in x..Len(S) /\ Len(w) = y - x
    /\ \A k \in 1..Len(w) : w[k] = S[x + k]

LEMMA WindowOfSub ==
    ASSUME NEW S \in Seq(Bytes), NEW w, NEW x, NEW y, Window(w, S, x, y), NEW a \in 0..Len(w), NEW c \in a..Len(w)
    PROVE  Window(SubSeq(w, a + 1, c), S, x + a, x + c)
<1>1. /\ w \in Seq(Bytes) /\ x \in Nat /\ y \in x..Len(S) /\ Len(w) = y - x /\ Len(S) \in Nat /\ Len(w) \in Nat
      /\ \A k \in 1..Len(w) : w[k] = S[x + k]
    BY DEF Window
<1>2. PICK v : v = SubSeq(w, a + 1, c)
    OBVIOUS
<1>3. v \in Seq(Bytes) /\ Len(v) = c - a /\ \A k \in 1..Len(v) : v[k] = w[a + k]
    BY <1>1, <1>2
<1>4. \A k \in 1..Len(v) : v[k] = S[(x + a) + k]
    <2> SUFFICES ASSUME NEW k \in 1..Len(v) PROVE v[k] = S[(x + a) + k]
        OBVIOUS
    <2>1. a + k \in 1..Len(w) /\ x + (a + k) = (x + a) + k
        BY <1>1, <1>3
    <2> QED BY <1>1, <1>3, <2>1
<1>5. x + a \in Nat /\ x + c \in (x + a)..Len(S) /\ Len(v) = (x + c) - (x + a)
    BY <1>1, <1>3
<1> QED BY <1>2, <1>3, <1>4, <1>5 DEF Window

LEMMA WindowOfBoth ==
    ASSUME NEW S \in Seq(Bytes), NEW v, NEW w, NEW x, NEW y, NEW z, Window(v, S, x, y), Window(w, S, y, z)
    PROVE  Window(v \o w, S, x, z)
<1>1. /\ v \in Seq(Bytes) /\ w \in Seq(Bytes) /\ x \in Nat /\ y \in x..Len(S) /\ z \in y..Len(S)
      /\ Len(v) = y - x /\ Len(w) = z - y /\ Len(S) \in Nat
      /\ \A k \in 1..Len(v) : v[k] = S[x + k]
      /\ \A k \in 1..Len(w) : w[k] = S[y + k]
    BY DEF Window
<1>2. PICK u : u = v \o w
    OBVIOUS
<1>0. Joined(u, v, w, Bytes)
    BY <1>1, <1>2, ConcatIs
<1>3. /\ u \in Seq(Bytes) /\ Len(u) = Len(v) + Len(w) /\ Len(v) \in Nat /\ Len(w) \in Nat
      /\ \A k \in 1..Len(v) : u[k] = v[k]
      /\ \A k \in 1..Len(w) : u[Len(v) + k] = w[k]
    BY <1>0 DEF Joined
<1>4. ASSUME NEW k \in 1..Len(u) PROVE u[k] = S[x + k]
    <2>1. CASE k <= Len(v)
        BY <1>1, <1>3, <2>1
    <2>2. CASE ~(k <= Len(v))
        <3>1. PICK j \in 1..Len(w) : k = Len(v) + j /\ y + j = x + k
            BY <1>1, <1>3, <2>2
        <3> QED BY <1>1, <1>3, <3>1
    <2> QED BY <2>1, <2>2
<1>5. z \in x..Len(S) /\ Len(u) = z - x
    BY <1>1, <1>3
<1> QED BY <1>1, <1>2, <1>3, <1>4, <1>5 DEF Window

(* What is written later does not change what was there. *)
LEMMA WindowStays ==
    ASSUME NEW S \in Seq(Bytes), NEW more \in Seq(Bytes), NEW w, NEW x, NEW y, Window(w, S, x, y)
    PROVE  Window(w, S \o more, x, y)
<1>1. /\ w \in Seq(Bytes) /\ x \in Nat /\ y \in x..Len(S) /\ Len(w) = y - x /\ Len(S) \in Nat /\ Len(more) \in Nat
      /\ \A k \in 1..Len(w) : w[k] = S[x + k]
    BY DEF Window
<1>2. PICK T : T = S \o more
    OBVIOUS
<1>3. Len(T) = Len(S) + Len(more) /\ \A k \in 1..Len(S) : T[k] = S[k]
    BY <1>2
<1>4. \A k \in 1..Len(w) : x + k \in 1..Len(S)
    BY <1>1
<1>5. \A k \in 1..Len(w) : w[k] = T[x + k]
    BY <1>1, <1>3, <1>4
<1>6. y \in x..Len(T)
    BY <1>1, <1>3
<1> QED BY <1>1, <1>2, <1>5, <1>6 DEF Window

LEMMA WindowOfMore ==
    ASSUME NEW S \in Seq(Bytes), NEW more \in Seq(Bytes)
    PROVE  Window(more, S \o more, Len(S), Len(S \o more))
<1>1. PICK T : T = S \o more
    OBVIOUS
<1>2. /\ Len(T) = Len(S) + Len(more) /\ Len(S) \in Nat /\ Len(more) \in Nat
      /\ \A k \in 1..Len(more) : T[Len(S) + k] = more[k]
    BY <1>1
<1> QED BY <1>1, <1>2 DEF Window

(* at[j] is where the j-th frame ends. *)
Laid(S, at) ==
    /\ S \in Seq(Bytes) /\ at \in [0..Len(written) -> Nat]
    /\ at[0] = 0 /\ at[Len(written)] = Len(S)
    /\ \A j, k \in 0..Len(written) : j < k => at[j] < at[k]
    /\ \A j \in 1..Len(written) : Window(Framed(written[j]), S, at[j - 1], at[j])

Sendable == \A j \in 1..Len(written) : written[j] \in Payloads /\ Carries(written[j])

LineFrame(f, p) ==
    /\ p \in Seq(Bytes) /\ f \in Seq(Bytes) /\ Len(p) \in Nat /\ Len(f) = Len(p) + 1
    /\ f[Len(p) + 1] = Newline
    /\ \A k \in 1..Len(p) : f[k] = p[k]

Length32Frame(f, p) ==
    /\ p \in Seq(Bytes) /\ f \in Seq(Bytes) /\ Len(p) \in Nat /\ Len(f) = Width + Len(p)
    /\ \A k \in 1..Width : f[k] = Prefix(Len(p))[k]
    /\ \A k \in 1..Len(p) : f[Width + k] = p[k]

LEMMA LineFramed == ASSUME NEW p \in Payloads, framing = "line" PROVE LineFrame(Framed(p), p)
<1>1. p \in Seq(Bytes) /\ Len(p) \in Nat /\ Newline \in Bytes
    BY PayloadAssumption DEF Bytes
<1>2. PICK f : f = Append(p, Newline)
    OBVIOUS
<1>3. f = Framed(p)
    BY <1>2 DEF Framed, LineBytes
<1>4. Longer(f, p, Newline, Bytes)
    BY <1>1, <1>2, AppendIs
<1>5. LineFrame(f, p)
    BY <1>1, <1>4 DEF Longer, LineFrame
<1> QED BY <1>3, <1>5

LEMMA Length32Framed == ASSUME NEW p \in Payloads, framing = "length32" PROVE Length32Frame(Framed(p), p)
<1>1. p \in Seq(Bytes) /\ Len(p) \in Nat
    BY PayloadAssumption DEF Bytes
<1>2. PICK h : h = Prefix(Len(p))
    OBVIOUS
<1>3. PICK f : f = h \o p
    OBVIOUS
<1>4. h \in Seq(Bytes) /\ Len(h) = Width /\ Width \in Nat \ {0}
    BY <1>1, <1>2, PrefixIs, BaseAssumption
<1>5. f = Framed(p)
    BY <1>2, <1>3 DEF Framed, Length32Bytes
<1>6. Joined(f, h, p, Bytes)
    BY <1>1, <1>3, <1>4, ConcatIs
<1>7. Length32Frame(f, p)
    BY <1>1, <1>2, <1>4, <1>6 DEF Joined, Length32Frame
<1> QED BY <1>5, <1>7

LEMMA FramedIs ==
    ASSUME NEW p \in Payloads, framing \in {"line", "length32"}
    PROVE  Framed(p) \in Seq(Bytes) /\ Len(Framed(p)) \in Nat \ {0}
BY LineFramed, Length32Framed, BaseAssumption DEF LineFrame, Length32Frame

(* The bytes of one frame in the stream. *)
LEMMA FrameAt ==
    ASSUME framing \in {"line", "length32"}, written \in Seq(Payloads), NEW S, NEW at, Laid(S, at),
           NEW e \in 0..(Len(written) - 1)
    PROVE  /\ at[e] \in Nat /\ at[e + 1] \in Nat /\ at[e + 1] = at[e] + Len(Framed(written[e + 1])) /\ at[e + 1] <= Len(S)
           /\ \A k \in 1..Len(Framed(written[e + 1])) : S[at[e] + k] = Framed(written[e + 1])[k]
<1>1. e + 1 \in 1..Len(written) /\ (e + 1) - 1 = e /\ Len(written) \in Nat
    OBVIOUS
<1>2. Window(Framed(written[e + 1]), S, at[e], at[e + 1])
    BY <1>1 DEF Laid
<1>3. S \in Seq(Bytes) /\ Len(S) \in Nat
    BY DEF Laid
<1> QED BY <1>2, <1>3 DEF Window

(* A reader of lines that stands at the start of a frame: the next newline    *)
(* ends that frame, and without one the frame has not come to its end.        *)
LineEnds(w, from, e, x, at) ==
    \A k \in (from + 1)..Len(w) : NewlineAt(w, from, k) =>
        e < Len(written) /\ x + k = at[e + 1] /\ SubSeq(w, from + 1, k - 1) = written[e + 1]

LEMMA LineFound ==
    ASSUME framing = "line", written \in Seq(Payloads), Sendable, NEW S, NEW at, Laid(S, at),
           NEW e \in 0..Len(written), NEW w, NEW x, NEW d, Window(w, S, x, d),
           NEW from \in 0..Len(w), x + from = at[e]
    PROVE  LineEnds(w, from, e, x, at)
<1> SUFFICES ASSUME NEW k \in (from + 1)..Len(w), NewlineAt(w, from, k)
             PROVE  e < Len(written) /\ x + k = at[e + 1] /\ SubSeq(w, from + 1, k - 1) = written[e + 1]
    BY DEF LineEnds
<1>0. /\ w \in Seq(Bytes) /\ x \in Nat /\ d \in x..Len(S) /\ Len(w) = d - x /\ Len(w) \in Nat
      /\ \A j \in 1..Len(w) : w[j] = S[x + j]
      /\ S \in Seq(Bytes) /\ Len(S) \in Nat /\ at[Len(written)] = Len(S) /\ Len(written) \in Nat
    BY DEF Window, Laid
<1>1. e < Len(written)
    <2>1. CASE e = Len(written)
        BY <1>0, <2>1
    <2> QED BY <1>0, <2>1
<1>2. PICK p, f : p = written[e + 1] /\ f = Framed(p)
    OBVIOUS
<1>3. /\ at[e] \in Nat /\ at[e + 1] = at[e] + Len(f)
      /\ \A j \in 1..Len(f) : S[at[e] + j] = f[j]
    BY <1>0, <1>1, <1>2, FrameAt
<1>4. e + 1 \in 1..Len(written) /\ from \in Nat /\ Len(f) \in Nat /\ p \in Payloads /\ LineFrame(f, p)
    <2>1. e + 1 \in 1..Len(written)
        BY <1>0, <1>1
    <2>2. p \in Payloads
        BY <1>2, <2>1 DEF Sendable
    <2>3. LineFrame(f, p)
        BY <1>2, <2>2, LineFramed
    <2> QED BY <1>0, <2>1, <2>2, <2>3 DEF LineFrame
<1>5. /\ p \in Seq(Bytes) /\ Len(p) \in Nat /\ Len(f) = Len(p) + 1 /\ f[Len(p) + 1] = Newline
      /\ \A j \in 1..Len(p) : f[j] = p[j]
    BY <1>4 DEF LineFrame
<1>10. \A j \in 1..Len(p) : p[j] # Newline
    BY <1>2, <1>4 DEF Sendable, Carries
<1>6. \A j \in 1..Len(f) : from + j <= Len(w) => w[from + j] = f[j]
    <2> SUFFICES ASSUME NEW j \in 1..Len(f), from + j <= Len(w) PROVE w[from + j] = f[j]
        OBVIOUS
    <2>1. from + j \in 1..Len(w) /\ x + (from + j) = at[e] + j
        BY <1>0, <1>3, <1>5
    <2> QED BY <1>0, <1>3, <2>1
<1>7. w[k] = Newline /\ \A j \in (from + 1)..(k - 1) : w[j] # Newline
    BY DEF NewlineAt
<1>8. k = from + (Len(p) + 1)
    <2>1. CASE k < from + (Len(p) + 1)
        <3>1. PICK j \in 1..Len(p) : k = from + j
            <4>1. k - from \in 1..Len(p) /\ k = from + (k - from)
                BY <1>0, <1>4, <1>5, <2>1
            <4> QED BY <4>1
        <3>2. j \in 1..Len(f) /\ k <= Len(w)
            BY <1>0, <1>4, <1>5
        <3>3. w[k] = p[j]
            BY <1>5, <1>6, <3>1, <3>2
        <3> QED BY <1>7, <1>10, <3>3
    <2>2. CASE k > from + (Len(p) + 1)
        <3>1. PICK j : j = from + (Len(p) + 1)
            OBVIOUS
        <3>2. j \in (from + 1)..(k - 1) /\ j <= Len(w) /\ Len(p) + 1 \in 1..Len(f)
            BY <1>0, <1>4, <1>5, <2>2, <3>1
        <3>3. w[j] = Newline
            BY <1>5, <1>6, <3>1, <3>2
        <3> QED BY <1>7, <3>2, <3>3
    <2>3. k \in Int /\ Len(p) + 1 \in Int /\ from + (Len(p) + 1) \in Int
        BY <1>0, <1>4, <1>5
    <2> QED BY <2>1, <2>2, <2>3
<1>9. SubSeq(w, from + 1, k - 1) = p
    <2>1. PICK v : v = SubSeq(w, from + 1, k - 1)
        OBVIOUS
    <2>2. from + 1 \in 1..Len(w) /\ k - 1 \in from..Len(w) /\ (k - 1) - from = Len(p)
        BY <1>0, <1>4, <1>5, <1>8
    <2>6. from \in 0..Len(w) /\ k - 1 \in from..Len(w) /\ v = SubSeq(w, from + 1, k - 1)
        BY <2>1, <2>2
    <2>7. Piece(v, w, from, k - 1, Bytes)
        BY <1>0, <2>6, PieceIs
    <2>3. v \in Seq(Bytes) /\ Len(v) = Len(p) /\ \A j \in 1..Len(p) : v[j] = w[from + j]
        BY <2>2, <2>7 DEF Piece
    <2>5. \A j \in 1..Len(p) : v[j] = p[j]
        <3> SUFFICES ASSUME NEW j \in 1..Len(p) PROVE v[j] = p[j]
            OBVIOUS
        <3>1. j \in 1..Len(f) /\ from + j <= Len(w)
            BY <1>0, <1>4, <1>5, <1>8
        <3>2. w[from + j] = f[j]
            BY <1>6, <3>1
        <3>3. v[j] = w[from + j] /\ f[j] = p[j]
            BY <1>5, <2>3
        <3> QED BY <3>2, <3>3
    <2>8. v = p
        BY <1>5, <2>3, <2>5
    <2> QED BY <2>1, <2>8
<1> QED BY <1>0, <1>1, <1>2, <1>3, <1>4, <1>5, <1>8, <1>9

LEMMA LineUnfinished ==
    ASSUME framing = "line", written \in Seq(Payloads), Sendable, NEW S, NEW at, Laid(S, at),
           NEW e \in 0..(Len(written) - 1), NEW w, NEW x, NEW d, Window(w, S, x, d),
           NEW from \in 0..Len(w), x + from = at[e], ~HasNewline(w, from)
    PROVE  d < at[e + 1] /\ (from = 0 => IsPrefix(w, written[e + 1]))
<1>0. /\ w \in Seq(Bytes) /\ x \in Nat /\ d \in x..Len(S) /\ Len(w) = d - x /\ Len(w) \in Nat
      /\ \A j \in 1..Len(w) : w[j] = S[x + j]
      /\ S \in Seq(Bytes) /\ Len(S) \in Nat /\ Len(written) \in Nat
    BY DEF Window, Laid
<1>2. PICK p, f : p = written[e + 1] /\ f = Framed(p)
    OBVIOUS
<1>3. /\ at[e] \in Nat /\ at[e + 1] = at[e] + Len(f)
      /\ \A j \in 1..Len(f) : S[at[e] + j] = f[j]
    BY <1>0, <1>2, FrameAt
<1>4. e + 1 \in 1..Len(written) /\ from \in Nat /\ Len(f) \in Nat /\ p \in Payloads /\ LineFrame(f, p)
    <2>1. e + 1 \in 1..Len(written)
        BY <1>0
    <2>2. p \in Payloads
        BY <1>2, <2>1 DEF Sendable
    <2>3. LineFrame(f, p)
        BY <1>2, <2>2, LineFramed
    <2>4. Len(f) \in Nat
        BY <2>3 DEF LineFrame
    <2>5. from \in Nat
        BY <1>0
    <2> QED BY <2>1, <2>2, <2>3, <2>4, <2>5
<1>5. /\ p \in Seq(Bytes) /\ Len(p) \in Nat /\ Len(f) = Len(p) + 1 /\ f[Len(p) + 1] = Newline
      /\ \A j \in 1..Len(p) : f[j] = p[j]
    BY <1>4 DEF LineFrame
<1>6. \A j \in 1..Len(f) : from + j <= Len(w) => w[from + j] = f[j]
    <2> SUFFICES ASSUME NEW j \in 1..Len(f), from + j <= Len(w) PROVE w[from + j] = f[j]
        OBVIOUS
    <2>1. from + j \in 1..Len(w) /\ x + (from + j) = at[e] + j
        BY <1>0, <1>3, <1>5
    <2> QED BY <1>0, <1>3, <2>1
<1>7. d < at[e + 1]
    <2> SUFFICES ASSUME ~(d < at[e + 1]) PROVE FALSE
        OBVIOUS
    <2>1. PICK k : k = from + (Len(p) + 1)
        OBVIOUS
    <2>2. k \in (from + 1)..Len(w)
        BY <1>0, <1>3, <1>5, <2>1
    <2>3. w[k] = Newline
        BY <1>0, <1>5, <1>6, <2>1, <2>2
    <2> QED BY <2>2, <2>3 DEF HasNewline
<1>8. ASSUME from = 0 PROVE IsPrefix(w, p)
    <2>1. Len(w) <= Len(p)
        BY <1>0, <1>3, <1>5, <1>7, <1>8
    <2>2. \A j \in 1..Len(w) : w[j] = p[j]
        <3> SUFFICES ASSUME NEW j \in 1..Len(w) PROVE w[j] = p[j]
            OBVIOUS
        <3>1. j \in 1..Len(p) /\ j \in 1..Len(f) /\ from + j = j /\ j <= Len(w)
            BY <1>0, <1>5, <1>8, <2>1
        <3>2. w[from + j] = f[j]
            BY <1>6, <3>1
        <3> QED BY <1>5, <3>1, <3>2
    <2>3. PICK v : v = SubSeq(p, 1, Len(w))
        OBVIOUS
    <2>4. v \in Seq(Bytes) /\ Len(v) = Len(w) /\ \A j \in 1..Len(w) : v[j] = p[j]
        BY <1>0, <1>5, <2>1, <2>3
    <2>5. SubSeq(w, 1, Len(w)) = w
        BY <1>0
    <2>6. v = w
        BY <1>0, <2>2, <2>4
    <2> QED BY <2>1, <2>3, <2>5, <2>6 DEF IsPrefix
<1> QED BY <1>2, <1>7, <1>8

(* The same for a reader of prefixed frames. *)
Length32Ends(w, e, x, d, at) ==
    /\ Complete(w) => /\ e < Len(written) /\ x + (Width + Decoded(w)) = at[e + 1]
                      /\ Width + Decoded(w) \in 1..Len(w)
                      /\ SubSeq(w, Width + 1, Width + Decoded(w)) = written[e + 1]
    /\ ~Complete(w) /\ e < Len(written) => d < at[e + 1]

LEMMA Length32Found ==
    ASSUME framing = "length32", written \in Seq(Payloads), Sendable, NEW S, NEW at, Laid(S, at),
           NEW e \in 0..Len(written), NEW w, NEW x, NEW d, Window(w, S, x, d), x = at[e]
    PROVE  Length32Ends(w, e, x, d, at)
<1>0. /\ w \in Seq(Bytes) /\ x \in Nat /\ d \in x..Len(S) /\ Len(w) = d - x /\ Len(w) \in Nat
      /\ \A j \in 1..Len(w) : w[j] = S[x + j]
      /\ S \in Seq(Bytes) /\ Len(S) \in Nat /\ at[Len(written)] = Len(S) /\ Len(written) \in Nat
      /\ Width \in Nat \ {0}
    BY BaseAssumption DEF Window, Laid
<1>1. CASE e = Len(written)
    <2>1. Len(w) = 0
        BY <1>0, <1>1
    <2> QED BY <1>0, <1>1, <2>1 DEF Complete, Length32Ends
<1>2. CASE e < Len(written)
    <2>1. PICK p, f : p = written[e + 1] /\ f = Framed(p)
        OBVIOUS
    <2>2. /\ at[e + 1] = at[e] + Len(f) /\ at[e] \in Nat
          /\ \A j \in 1..Len(f) : S[at[e] + j] = f[j]
        BY <1>0, <1>2, <2>1, FrameAt
    <2>0. e + 1 \in 1..Len(written)
        BY <1>0, <1>2
    <2>3. p \in Payloads /\ Len(p) < Power[Width]
        BY <2>0, <2>1 DEF Sendable, Carries
    <2>4. /\ p \in Seq(Bytes) /\ Len(p) \in Nat /\ Len(f) = Width + Len(p)
          /\ \A k \in 1..Width : f[k] = Prefix(Len(p))[k]
          /\ \A k \in 1..Len(p) : f[Width + k] = p[k]
        <3>1. Length32Frame(f, p)
            BY <2>1, <2>3, Length32Framed
        <3> QED BY <3>1 DEF Length32Frame
    <2>5. ASSUME Len(w) >= Width PROVE Decoded(w) = Len(p)
        <3>1. \A k \in 1..Width : w[k] = Prefix(Len(p))[k]
            <4> SUFFICES ASSUME NEW k \in 1..Width PROVE w[k] = Prefix(Len(p))[k]
                OBVIOUS
            <4>1. k \in 1..Len(w) /\ k \in 1..Len(f) /\ x + k = at[e] + k
                BY <1>0, <2>4, <2>5
            <4>2. w[k] = f[k]
                BY <1>0, <2>2, <4>1
            <4> QED BY <2>4, <4>2
        <3> QED BY <2>3, <2>4, <3>1, PrefixRoundTrip
    <2>6. ASSUME Complete(w)
          PROVE  /\ x + (Width + Decoded(w)) = at[e + 1] /\ Width + Decoded(w) \in 1..Len(w)
                 /\ SubSeq(w, Width + 1, Width + Decoded(w)) = p
        <3>1. Decoded(w) = Len(p) /\ Len(w) >= Width + Len(p)
            BY <2>5, <2>6 DEF Complete
        <3>2. PICK v : v = SubSeq(w, Width + 1, Width + Len(p))
            OBVIOUS
        <3>6. Width + 1 \in 1..(Len(w) + 1) /\ Width + Len(p) \in Width..Len(w) /\ (Width + Len(p)) - Width = Len(p)
            BY <1>0, <2>4, <3>1
        <3>7. Piece(v, w, Width, Width + Len(p), Bytes)
            <4>1. Width \in 0..Len(w)
                BY <1>0, <3>6
            <4> QED BY <1>0, <3>2, <3>6, <4>1, PieceIs
        <3>3. v \in Seq(Bytes) /\ Len(v) = Len(p) /\ \A j \in 1..Len(v) : v[j] = w[Width + j]
            BY <3>6, <3>7 DEF Piece
        <3>4. \A j \in 1..Len(p) : v[j] = p[j]
            <4> SUFFICES ASSUME NEW j \in 1..Len(p) PROVE v[j] = p[j]
                OBVIOUS
            <4>1. Width + j \in 1..Len(w) /\ Width + j \in 1..Len(f)
                BY <1>0, <2>4, <3>1
            <4>2. w[Width + j] = f[Width + j]
                BY <1>0, <2>2, <4>1
            <4> QED BY <2>4, <3>3, <4>2
        <3>5. v = p
            BY <2>4, <3>3, <3>4
        <3> QED BY <1>0, <2>2, <2>4, <3>1, <3>2, <3>5
    <2>7. ASSUME ~Complete(w) PROVE d < at[e + 1]
        <3>1. CASE Len(w) >= Width
            BY <1>0, <2>2, <2>4, <2>5, <2>7, <3>1 DEF Complete
        <3>2. CASE ~(Len(w) >= Width)
            BY <1>0, <2>2, <2>4, <3>2
        <3> QED BY <3>1, <3>2
    <2> QED BY <1>2, <2>1, <2>6, <2>7 DEF Length32Ends
<1> QED BY <1>0, <1>1, <1>2

-----------------------------------------------------------------------------
(* The invariant.                                                             *)
Kinds ==
    /\ framing \in {"line", "length32"} /\ written \in Seq(Payloads) /\ Sendable
    /\ start \in 0..Len(buffer)
    /\ cut \in BOOLEAN /\ eof \in BOOLEAN /\ pushing \in BOOLEAN /\ done \in BOOLEAN
    /\ cut => eof
    /\ emitted \in Seq(Seq(Bytes)) /\ frames \in Seq(Seq(Bytes))

(* The first n of what a reader gave out are what was written. *)
Copies(out, n) == n <= Len(written) /\ \A k \in 1..n : out[k] = written[k]

(* The parser stands at the end of the last frame it emitted, and between two *)
(* chunks it is short of the end of the next one.                             *)
ParserAt(at, d, b) ==
    /\ Copies(emitted, Len(emitted)) /\ b + start = at[Len(emitted)]
    /\ framing = "length32" => start = 0
    /\ ~pushing => start = 0 /\ (Len(emitted) < Len(written) => d < at[Len(emitted) + 1])

(* The framer stands at the end of the last frame it read, or it has read all *)
(* there is, or it has taken a last line that was cut for a line.             *)
ReaderOn(at, i) == ~done /\ Copies(frames, Len(frames)) /\ i = at[Len(frames)]
ReaderOver      == /\ done /\ InputEnded /\ input = <<>> /\ Copies(frames, Len(frames))
                   /\ ~cut => Len(frames) = Len(written)
ReaderTail      == /\ cut /\ framing = "line" /\ InputEnded /\ input = <<>>
                   /\ frames # <<>> /\ Len(frames) <= Len(written) /\ Copies(frames, Len(frames) - 1)
                   /\ IsPrefix(frames[Len(frames)], written[Len(frames)])

(* All that is written is one stream S; m bytes of it are, or will be, read,  *)
(* d have been delivered, the parser keeps those from b on and the istream    *)
(* those from i on.                                                           *)
Streams(S, at, m, d, b, i) ==
    /\ Laid(S, at) /\ Window(pipe, S, d, m) /\ Window(buffer, S, b, d) /\ Window(input, S, i, d)
    /\ ~cut => m = Len(S)
    /\ ParserAt(at, d, b)
    /\ ReaderOn(at, i) \/ ReaderOver \/ ReaderTail

FlowInv == Kinds /\ \E S, at, m, d, b, i : Streams(S, at, m, d, b, i)

LEMMA SameLaid ==
    ASSUME NEW S, NEW at, Laid(S, at), UNCHANGED <<framing, written>>
    PROVE  Laid(S, at)' /\ (Sendable => Sendable')
<1>1. \A j \in 1..Len(written) : Framed(written[j])' = Framed(written[j])
    BY DEF Framed, LineBytes, Length32Bytes, Prefix
<1>2. Sendable => Sendable'
    BY DEF Sendable, Carries
<1>3. Laid(S, at)'
    BY <1>1 DEF Laid, Window
<1> QED BY <1>2, <1>3

(* What the windows and the layout say of sizes. *)
LEMMA Sizes ==
    ASSUME Kinds, NEW S, NEW at, NEW m, NEW d, NEW b, NEW i, Streams(S, at, m, d, b, i)
    PROVE  /\ S \in Seq(Bytes) /\ Len(S) \in Nat /\ m \in 0..Len(S) /\ d \in 0..m /\ b \in 0..d /\ i \in 0..d
           /\ pipe \in Seq(Bytes) /\ buffer \in Seq(Bytes) /\ input \in Seq(Bytes)
           /\ Len(pipe) = m - d /\ Len(buffer) = d - b /\ Len(input) = d - i
           /\ Len(written) \in Nat /\ Len(emitted) \in 0..Len(written) /\ Len(frames) \in 0..Len(written)
           /\ at \in [0..Len(written) -> Nat] /\ at[Len(written)] = Len(S)
           /\ \A j \in 0..Len(written) : at[j] <= Len(S)
<1>1. /\ S \in Seq(Bytes) /\ at \in [0..Len(written) -> Nat] /\ at[Len(written)] = Len(S)
      /\ \A j, k \in 0..Len(written) : j < k => at[j] < at[k]
    BY DEF Streams, Laid
<1>2. /\ pipe \in Seq(Bytes) /\ d \in Nat /\ m \in d..Len(S) /\ Len(pipe) = m - d
      /\ buffer \in Seq(Bytes) /\ b \in Nat /\ d \in b..Len(S) /\ Len(buffer) = d - b
      /\ input \in Seq(Bytes) /\ i \in Nat /\ d \in i..Len(S) /\ Len(input) = d - i
    BY DEF Streams, Window
<1>3. Len(S) \in Nat /\ Len(written) \in Nat /\ Len(emitted) \in Nat /\ Len(frames) \in Nat
    BY <1>1 DEF Kinds
<1>4. Len(emitted) <= Len(written) /\ Len(frames) <= Len(written)
    BY DEF Streams, ParserAt, Copies, ReaderOn, ReaderOver, ReaderTail
<1>5. \A j \in 0..Len(written) : at[j] <= Len(S)
    <2> SUFFICES ASSUME NEW j \in 0..Len(written) PROVE at[j] <= Len(S)
        OBVIOUS
    <2>1. CASE j = Len(written)
        BY <1>1, <1>3, <2>1
    <2>2. CASE j < Len(written)
        BY <1>1, <1>3, <2>2
    <2> QED BY <1>3, <2>1, <2>2
<1> QED BY <1>1, <1>2, <1>3, <1>4, <1>5

LEMMA InitFlow == Init => FlowInv
<1> SUFFICES ASSUME Init PROVE FlowInv
    OBVIOUS
<1>1. PICK at : at = [j \in 0..0 |-> 0]
    OBVIOUS
<1>2. Kinds
    <2>1. Len(written) = 0 /\ Len(buffer) = 0 /\ written \in Seq(Payloads)
        BY DEF Init
    <2>2. emitted \in Seq(Seq(Bytes)) /\ frames \in Seq(Seq(Bytes))
        BY DEF Init
    <2>3. Sendable
        BY <2>1 DEF Sendable
    <2>4. framing \in {"line", "length32"} /\ start \in 0..Len(buffer)
        BY <2>1 DEF Init
    <2>5. cut \in BOOLEAN /\ eof \in BOOLEAN /\ pushing \in BOOLEAN /\ done \in BOOLEAN /\ (cut => eof)
        BY DEF Init
    <2> QED BY <2>1, <2>2, <2>3, <2>4, <2>5 DEF Kinds
<1>3. Laid(<<>>, at)
    BY <1>1 DEF Init, Laid
<1>4. Window(<<>>, <<>>, 0, 0)
    BY DEF Window
<1>5. ParserAt(at, 0, 0) /\ ReaderOn(at, 0)
    BY <1>1 DEF Init, ParserAt, ReaderOn, Copies
<1>6. Streams(<<>>, at, 0, 0, 0, 0)
    BY <1>3, <1>4, <1>5 DEF Init, Streams
<1> QED BY <1>2, <1>6 DEF FlowInv

-----------------------------------------------------------------------------
(* The steps.                                                                 *)
(* One more of what was written is given out. *)
LEMMA CopyNext ==
    ASSUME NEW out \in Seq(Seq(Bytes)), NEW new, Copies(out, Len(out)), Len(out) < Len(written),
           written \in Seq(Payloads), new = Append(out, written[Len(out) + 1])
    PROVE  new \in Seq(Seq(Bytes)) /\ Len(new) = Len(out) + 1 /\ Copies(new, Len(new))
<1>1. Len(written) \in Nat /\ Len(out) \in Nat /\ Len(out) + 1 \in 1..Len(written)
    OBVIOUS
<1>2. PICK p \in Seq(Bytes) : p = written[Len(out) + 1]
    BY <1>1, PayloadAssumption DEF Bytes
<1>3. Longer(new, out, p, Seq(Bytes))
    BY <1>2, AppendIs
<1>4. new \in Seq(Seq(Bytes)) /\ Len(new) = Len(out) + 1 /\ new[Len(out) + 1] = p /\ \A k \in 1..Len(out) : new[k] = out[k]
    BY <1>3 DEF Longer
<1>5. \A k \in 1..Len(new) : new[k] = written[k]
    <2> SUFFICES ASSUME NEW k \in 1..Len(new) PROVE new[k] = written[k]
        OBVIOUS
    <2>1. CASE k = Len(out) + 1
        BY <1>2, <1>4, <2>1
    <2>2. CASE k \in 1..Len(out)
        BY <1>4, <2>2 DEF Copies
    <2> QED BY <1>1, <1>4, <2>1, <2>2
<1> QED BY <1>1, <1>4, <1>5 DEF Copies

LEMMA WriteFlow ==
    ASSUME FlowInv, NEW p \in Payloads, Write(p)
    PROVE  FlowInv'
<1>1. PICK S, at, m, d, b, i : Streams(S, at, m, d, b, i)
    BY DEF FlowInv
<1>2. /\ ~eof /\ Carries(p) /\ written' = Append(written, p) /\ pipe' = pipe \o Framed(p)
      /\ UNCHANGED <<framing, cut, eof, buffer, start, pushing, emitted, input, frames, done>>
    BY DEF Write
<1>3. Kinds
    BY DEF FlowInv
<1>4. /\ S \in Seq(Bytes) /\ Len(S) \in Nat /\ m \in 0..Len(S) /\ d \in 0..m /\ b \in 0..d /\ i \in 0..d
      /\ Len(written) \in Nat /\ Len(emitted) \in 0..Len(written) /\ Len(frames) \in 0..Len(written)
      /\ at \in [0..Len(written) -> Nat] /\ at[Len(written)] = Len(S)
      /\ \A j \in 0..Len(written) : at[j] <= Len(S)
    BY <1>1, <1>3, Sizes
<1>5. PICK n : n = Len(written)
    OBVIOUS
<1>6. Longer(written', written, p, Payloads)
    BY <1>2, <1>3, AppendIs DEF Kinds
<1>7. /\ written' \in Seq(Payloads) /\ Len(written') = n + 1 /\ written'[n + 1] = p /\ n \in Nat
      /\ \A j \in 1..n : written'[j] = written[j]
    BY <1>5, <1>6 DEF Longer
<1>8. PICK f : f = Framed(p)
    OBVIOUS
<1>9. f \in Seq(Bytes) /\ Len(f) \in Nat \ {0}
    BY <1>3, <1>8, FramedIs DEF Kinds
<1>10. PICK T : T = S \o f
    OBVIOUS
<1>11. Joined(T, S, f, Bytes)
    BY <1>4, <1>9, <1>10, ConcatIs
<1>12. T \in Seq(Bytes) /\ Len(T) = Len(S) + Len(f) /\ Len(T) > Len(S) /\ Len(T) \in Nat
    BY <1>4, <1>9, <1>11 DEF Joined
<1>13. PICK ends : ends = [j \in 0..(n + 1) |-> IF j = n + 1 THEN Len(T) ELSE at[j]]
    OBVIOUS
<1>14. /\ ends \in [0..(n + 1) -> Nat] /\ ends[n + 1] = Len(T) /\ \A j \in 0..n : ends[j] = at[j]
    BY <1>4, <1>5, <1>7, <1>12, <1>13
<1>16. \A w, x, y : Window(w, S, x, y) => Window(w, T, x, y)
    BY <1>4, <1>9, <1>10, WindowStays
<1>17. Laid(T, ends)'
    <2>1. \A j, k \in 0..(n + 1) : j < k => ends[j] < ends[k]
        <3> SUFFICES ASSUME NEW j \in 0..(n + 1), NEW k \in 0..(n + 1), j < k PROVE ends[j] < ends[k]
            OBVIOUS
        <3>1. j \in 0..n /\ ends[j] = at[j] /\ at[j] \in Nat /\ at[j] <= Len(S)
            BY <1>4, <1>5, <1>7, <1>14
        <3>2. CASE k = n + 1
            BY <1>4, <1>12, <1>14, <3>1, <3>2
        <3>3. CASE k \in 0..n
            <4>1. at[j] < at[k]
                BY <1>1, <1>5, <3>1, <3>3 DEF Streams, Laid
            <4> QED BY <1>14, <3>1, <3>3, <4>1
        <3> QED BY <1>7, <3>2, <3>3
    <2>2. ASSUME NEW j \in 1..(n + 1) PROVE Window(Framed(written'[j]), T, ends[j - 1], ends[j])
        <3>1. CASE j = n + 1
            <4>1. j - 1 = n /\ ends[j - 1] = Len(S)
                BY <1>4, <1>5, <1>7, <1>14, <3>1
            <4>2. Window(f, T, Len(S), Len(T))
                BY <1>4, <1>9, <1>10, WindowOfMore
            <4> QED BY <1>7, <1>8, <1>14, <3>1, <4>1, <4>2
        <3>2. CASE j \in 1..n
            <4>1. Window(Framed(written[j]), S, at[j - 1], at[j])
                BY <1>1, <1>5, <3>2 DEF Streams, Laid
            <4>2. ends[j - 1] = at[j - 1] /\ ends[j] = at[j] /\ written'[j] = written[j]
                BY <1>7, <1>14, <3>2
            <4> QED BY <1>16, <4>1, <4>2
        <3> QED BY <1>7, <3>1, <3>2
    <2>3. ends[0] = 0
        BY <1>1, <1>7, <1>14 DEF Streams, Laid
    <2>4. \A j \in 1..(n + 1) : Framed(written[j])' = Framed(written'[j])
        BY <1>2 DEF Framed, LineBytes, Length32Bytes, Prefix
    <2>5. ASSUME NEW j \in 1..(n + 1) PROVE Window(Framed(written[j]), T, ends[j - 1], ends[j])'
        <3>1. PICK g : g = Framed(written'[j])
            OBVIOUS
        <3>2. g = Framed(written[j])' /\ Window(g, T, ends[j - 1], ends[j])
            BY <2>2, <2>4, <3>1
        <3> QED BY <3>2
    <2> QED BY <1>7, <1>12, <1>14, <2>1, <2>3, <2>5 DEF Laid
<1>18. Kinds'
    <2>1. Sendable'
        <3> SUFFICES ASSUME NEW j \in 1..(n + 1) PROVE written'[j] \in Payloads /\ Carries(written[j])'
            BY <1>7 DEF Sendable
        <3>0. Carries(written[j])' <=> Carries(written'[j])
            BY <1>2 DEF Carries
        <3>1. CASE j = n + 1
            <4>1. written'[j] = p
                BY <1>7, <3>1
            <4>2. Carries(written'[j])
                BY <1>2, <4>1
            <4> QED BY <3>0, <4>1, <4>2, Zenon
        <3>2. CASE j \in 1..n
            BY <1>3, <1>5, <1>7, <3>0, <3>2 DEF Kinds, Sendable
        <3> QED BY <1>7, <3>1, <3>2
    <2> QED BY <1>2, <1>3, <1>7, <2>1 DEF Kinds
<1>19. ~cut /\ m = Len(S)
    BY <1>1, <1>2, <1>3 DEF Kinds, Streams
<1>20. Window(pipe', T, d, Len(T))
    <2>1. Window(pipe, T, d, Len(S)) /\ Window(f, T, Len(S), Len(T))
        BY <1>1, <1>4, <1>9, <1>10, <1>16, <1>19, WindowOfMore DEF Streams
    <2>2. Window(pipe \o f, T, d, Len(T))
        BY <1>12, <2>1, WindowOfBoth
    <2> QED BY <1>2, <1>8, <2>2
<1>21. Window(buffer', T, b, d) /\ Window(input', T, i, d)
    BY <1>1, <1>2, <1>16 DEF Streams
<1>22. \A out, k : k \in Nat /\ Copies(out, k) => Copies(out, k)'
    BY <1>4, <1>5, <1>7 DEF Copies
<1>23. ParserAt(ends, d, b)'
    <2>1. Copies(emitted, Len(emitted))'
        <3>1. PICK k \in Nat : k = Len(emitted)
            BY <1>4
        <3> QED BY <1>1, <1>2, <1>22, <3>1 DEF Streams, ParserAt
    <2>2. ends[Len(emitted)] = at[Len(emitted)]
        BY <1>4, <1>5, <1>14
    <2>3. ASSUME ~pushing PROVE d < ends[Len(emitted) + 1]
        <3>1. CASE Len(emitted) = n
            BY <1>4, <1>12, <1>14, <3>1
        <3>2. CASE Len(emitted) < n
            <4>1. d < at[Len(emitted) + 1] /\ Len(emitted) + 1 \in 0..n
                BY <1>1, <1>4, <1>5, <1>7, <2>3, <3>2 DEF Streams, ParserAt
            <4> QED BY <1>14, <4>1
        <3> QED BY <1>4, <1>5, <3>1, <3>2
    <2> QED BY <1>1, <1>2, <2>1, <2>2, <2>3 DEF Streams, ParserAt
<1>24. ReaderOn(ends, i)'
    <2>1. ReaderOn(at, i)
        BY <1>1, <1>2 DEF Streams, ReaderOver, ReaderTail, InputEnded
    <2>2. Copies(frames, Len(frames))'
        <3>1. PICK k \in Nat : k = Len(frames)
            BY <1>4
        <3> QED BY <1>2, <1>22, <2>1, <3>1 DEF ReaderOn
    <2>3. ends[Len(frames)] = at[Len(frames)]
        BY <1>4, <1>5, <1>14
    <2> QED BY <1>2, <2>1, <2>2, <2>3 DEF ReaderOn
<1>25. Streams(T, ends, Len(T), d, b, i)'
    BY <1>17, <1>20, <1>21, <1>23, <1>24 DEF Streams, Window
<1> QED BY <1>18, <1>25 DEF FlowInv

(* A step that writes nothing and leaves what a reader gave out alone leaves  *)
(* that reader's place alone.                                                 *)
LEMMA SameCopies ==
    UNCHANGED written => \A out, n : Copies(out, n) => Copies(out, n)'
BY DEF Copies

LEMMA EndFlow ==
    ASSUME FlowInv, NEW n \in 0..Len(pipe), End(n)
    PROVE  FlowInv'
<1>1. PICK S, at, m, d, b, i : Streams(S, at, m, d, b, i)
    BY DEF FlowInv
<1>2. /\ ~eof /\ eof' = TRUE /\ pipe' = SubSeq(pipe, 1, n) /\ cut' = (n < Len(pipe))
      /\ UNCHANGED <<framing, written, buffer, start, pushing, emitted, input, frames, done>>
    BY DEF End
<1>3. Kinds
    BY DEF FlowInv
<1>4. S \in Seq(Bytes) /\ Len(pipe) \in Nat /\ pipe \in Seq(Bytes) /\ d \in Nat /\ m \in Nat /\ Len(pipe) = m - d
    BY <1>1, <1>3, Sizes
<1>5. Laid(S, at)' /\ Sendable'
    BY <1>1, <1>2, <1>3, SameLaid DEF Streams, Kinds
<1>6. Kinds'
    BY <1>2, <1>3, <1>5 DEF Kinds
<1>7. Window(pipe', S, d, d + n)
    <2>1. Window(SubSeq(pipe, 0 + 1, n), S, d + 0, d + n)
        BY <1>1, <1>4, WindowOfSub DEF Streams
    <2> QED BY <1>2, <1>4, <2>1
<1>8. Window(buffer, S, b, d)' /\ Window(input, S, i, d)'
    BY <1>1, <1>2 DEF Streams
<1>9. ~cut' => d + n = Len(S)
    <2> SUFFICES ASSUME ~cut' PROVE d + n = Len(S)
        OBVIOUS
    <2>1. n = Len(pipe)
        <3>1. ~(n < Len(pipe))
            BY <1>2, Zenon
        <3> QED BY <1>4, <3>1
    <2>2. m = Len(S)
        BY <1>1, <1>2, <1>3 DEF Streams, Kinds
    <2> QED BY <1>4, <2>1, <2>2
<1>10. ParserAt(at, d, b)'
    BY <1>1, <1>2, SameCopies DEF Streams, ParserAt, Copies
<1>11. ReaderOn(at, i)'
    <2>1. ReaderOn(at, i)
        BY <1>1, <1>2 DEF Streams, ReaderOver, ReaderTail, InputEnded
    <2> QED BY <1>2, <2>1 DEF ReaderOn, Copies
<1>12. Streams(S, at, d + n, d, b, i)'
    BY <1>5, <1>7, <1>8, <1>9, <1>10, <1>11 DEF Streams
<1> QED BY <1>6, <1>12 DEF FlowInv

LEMMA DeliverFlow ==
    ASSUME FlowInv, NEW n \in 1..Len(pipe), Deliver(n)
    PROVE  FlowInv'
<1>1. PICK S, at, m, d, b, i : Streams(S, at, m, d, b, i)
    BY DEF FlowInv
<1>2. /\ ~pushing /\ pipe' = SubSeq(pipe, n + 1, Len(pipe)) /\ buffer' = buffer \o SubSeq(pipe, 1, n)
      /\ start' = 0 /\ pushing' = TRUE /\ input' = input \o SubSeq(pipe, 1, n)
      /\ UNCHANGED <<framing, written, cut, eof, emitted, frames, done>>
    BY DEF Deliver
<1>3. Kinds
    BY DEF FlowInv
<1>4. /\ S \in Seq(Bytes) /\ Len(pipe) \in Nat /\ pipe \in Seq(Bytes) /\ d \in Nat /\ m \in Nat
      /\ Len(pipe) = m - d /\ n \in 0..Len(pipe) /\ b \in Nat
    BY <1>1, <1>3, Sizes
<1>5. Laid(S, at)' /\ Sendable'
    BY <1>1, <1>2, <1>3, SameLaid DEF Streams, Kinds
<1>6. PICK chunk : chunk = SubSeq(pipe, 1, n)
    OBVIOUS
<1>7. Window(chunk, S, d, d + n)
    <2>1. Window(SubSeq(pipe, 0 + 1, n), S, d + 0, d + n)
        <3>1. Window(pipe, S, d, m) /\ 0 \in 0..Len(pipe) /\ n \in 0..Len(pipe)
            BY <1>1, <1>4 DEF Streams
        <3> QED BY <1>4, <3>1, WindowOfSub
    <2> QED BY <1>4, <1>6, <2>1
<1>8. Window(pipe', S, d + n, m)
    <2>1. Window(SubSeq(pipe, n + 1, Len(pipe)), S, d + n, d + Len(pipe))
        BY <1>1, <1>4, WindowOfSub DEF Streams
    <2>2. d + Len(pipe) = m
        BY <1>4
    <2> QED BY <1>2, <2>1, <2>2
<1>9. Window(buffer', S, b, d + n) /\ Window(input', S, i, d + n)
    <2>1. Window(buffer \o chunk, S, b, d + n)
        BY <1>1, <1>4, <1>7, WindowOfBoth DEF Streams
    <2>2. Window(input \o chunk, S, i, d + n)
        BY <1>1, <1>4, <1>7, WindowOfBoth DEF Streams
    <2> QED BY <1>2, <1>6, <2>1, <2>2
<1>10. Kinds'
    <2>1. Len(buffer') \in Nat
        BY <1>9 DEF Window
    <2> QED BY <1>2, <1>3, <1>5, <2>1 DEF Kinds
<1>11. ParserAt(at, d + n, b)'
    <2>1. start = 0
        BY <1>1, <1>2 DEF Streams, ParserAt
    <2> QED BY <1>1, <1>2, <2>1 DEF Streams, ParserAt, Copies
<1>12. ReaderOn(at, i)'
    <2>1. pipe # <<>>
        BY <1>4
    <2>2. ReaderOn(at, i)
        BY <1>1, <2>1 DEF Streams, ReaderOver, ReaderTail, InputEnded
    <2> QED BY <1>2, <2>2 DEF ReaderOn, Copies
<1>13. ~cut' => m = Len(S)
    BY <1>1, <1>2 DEF Streams
<1>14. Streams(S, at, m, d + n, b, i)'
    BY <1>5, <1>8, <1>9, <1>11, <1>12, <1>13 DEF Streams
<1> QED BY <1>10, <1>14 DEF FlowInv

(* A step of the parser alone: it is enough to say where it stands. *)
LEMMA ParserFlow ==
    ASSUME Kinds, NEW S, NEW at, NEW m, NEW d, NEW b, NEW i, Streams(S, at, m, d, b, i), NEW c,
           UNCHANGED <<framing, written, pipe, cut, eof, input, frames, done>>,
           Window(buffer', S, c, d), start' \in 0..Len(buffer'), pushing' \in BOOLEAN,
           emitted' \in Seq(Seq(Bytes)), ParserAt(at, d, c)'
    PROVE  FlowInv'
<1>1. Laid(S, at)' /\ Sendable'
    BY SameLaid DEF Streams, Kinds
<1>2. Kinds'
    BY <1>1 DEF Kinds
<1>3. Window(pipe, S, d, m)' /\ Window(input, S, i, d)' /\ (~cut' => m = Len(S))
    BY DEF Streams
<1>4. ReaderOn(at, i)' \/ ReaderOver' \/ ReaderTail'
    BY DEF Streams, ReaderOn, ReaderOver, ReaderTail, InputEnded, Copies
<1>5. Streams(S, at, m, d, c, i)'
    BY <1>1, <1>3, <1>4 DEF Streams
<1> QED BY <1>2, <1>5 DEF FlowInv

LEMMA DrainLineFlow ==
    ASSUME FlowInv, DrainLine
    PROVE  FlowInv'
<1>1. PICK S, at, m, d, b, i : Streams(S, at, m, d, b, i)
    BY DEF FlowInv
<1>2. /\ pushing /\ framing = "line"
      /\ UNCHANGED <<framing, written, pipe, cut, eof, input, frames, done>>
    BY DEF DrainLine
<1>3. Kinds /\ written \in Seq(Payloads) /\ Sendable /\ emitted \in Seq(Seq(Bytes)) /\ start \in 0..Len(buffer)
    BY DEF FlowInv, Kinds
<1>4. /\ S \in Seq(Bytes) /\ Len(buffer) \in Nat /\ buffer \in Seq(Bytes) /\ d \in Nat /\ b \in Nat
      /\ Len(buffer) = d - b /\ Len(written) \in Nat /\ Len(emitted) \in 0..Len(written) /\ start \in Nat
    BY <1>1, <1>3, Sizes
<1>5. PICK e : e = Len(emitted)
    OBVIOUS
<1>6. /\ Laid(S, at) /\ Window(buffer, S, b, d) /\ b + start = at[e] /\ Copies(emitted, Len(emitted))
    BY <1>1, <1>5 DEF Streams, ParserAt
<1>7. ASSUME NEW k \in (start + 1)..Len(buffer), NewlineAt(buffer, start, k),
             emitted' = Append(emitted, SubSeq(buffer, start + 1, k - 1)), start' = k, UNCHANGED <<buffer, pushing>>
      PROVE  FlowInv'
    <2>1. LineEnds(buffer, start, e, b, at)
        BY <1>2, <1>3, <1>4, <1>5, <1>6, LineFound
    <2>2. e < Len(written) /\ b + k = at[e + 1] /\ SubSeq(buffer, start + 1, k - 1) = written[e + 1]
        BY <1>7, <2>1 DEF LineEnds
    <2>3. emitted' = Append(emitted, written[e + 1])
        BY <1>7, <2>2
    <2>4. emitted' \in Seq(Seq(Bytes)) /\ Len(emitted') = e + 1 /\ Copies(emitted', Len(emitted'))
        BY <1>3, <1>5, <1>6, <2>2, <2>3, CopyNext
    <2>5. ParserAt(at, d, b)'
        BY <1>2, <1>7, <2>2, <2>4 DEF ParserAt, Copies
    <2>6. start' \in 0..Len(buffer') /\ Window(buffer', S, b, d) /\ pushing' \in BOOLEAN
        BY <1>2, <1>4, <1>6, <1>7
    <2> QED BY <1>1, <1>2, <1>3, <2>4, <2>5, <2>6, ParserFlow
<1>8. ASSUME ~HasNewline(buffer, start), buffer' = SubSeq(buffer, start + 1, Len(buffer)),
             pushing' = FALSE, start' = 0, UNCHANGED emitted
      PROVE  FlowInv'
    <2>0. PICK c : c = b + start
        OBVIOUS
    <2>1. Window(buffer', S, c, d)
        <3>1. Window(SubSeq(buffer, start + 1, Len(buffer)), S, b + start, b + Len(buffer))
            <4>1. Len(buffer) \in start..Len(buffer)
                BY <1>3, <1>4
            <4> QED BY <1>3, <1>4, <1>6, <4>1, WindowOfSub
        <3>2. b + Len(buffer) = d
            BY <1>4
        <3> QED BY <1>8, <2>0, <3>1, <3>2
    <2>2. e < Len(written) => d < at[e + 1]
        <3> SUFFICES ASSUME e < Len(written) PROVE d < at[e + 1]
            OBVIOUS
        <3>1. e \in 0..(Len(written) - 1)
            BY <1>4, <1>5
        <3> QED BY <1>2, <1>3, <1>6, <1>8, <3>1, LineUnfinished
    <2>3. ParserAt(at, d, c)'
        <3>1. c + start' = at[e]
            BY <1>4, <1>6, <1>8, <2>0
        <3>2. Copies(emitted, Len(emitted))'
            BY <1>2, <1>6, <1>8 DEF Copies
        <3> QED BY <1>2, <1>5, <1>8, <2>2, <3>1, <3>2 DEF ParserAt
    <2>4. Len(buffer') \in Nat
        BY <2>1 DEF Window
    <2>5. start' \in 0..Len(buffer') /\ pushing' \in BOOLEAN /\ emitted' \in Seq(Seq(Bytes))
        <3>1. start' \in 0..Len(buffer')
            <4>1. start' = 0
                BY <1>8
            <4> QED BY <2>4, <4>1
        <3>2. emitted' \in Seq(Seq(Bytes))
            BY <1>3, <1>8
        <3> QED BY <1>8, <3>1, <3>2
    <2>6. UNCHANGED <<framing, written, pipe, cut, eof, input, frames, done>>
        BY <1>2
    <2> QED BY <1>1, <1>3, <2>1, <2>3, <2>5, <2>6, ParserFlow
<1> QED BY <1>7, <1>8 DEF DrainLine

LEMMA DrainLength32Flow ==
    ASSUME FlowInv, DrainLength32
    PROVE  FlowInv'
<1>1. PICK S, at, m, d, b, i : Streams(S, at, m, d, b, i)
    BY DEF FlowInv
<1>2. /\ pushing /\ framing = "length32"
      /\ UNCHANGED <<framing, written, pipe, cut, eof, start, input, frames, done>>
    BY DEF DrainLength32
<1>3. Kinds /\ written \in Seq(Payloads) /\ Sendable /\ emitted \in Seq(Seq(Bytes))
    BY DEF FlowInv, Kinds
<1>4. /\ S \in Seq(Bytes) /\ Len(buffer) \in Nat /\ buffer \in Seq(Bytes) /\ d \in Nat /\ b \in Nat
      /\ Len(buffer) = d - b /\ Len(written) \in Nat /\ Len(emitted) \in 0..Len(written)
    BY <1>1, <1>3, Sizes
<1>5. PICK e : e = Len(emitted)
    OBVIOUS
<1>6. /\ Laid(S, at) /\ Window(buffer, S, b, d) /\ start = 0 /\ b = at[e] /\ Copies(emitted, Len(emitted))
    BY <1>1, <1>2, <1>4, <1>5 DEF Streams, ParserAt
<1>7. PICK total : total = Width + Decoded(buffer)
    OBVIOUS
<1>8. /\ Complete(buffer) => /\ e < Len(written) /\ b + total = at[e + 1] /\ total \in 1..Len(buffer)
                             /\ SubSeq(buffer, Width + 1, total) = written[e + 1]
      /\ ~Complete(buffer) /\ e < Len(written) => d < at[e + 1]
    <2>1. Length32Ends(buffer, e, b, d, at)
        BY <1>2, <1>3, <1>4, <1>5, <1>6, Length32Found
    <2> QED BY <1>7, <2>1 DEF Length32Ends
<1>9. CASE Complete(buffer)
    <2>1. /\ emitted' = Append(emitted, SubSeq(buffer, Width + 1, total))
          /\ buffer' = SubSeq(buffer, total + 1, Len(buffer)) /\ UNCHANGED pushing
        BY <1>7, <1>9 DEF DrainLength32
    <2>2. emitted' = Append(emitted, written[e + 1]) /\ e < Len(written)
        BY <1>8, <1>9, <2>1
    <2>3. emitted' \in Seq(Seq(Bytes)) /\ Len(emitted') = e + 1 /\ Copies(emitted', Len(emitted'))
        BY <1>3, <1>5, <1>6, <2>2, CopyNext
    <2>4. Window(buffer', S, b + total, d)
        <3>1. total \in 0..Len(buffer)
            BY <1>4, <1>8, <1>9
        <3>2. PICK n : n = Len(buffer)
            OBVIOUS
        <3>3. n \in total..Len(buffer) /\ S \in Seq(Bytes)
            BY <1>4, <3>1, <3>2
        <3>4. Window(SubSeq(buffer, total + 1, n), S, b + total, b + n)
            BY <1>6, <3>1, <3>3, WindowOfSub, Zenon
        <3>5. b + n = d
            BY <1>4, <3>2
        <3>6. buffer' = SubSeq(buffer, total + 1, n)
            BY <2>1, <3>2
        <3> QED BY <3>4, <3>5, <3>6, Zenon
    <2>5. ParserAt(at, d, b + total)'
        <3>1. (b + total) + start' = at[e + 1]
            BY <1>2, <1>4, <1>6, <1>8, <1>9
        <3> QED BY <1>2, <1>6, <2>1, <2>3, <3>1 DEF ParserAt, Copies
    <2>6. start' \in 0..Len(buffer') /\ pushing' \in BOOLEAN
        BY <1>2, <1>6, <2>1, <2>4 DEF Window
    <2> QED BY <1>1, <1>2, <1>3, <2>3, <2>4, <2>5, <2>6, ParserFlow
<1>10. CASE ~Complete(buffer)
    <2>1. pushing' = FALSE /\ UNCHANGED <<emitted, buffer>>
        BY <1>10 DEF DrainLength32
    <2>2. ParserAt(at, d, b)'
        BY <1>1, <1>2, <1>5, <1>6, <1>8, <1>10, <2>1 DEF Streams, ParserAt, Copies
    <2>3. Window(buffer', S, b, d) /\ start' \in 0..Len(buffer') /\ pushing' \in BOOLEAN /\ emitted' \in Seq(Seq(Bytes))
        <3>1. start' \in 0..Len(buffer')
            BY <1>2, <1>4, <1>6, <2>1
        <3>2. Window(buffer', S, b, d) /\ pushing' \in BOOLEAN /\ emitted' \in Seq(Seq(Bytes))
            BY <1>3, <1>6, <2>1
        <3> QED BY <3>1, <3>2
    <2> QED BY <1>1, <1>2, <1>3, <2>2, <2>3, ParserFlow
<1> QED BY <1>9, <1>10

(* A step of the framer alone. *)
LEMMA ReaderFlow ==
    ASSUME Kinds, NEW S, NEW at, NEW m, NEW d, NEW b, NEW i, Streams(S, at, m, d, b, i), NEW c,
           UNCHANGED <<framing, written, pipe, cut, eof, buffer, start, pushing, emitted>>,
           Window(input', S, c, d), done' \in BOOLEAN, frames' \in Seq(Seq(Bytes)),
           ReaderOn(at, c)' \/ ReaderOver' \/ ReaderTail'
    PROVE  FlowInv'
<1>1. Laid(S, at)' /\ Sendable'
    BY SameLaid DEF Streams, Kinds
<1>2. Kinds'
    BY <1>1 DEF Kinds
<1>3. Window(pipe, S, d, m)' /\ Window(buffer, S, b, d)' /\ (~cut' => m = Len(S)) /\ ParserAt(at, d, b)'
    BY DEF Streams, ParserAt, Copies
<1>4. Streams(S, at, m, d, b, c)'
    BY <1>1, <1>3 DEF Streams
<1> QED BY <1>2, <1>4 DEF FlowInv

(* The input that is read up comes to its end where the delivered bytes do.   *)
LEMMA NoInput ==
    ASSUME NEW S \in Seq(Bytes), NEW d \in 0..Len(S)
    PROVE  Window(<<>>, S, d, d)
<1>1. Len(S) \in Nat /\ Len(<<>>) = 0 /\ <<>> \in Seq(Bytes)
    OBVIOUS
<1> QED BY <1>1 DEF Window

(* At the end of an input that was not cut, all frames have been read. *)
LEMMA EndReached ==
    ASSUME Kinds, NEW S, NEW at, NEW m, NEW d, NEW b, NEW i, Streams(S, at, m, d, b, i), pipe = <<>>, ~cut,
           NEW e \in 0..Len(written), e < Len(written) => d < at[e + 1]
    PROVE  e = Len(written)
<1>1. /\ Len(S) \in Nat /\ m \in 0..Len(S) /\ d \in 0..m /\ Len(pipe) = m - d /\ Len(written) \in Nat
      /\ at \in [0..Len(written) -> Nat] /\ at[Len(written)] = Len(S)
      /\ \A j \in 0..Len(written) : at[j] <= Len(S)
    BY Sizes
<1>2. m = Len(S) /\ Len(pipe) = 0
    BY DEF Streams
<1>3. d = Len(S)
    BY <1>1, <1>2
<1>4. e < Len(written) => e + 1 \in 0..Len(written) /\ at[e + 1] \in Nat
    BY <1>1
<1> QED BY <1>1, <1>3, <1>4

LEMMA LineReadFlow ==
    ASSUME FlowInv, LineRead
    PROVE  FlowInv'
<1>1. PICK S, at, m, d, b, i : Streams(S, at, m, d, b, i)
    BY DEF FlowInv
<1>2. /\ framing = "line" /\ ~done
      /\ UNCHANGED <<framing, written, pipe, cut, eof, buffer, start, pushing, emitted>>
    BY DEF LineRead
<1>3. Kinds /\ written \in Seq(Payloads) /\ Sendable /\ frames \in Seq(Seq(Bytes)) /\ cut \in BOOLEAN
    BY DEF FlowInv, Kinds
<1>4. /\ S \in Seq(Bytes) /\ Len(S) \in Nat /\ Len(input) \in Nat /\ input \in Seq(Bytes) /\ d \in Nat /\ i \in Nat
      /\ d \in 0..Len(S) /\ Len(input) = d - i /\ Len(written) \in Nat /\ Len(frames) \in 0..Len(written)
      /\ at[Len(written)] = Len(S)
    BY <1>1, <1>3, Sizes
<1>5. PICK e : e = Len(frames)
    OBVIOUS
<1>6. Laid(S, at) /\ Window(input, S, i, d)
    BY <1>1 DEF Streams
<1>7. Window(<<>>, S, d, d)
    BY <1>4, NoInput
<1>8. ASSUME NEW k \in 1..Len(input), NewlineAt(input, 0, k), Got(SubSeq(input, 1, k - 1), k)
      PROVE  FlowInv'
    <2>1. frames' = Append(frames, SubSeq(input, 0 + 1, k - 1)) /\ input' = SubSeq(input, k + 1, Len(input)) /\ UNCHANGED done
        BY <1>8 DEF Got
    <2>2. ReaderOn(at, i)
        BY <1>1, <1>2, <1>4, <1>8 DEF Streams, ReaderOver, ReaderTail
    <2>3. i + 0 = at[e] /\ Copies(frames, Len(frames))
        BY <1>4, <1>5, <2>2 DEF ReaderOn
    <2>4. LineEnds(input, 0, e, i, at)
        <3>1. 0 \in 0..Len(input) /\ e \in 0..Len(written)
            BY <1>4, <1>5
        <3> QED BY <1>2, <1>3, <1>6, <2>3, <3>1, LineFound
    <2>5. e < Len(written) /\ i + k = at[e + 1] /\ SubSeq(input, 0 + 1, k - 1) = written[e + 1]
        BY <1>8, <2>4 DEF LineEnds
    <2>6. frames' = Append(frames, written[e + 1])
        BY <2>1, <2>5
    <2>7. frames' \in Seq(Seq(Bytes)) /\ Len(frames') = e + 1 /\ Copies(frames', Len(frames'))
        BY <1>3, <1>5, <2>3, <2>5, <2>6, CopyNext
    <2>8. Window(input', S, i + k, d)
        <3>1. k \in 0..Len(input) /\ Len(input) \in k..Len(input) /\ i + Len(input) = d
            BY <1>4
        <3>2. Window(SubSeq(input, k + 1, Len(input)), S, i + k, i + Len(input))
            BY <1>4, <1>6, <3>1, WindowOfSub
        <3> QED BY <2>1, <3>1, <3>2
    <2>9. ReaderOn(at, i + k)'
        BY <1>2, <2>1, <2>5, <2>7 DEF ReaderOn, Copies
    <2>10. done' \in BOOLEAN
        BY <1>2, <2>1 DEF Kinds, FlowInv
    <2> QED BY <1>1, <1>2, <1>3, <2>7, <2>8, <2>9, <2>10, ReaderFlow
<1>9. ASSUME ~HasNewline(input, 0), InputEnded, input = <<>>, GotNothing
      PROVE  FlowInv'
    <2>1. done' = TRUE /\ input' = <<>> /\ UNCHANGED frames
        BY <1>9 DEF GotNothing
    <2>2. CASE ReaderOn(at, i)
        <3>1. i + 0 = at[e] /\ Copies(frames, Len(frames)) /\ 0 \in 0..Len(input) /\ e \in 0..Len(written)
            BY <1>4, <1>5, <2>2 DEF ReaderOn
        <3>2. e < Len(written) => d < at[e + 1]
            <4> SUFFICES ASSUME e < Len(written) PROVE d < at[e + 1]
                OBVIOUS
            <4>1. e \in 0..(Len(written) - 1)
                BY <1>4, <3>1
            <4> QED BY <1>2, <1>3, <1>6, <1>9, <3>1, <4>1, LineUnfinished
        <3>3. ~cut => e = Len(written)
            BY <1>1, <1>3, <1>9, <3>1, <3>2, EndReached DEF InputEnded
        <3>4. ReaderOver'
            BY <1>2, <1>5, <1>9, <2>1, <3>1, <3>3 DEF ReaderOver, InputEnded, Copies
        <3>5. Window(input', S, d, d) /\ done' \in BOOLEAN /\ frames' \in Seq(Seq(Bytes))
            BY <1>3, <1>7, <2>1
        <3> QED BY <1>1, <1>2, <1>3, <3>4, <3>5, ReaderFlow
    <2>3. CASE ReaderTail
        <3>1. ReaderTail'
            BY <1>2, <2>1, <2>3 DEF ReaderTail, InputEnded, Copies
        <3>2. Window(input', S, d, d) /\ done' \in BOOLEAN /\ frames' \in Seq(Seq(Bytes))
            BY <1>3, <1>7, <2>1
        <3> QED BY <1>1, <1>2, <1>3, <3>1, <3>2, ReaderFlow
    <2> QED BY <1>1, <1>2, <2>2, <2>3 DEF Streams, ReaderOver
<1>10. ASSUME ~HasNewline(input, 0), InputEnded, input # <<>>, Got(input, Len(input))
       PROVE  FlowInv'
    <2>1. frames' = Append(frames, input) /\ input' = SubSeq(input, Len(input) + 1, Len(input)) /\ UNCHANGED done
        BY <1>10 DEF Got
    <2>2. ReaderOn(at, i)
        BY <1>1, <1>2, <1>10 DEF Streams, ReaderOver, ReaderTail
    <2>3. i + 0 = at[e] /\ Copies(frames, Len(frames)) /\ 0 \in 0..Len(input) /\ e \in 0..Len(written)
        BY <1>4, <1>5, <2>2 DEF ReaderOn
    <2>4. e < Len(written)
        <3>1. CASE e = Len(written)
            BY <1>4, <1>10, <2>3, <3>1
        <3> QED BY <1>4, <2>3, <3>1
    <2>5. d < at[e + 1] /\ IsPrefix(input, written[e + 1])
        <3>1. e \in 0..(Len(written) - 1)
            BY <1>4, <2>3, <2>4
        <3> QED BY <1>2, <1>3, <1>6, <1>10, <2>3, <3>1, LineUnfinished
    <2>6. cut
        BY <1>1, <1>3, <1>10, <2>3, <2>4, <2>5, EndReached DEF InputEnded
    <2>7. input' = <<>>
        BY <1>4, <2>1
    <2>8. Longer(frames', frames, input, Seq(Bytes))
        BY <1>3, <1>4, <2>1, AppendIs
    <2>9. /\ frames' \in Seq(Seq(Bytes)) /\ Len(frames') = e + 1 /\ frames'[e + 1] = input /\ e \in Nat
          /\ \A k \in 1..e : frames'[k] = frames[k]
        BY <1>5, <2>8 DEF Longer
    <2>10. Copies(frames', e)
        BY <1>5, <2>3, <2>9 DEF Copies
    <2>11. ReaderTail'
        <3>1. frames' # <<>> /\ Len(frames') <= Len(written) /\ Len(frames') - 1 = e
            BY <1>4, <2>3, <2>4, <2>9
        <3>2. IsPrefix(frames'[Len(frames')], written[Len(frames')])
            BY <2>5, <2>9
        <3> QED BY <1>2, <1>10, <2>6, <2>7, <2>10, <3>1, <3>2 DEF ReaderTail, InputEnded, Copies
    <2>12. Window(input', S, d, d) /\ done' \in BOOLEAN
        BY <1>2, <1>3, <1>7, <2>1, <2>7 DEF Kinds
    <2> QED BY <1>1, <1>2, <1>3, <2>9, <2>11, <2>12, ReaderFlow
<1> QED BY <1>8, <1>9, <1>10 DEF LineRead

LEMMA Length32ReadFlow ==
    ASSUME FlowInv, Length32Read
    PROVE  FlowInv'
<1>1. PICK S, at, m, d, b, i : Streams(S, at, m, d, b, i)
    BY DEF FlowInv
<1>2. /\ framing = "length32" /\ ~done
      /\ UNCHANGED <<framing, written, pipe, cut, eof, buffer, start, pushing, emitted>>
    BY DEF Length32Read
<1>3. Kinds /\ written \in Seq(Payloads) /\ Sendable /\ frames \in Seq(Seq(Bytes)) /\ cut \in BOOLEAN
    BY DEF FlowInv, Kinds
<1>4. /\ S \in Seq(Bytes) /\ Len(S) \in Nat /\ Len(input) \in Nat /\ input \in Seq(Bytes) /\ d \in Nat /\ i \in Nat
      /\ d \in 0..Len(S) /\ Len(input) = d - i /\ Len(written) \in Nat /\ Len(frames) \in 0..Len(written)
    BY <1>1, <1>3, Sizes
<1>5. PICK e : e = Len(frames)
    OBVIOUS
<1>6. Laid(S, at) /\ Window(input, S, i, d) /\ i = at[e] /\ Copies(frames, Len(frames)) /\ e \in 0..Len(written)
    BY <1>1, <1>2, <1>4, <1>5 DEF Streams, ReaderOn, ReaderOver, ReaderTail
<1>7. PICK total : total = Width + Decoded(input)
    OBVIOUS
<1>8. /\ Complete(input) => /\ e < Len(written) /\ i + total = at[e + 1] /\ total \in 1..Len(input)
                            /\ SubSeq(input, Width + 1, total) = written[e + 1]
      /\ ~Complete(input) /\ e < Len(written) => d < at[e + 1]
    <2>1. Length32Ends(input, e, i, d, at)
        BY <1>2, <1>3, <1>6, Length32Found
    <2> QED BY <1>7, <2>1 DEF Length32Ends
<1>9. CASE Complete(input)
    <2>1. /\ frames' = Append(frames, SubSeq(input, Width + 1, total))
          /\ input' = SubSeq(input, total + 1, Len(input)) /\ UNCHANGED done
        BY <1>7, <1>9 DEF Length32Read, Got
    <2>2. frames' = Append(frames, written[e + 1]) /\ e < Len(written)
        BY <1>8, <1>9, <2>1
    <2>3. frames' \in Seq(Seq(Bytes)) /\ Len(frames') = e + 1 /\ Copies(frames', Len(frames'))
        BY <1>3, <1>5, <1>6, <2>2, CopyNext
    <2>4. Window(input', S, i + total, d)
        <3>1. total \in 0..Len(input) /\ Len(input) \in total..Len(input) /\ i + Len(input) = d
            BY <1>4, <1>8, <1>9
        <3>2. Window(SubSeq(input, total + 1, Len(input)), S, i + total, i + Len(input))
            BY <1>4, <1>6, <3>1, WindowOfSub
        <3> QED BY <2>1, <3>1, <3>2
    <2>5. ReaderOn(at, i + total)'
        BY <1>2, <1>8, <1>9, <2>1, <2>3 DEF ReaderOn, Copies
    <2>6. done' \in BOOLEAN
        BY <1>3, <2>1 DEF Kinds
    <2> QED BY <1>1, <1>2, <1>3, <2>3, <2>4, <2>5, <2>6, ReaderFlow
<1>10. CASE ~Complete(input)
    <2>1. done' = TRUE /\ input' = <<>> /\ UNCHANGED frames /\ InputEnded
        BY <1>10 DEF Length32Read, GotNothing
    <2>2. ~cut => e = Len(written)
        BY <1>1, <1>3, <1>6, <1>8, <1>10, <2>1, EndReached DEF InputEnded
    <2>3. ReaderOver'
        BY <1>2, <1>5, <1>6, <2>1, <2>2 DEF ReaderOver, InputEnded, Copies
    <2>4. Window(input', S, d, d) /\ done' \in BOOLEAN /\ frames' \in Seq(Seq(Bytes))
        BY <1>3, <1>4, <2>1, NoInput
    <2> QED BY <1>1, <1>2, <1>3, <2>3, <2>4, ReaderFlow
<1> QED BY <1>9, <1>10

LEMMA NextFlow == FlowInv /\ [Next]_vars => FlowInv'
<1> SUFFICES ASSUME FlowInv, [Next]_vars PROVE FlowInv'
    OBVIOUS
<1>1. CASE Terminated \/ UNCHANGED vars
    <2>1. UNCHANGED vars
        BY <1>1 DEF Terminated
    <2>2. UNCHANGED <<framing, written, pipe, cut, eof, buffer, start, pushing, emitted, input, frames, done>>
        BY <2>1 DEF vars
    <2>3. PICK S, at, m, d, b, i : Streams(S, at, m, d, b, i)
        BY DEF FlowInv
    <2>4. ReaderOn(at, i)' \/ ReaderOver' \/ ReaderTail'
        BY <2>2, <2>3 DEF Streams, ReaderOn, ReaderOver, ReaderTail, InputEnded, Copies
    <2>5. Kinds /\ Window(input', S, i, d) /\ done' \in BOOLEAN /\ frames' \in Seq(Seq(Bytes))
        BY <2>2, <2>3 DEF Streams, FlowInv, Kinds
    <2> QED BY <2>2, <2>3, <2>4, <2>5, ReaderFlow
<1> QED BY <1>1, WriteFlow, EndFlow, DeliverFlow, DrainLineFlow, DrainLength32Flow, LineReadFlow, Length32ReadFlow
        DEF Next, Read
LEMMA FlowStays == Spec => []FlowInv
<1> QED BY InitFlow, NextFlow, PTL DEF Spec

-----------------------------------------------------------------------------
(* The theorems.                                                              *)
LEMMA CopiesArePrefix ==
    ASSUME NEW out \in Seq(Seq(Bytes)), written \in Seq(Payloads), NEW n \in 0..Len(out), Copies(out, n)
    PROVE  IsPrefix(SubSeq(out, 1, n), written)
<1>1. Len(out) \in Nat /\ Len(written) \in Nat /\ n <= Len(written)
    BY DEF Copies
<1>2. PICK s : s = SubSeq(out, 1, n)
    OBVIOUS
<1>3. PICK t : t = SubSeq(written, 1, n)
    OBVIOUS
<1>4. Piece(s, out, 0, n, Seq(Bytes)) /\ Piece(t, written, 0, n, Payloads)
    <2>1. 0 \in 0..Len(out) /\ 0 \in 0..Len(written) /\ n \in 0..Len(written) /\ 0 + 1 = 1
        BY <1>1
    <2>2. s = SubSeq(out, 0 + 1, n) /\ t = SubSeq(written, 0 + 1, n)
        BY <1>2, <1>3
    <2>3. Piece(s, out, 0, n, Seq(Bytes))
        BY <2>1, <2>2, PieceIs, Zenon
    <2>4. Piece(t, written, 0, n, Payloads)
        BY <2>1, <2>2, PieceIs, Zenon
    <2> QED BY <2>3, <2>4
<1>5. s \in Seq(Seq(Bytes)) /\ t \in Seq(Payloads) /\ Len(s) = n /\ Len(t) = n /\ \A k \in 1..n : s[k] = t[k]
    <2>1. /\ s \in Seq(Seq(Bytes)) /\ Len(s) = n - 0 /\ \A k \in 1..Len(s) : s[k] = out[0 + k]
          /\ t \in Seq(Payloads) /\ Len(t) = n - 0 /\ \A k \in 1..Len(t) : t[k] = written[0 + k]
        BY <1>4, Zenon DEF Piece
    <2>2. n - 0 = n /\ \A k \in 1..n : 0 + k = k
        BY <1>1
    <2>3. \A k \in 1..n : out[k] = written[k]
        BY DEF Copies
    <2>4. \A k \in 1..n : s[k] = t[k]
        <3> SUFFICES ASSUME NEW k \in 1..n PROVE s[k] = t[k]
            OBVIOUS
        <3>1. s[k] = out[0 + k] /\ t[k] = written[0 + k]
            BY <2>1, <2>2, Zenon
        <3> QED BY <2>2, <2>3, <3>1, Zenon
    <2> QED BY <2>1, <2>2, <2>4
<1>6. s = t
    BY <1>1, <1>5
<1>7. Len(s) <= Len(written) /\ SubSeq(s, 1, Len(s)) = SubSeq(written, 1, Len(s))
    BY <1>1, <1>3, <1>5, <1>6
<1> QED BY <1>2, <1>7 DEF IsPrefix

(* All that was written was given out, or a prefix of it. *)
LEMMA CopiesAre ==
    ASSUME NEW out \in Seq(Seq(Bytes)), written \in Seq(Payloads), Copies(out, Len(out))
    PROVE  IsPrefix(out, written) /\ (Len(out) = Len(written) => out = written)
<1>1. Len(out) \in Nat /\ Len(written) \in Nat /\ SubSeq(out, 1, Len(out)) = out
    OBVIOUS
<1>2. IsPrefix(out, written)
    <2>1. Len(out) \in 0..Len(out)
        BY <1>1
    <2>2. IsPrefix(SubSeq(out, 1, Len(out)), written)
        BY <2>1, CopiesArePrefix, Zenon
    <2> QED BY <1>1, <2>2
<1>3. Len(out) = Len(written) => out = written
    BY <1>1 DEF Copies
<1> QED BY <1>2, <1>3

(* The values of the state are payloads and bytes: the readers' buffers never *)
(* hold anything that was not on the wire.                                    *)
THEOREM FramingTyping == Spec => []TypeOK
<1>1. FlowInv => TypeOK
    <2> SUFFICES ASSUME FlowInv PROVE TypeOK
        OBVIOUS
    <2>1. PICK S, at, m, d, b, i : Streams(S, at, m, d, b, i)
        BY DEF FlowInv
    <2>2. pipe \in Seq(Bytes) /\ buffer \in Seq(Bytes) /\ input \in Seq(Bytes)
        BY <2>1 DEF Streams, Window
    <2> QED BY <2>2 DEF FlowInv, Kinds, TypeOK
<1> QED BY <1>1, FlowStays, PTL

(* However the bytes are cut into chunks, FrameParser emits the payloads that *)
(* were written and nothing else, whatever the base, the width and the        *)
(* payloads.                                                                  *)
THEOREM ParserIsFaithful == Spec => []ParserFaithful
<1>1. FlowInv => ParserFaithful
    <2> SUFFICES ASSUME FlowInv PROVE ParserFaithful
        OBVIOUS
    <2>1. emitted \in Seq(Seq(Bytes)) /\ written \in Seq(Payloads) /\ Copies(emitted, Len(emitted))
        BY DEF FlowInv, Kinds, Streams, ParserAt
    <2> QED BY <2>1, CopiesAre DEF ParserFaithful
<1> QED BY <1>1, FlowStays, PTL

(* The framers' read() returns what was written and, only over a line the     *)
(* writer did not finish, the start of that line as one last frame.           *)
THEOREM ReaderIsFaithful == Spec => []ReaderFaithful
<1>1. FlowInv => ReaderFaithful
    <2> SUFFICES ASSUME FlowInv PROVE ReaderFaithful
        OBVIOUS
    <2>1. PICK S, at, m, d, b, i : Streams(S, at, m, d, b, i)
        BY DEF FlowInv
    <2>2. frames \in Seq(Seq(Bytes)) /\ written \in Seq(Payloads)
        BY DEF FlowInv, Kinds
    <2>3. CASE ReaderOn(at, i) \/ ReaderOver
        <3>1. Copies(frames, Len(frames))
            BY <2>3 DEF ReaderOn, ReaderOver
        <3> QED BY <2>2, <3>1, CopiesAre DEF ReaderFaithful
    <2>4. CASE ReaderTail
        <3>1. Len(frames) \in Nat /\ Len(frames) - 1 \in 0..Len(frames) /\ Copies(frames, Len(frames) - 1)
            BY <2>2, <2>4 DEF ReaderTail
        <3>2. IsPrefix(Front(frames), written)
            BY <2>2, <3>1, CopiesArePrefix DEF Front
        <3> QED BY <2>4, <3>2 DEF ReaderTail, ReaderFaithful, Last
    <2> QED BY <2>1, <2>3, <2>4 DEF Streams
<1> QED BY <1>1, FlowStays, PTL

(* When all that was written has been delivered and push() has returned, it   *)
(* has emitted all of it: no complete frame waits for the next chunk.         *)
THEOREM NoFrameIsHeldBack == Spec => []NothingHeldBack
<1>1. FlowInv => NothingHeldBack
    <2> SUFFICES ASSUME FlowInv, ~pushing, pipe = <<>>, ~eof PROVE emitted = written
        BY DEF NothingHeldBack
    <2>1. PICK S, at, m, d, b, i : Streams(S, at, m, d, b, i)
        BY DEF FlowInv
    <2>2. Kinds /\ ~cut /\ emitted \in Seq(Seq(Bytes)) /\ written \in Seq(Payloads)
        BY DEF FlowInv, Kinds
    <2>3. /\ Copies(emitted, Len(emitted))
          /\ Len(emitted) < Len(written) => d < at[Len(emitted) + 1]
        BY <2>1 DEF Streams, ParserAt
    <2>4. Len(emitted) \in 0..Len(written)
        BY <2>1, <2>2, Sizes
    <2>5. Len(emitted) = Len(written)
        BY <2>1, <2>2, <2>3, <2>4, EndReached
    <2> QED BY <2>2, <2>3, <2>5, CopiesAre
<1> QED BY <1>1, FlowStays, PTL

(* A stream that was closed and not cut off is read to the end by both        *)
(* readers: nothing is lost between the last chunk and nullopt.               *)
THEOREM AllIsDelivered == Spec => []AllDelivered
<1>1. FlowInv => AllDelivered
    <2> SUFFICES ASSUME FlowInv, done, ~pushing, InputEnded, ~cut PROVE emitted = written /\ frames = written
        BY DEF AllDelivered
    <2>1. PICK S, at, m, d, b, i : Streams(S, at, m, d, b, i)
        BY DEF FlowInv
    <2>2. Kinds /\ emitted \in Seq(Seq(Bytes)) /\ frames \in Seq(Seq(Bytes)) /\ written \in Seq(Payloads)
        BY DEF FlowInv, Kinds
    <2>3. /\ Copies(emitted, Len(emitted))
          /\ Len(emitted) < Len(written) => d < at[Len(emitted) + 1]
        BY <2>1 DEF Streams, ParserAt
    <2>4. Len(emitted) \in 0..Len(written) /\ pipe = <<>>
        BY <2>1, <2>2, Sizes DEF InputEnded
    <2>5. Len(emitted) = Len(written)
        BY <2>1, <2>2, <2>3, <2>4, EndReached
    <2>6. Copies(frames, Len(frames)) /\ Len(frames) = Len(written)
        BY <2>1 DEF Streams, ReaderOn, ReaderOver, ReaderTail
    <2> QED BY <2>2, <2>3, <2>5, <2>6, CopiesAre
<1> QED BY <1>1, FlowStays, PTL
=============================================================================
