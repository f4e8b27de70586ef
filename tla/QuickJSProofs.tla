--------------------------- MODULE QuickJSProofs ---------------------------
(* What is proved of QuickJS for every set of addresses and of items, every   *)
(* depth of the stack and every graph of properties the values may form.      *)
EXTENDS QuickJS, FiniteSetTheorems, SequenceTheorems, TLAPS

-----------------------------------------------------------------------------
(* Counting references.                                                       *)

(* The references the properties of the values in S hold to v. *)
LEMMA LinksType ==
    ASSUME NEW S, IsFiniteSet(S), NEW v, NEW props
    PROVE  Links(v, S, props) \in Nat
<1>1. IsFiniteSet({p \in S : v \in props[p]})
    BY FS_Subset
<1> QED BY <1>1, FS_CardinalityType DEF Links

LEMMA LinksSplit ==
    ASSUME NEW S, NEW T, NEW v, NEW props, IsFiniteSet(S), T \subseteq S
    PROVE  /\ Links(v, T, props) \in Nat /\ Links(v, S \ T, props) \in Nat
           /\ Links(v, S, props) = Links(v, T, props) + Links(v, S \ T, props)
<1> DEFINE P(R) == {p \in R : v \in props[p]}
<1>1. IsFiniteSet(T) /\ IsFiniteSet(S \ T)
    BY FS_Subset
<1>2. IsFiniteSet(P(T)) /\ IsFiniteSet(P(S \ T))
    BY <1>1, FS_Subset
<1>3. P(S) = P(T) \cup P(S \ T) /\ P(T) \cap P(S \ T) = {}
    OBVIOUS
<1>4. Cardinality(P(T) \cap P(S \ T)) = 0
    BY <1>3, FS_EmptySet
<1>5. Cardinality(P(T)) \in Nat /\ Cardinality(P(S \ T)) \in Nat
    BY <1>2, FS_CardinalityType
<1>6. Cardinality(P(T) \cup P(S \ T)) = Cardinality(P(T)) + Cardinality(P(S \ T)) - Cardinality(P(T) \cap P(S \ T))
    BY <1>2, FS_Union
<1>7. /\ Links(v, S, props) = Cardinality(P(S))
      /\ Links(v, T, props) = Cardinality(P(T))
      /\ Links(v, S \ T, props) = Cardinality(P(S \ T))
    BY DEF Links
<1> HIDE DEF P
<1> QED BY <1>3, <1>4, <1>5, <1>6, <1>7

LEMMA LinksSame ==
    ASSUME NEW S, NEW v, NEW props, NEW other, \A p \in S : v \in props[p] <=> v \in other[p]
    PROVE  Links(v, S, props) = Links(v, S, other)
<1>1. {p \in S : v \in props[p]} = {p \in S : v \in other[p]}
    OBVIOUS
<1> QED BY <1>1 DEF Links

LEMMA LinksNone ==
    ASSUME NEW S, IsFiniteSet(S), NEW v, NEW props
    PROVE  Links(v, S, props) = 0 <=> \A p \in S : v \notin props[p]
<1>1. IsFiniteSet({p \in S : v \in props[p]})
    BY FS_Subset
<1>2. Cardinality({p \in S : v \in props[p]}) = 0 <=> {p \in S : v \in props[p]} = {}
    BY <1>1, FS_EmptySet
<1> QED BY <1>2 DEF Links

(* A property more: `other` is `props` with c a property of p as well. *)
Adds(S, props, other, p, c) ==
    /\ p \in S /\ c \notin props[p]
    /\ \A q \in S : other[q] = IF q = p THEN props[q] \cup {c} ELSE props[q]

LEMMA LinksOneMore ==
    ASSUME NEW S, IsFiniteSet(S), NEW props, NEW other, NEW p, NEW c, Adds(S, props, other, p, c),
           NEW v
    PROVE  Links(v, S, other) = Links(v, S, props) + (IF v = c THEN 1 ELSE 0)
<1>0. /\ p \in S /\ c \notin props[p]
      /\ \A q \in S : other[q] = IF q = p THEN props[q] \cup {c} ELSE props[q]
    BY DEF Adds
<1>1. CASE v # c
    <2>1. \A q \in S : v \in props[q] <=> v \in other[q]
        BY <1>0, <1>1
    <2>2. Links(v, S, props) = Links(v, S, other)
        BY <2>1, LinksSame
    <2>3. Links(v, S, props) \in Nat
        BY LinksType
    <2> QED BY <1>1, <2>2, <2>3
<1>2. CASE v = c
    <2> DEFINE X == {q \in S : v \in props[q]}
    <2>1. {q \in S : v \in other[q]} = X \cup {p} /\ p \notin X
        BY <1>0, <1>2
    <2>2. IsFiniteSet(X)
        BY FS_Subset
    <2>3. Cardinality(X \cup {p}) = Cardinality(X) + 1
        BY <2>1, <2>2, FS_AddElement
    <2>4. Links(v, S, other) = Cardinality({q \in S : v \in other[q]}) /\ Links(v, S, props) = Cardinality(X)
        BY DEF Links
    <2> HIDE DEF X
    <2> QED BY <1>2, <2>1, <2>3, <2>4
<1> QED BY <1>1, <1>2

(* The calls that may be on the JS thread's stack. *)
Calls == [op : {"read", "write", "drain", "deliver"}, root : Values \cup {None},
          item : Items \cup {None}, owned : [Values -> Nat]]

LEMMA OwnsType == \A f \in Calls, v \in Values : Owns(f, v) \in Nat
BY DEF Calls, Owns

(* A call on top of the stack adds its own references to those of the others. *)
LEMMA InUseFinite ==
    ASSUME NEW s \in Seq(Calls), NEW v \in Values
    PROVE  IsFiniteSet(InUse(s, v)) /\ Cardinality(InUse(s, v)) \in Nat
<1> DEFINE part(k) == {k} \X (1..Owns(s[k], v))
           parts == {part(k) : k \in 1..Len(s)}
           f == [k \in 1..Len(s) |-> part(k)]
<1>1. IsFiniteSet(1..Len(s))
    BY FS_Interval
<1>2. f \in Surjection(1..Len(s), parts)
    BY DEF Surjection
<1>3. IsFiniteSet(parts)
    BY <1>1, <1>2, FS_Surjection
<1>4. ASSUME NEW k \in 1..Len(s) PROVE IsFiniteSet(part(k))
    <2>1. PICK m \in Nat : m = Owns(s[k], v)
        BY OwnsType
    <2>2. IsFiniteSet({k})
        BY FS_Singleton
    <2>3. IsFiniteSet(1..m)
        BY FS_Interval
    <2>4. IsFiniteSet({k} \X (1..m))
        BY <2>2, <2>3, FS_Product
    <2> QED BY <2>1, <2>4
<1>5. \A T \in parts : IsFiniteSet(T)
    BY <1>4
<1>6. IsFiniteSet(UNION parts)
    <2> HIDE DEF parts
    <2> QED BY <1>3, <1>5, FS_UNION
<1>7. InUse(s, v) = UNION parts
    BY DEF InUse
<1> QED BY <1>6, <1>7, FS_CardinalityType

LEMMA InUseAppend ==
    ASSUME NEW s \in Seq(Calls), NEW f \in Calls, NEW v \in Values
    PROVE  Cardinality(InUse(Append(s, f), v)) = Cardinality(InUse(s, v)) + Owns(f, v)
<1> DEFINE n == Len(s) + 1
           t == Append(s, f)
           top == {n} \X (1..Owns(f, v))
<1>1. /\ n \in Nat /\ Len(t) = n /\ t[n] = f
      /\ \A i \in 1..Len(s) : t[i] = s[i] /\ i # n
      /\ 1..n = 1..Len(s) \cup {n}
    OBVIOUS
<1>2. Owns(f, v) \in Nat
    BY OwnsType
<1>3. IsFiniteSet(top) /\ Cardinality(top) = Owns(f, v)
    <2>1. IsFiniteSet(1..Owns(f, v)) /\ Cardinality(1..Owns(f, v)) = Owns(f, v)
        BY <1>2, FS_Interval
    <2>2. IsFiniteSet({n}) /\ Cardinality({n}) = 1
        BY FS_Singleton
    <2>3. IsFiniteSet({n} \X (1..Owns(f, v))) /\ Cardinality({n} \X (1..Owns(f, v))) = 1 * Owns(f, v)
        BY <2>1, <2>2, FS_Product
    <2> QED BY <1>2, <2>3
<1>4. InUse(t, v) = InUse(s, v) \cup top
    <2> HIDE DEF n, t
    <2> QED BY <1>1 DEF InUse
<1>5. InUse(s, v) \cap top = {}
    <2> HIDE DEF n, t
    <2> QED BY <1>1 DEF InUse
<1>6. IsFiniteSet(InUse(s, v)) /\ Cardinality(InUse(s, v)) \in Nat
    BY InUseFinite
<1>7. Cardinality(InUse(s, v) \cap top) = 0
    BY <1>5, FS_EmptySet
<1>8. Cardinality(InUse(s, v) \cup top)
        = Cardinality(InUse(s, v)) + Cardinality(top) - Cardinality(InUse(s, v) \cap top)
    <2> HIDE DEF top
    <2> QED BY <1>3, <1>6, FS_Union
<1> HIDE DEF top, t
<1>9. Cardinality(InUse(t, v)) = Cardinality(InUse(s, v)) + Owns(f, v)
    BY <1>2, <1>3, <1>4, <1>6, <1>7, <1>8
<1> QED BY <1>9 DEF t

-----------------------------------------------------------------------------
(* JS_FreeValue.                                                              *)

HeapTypes == /\ alive \subseteq Values /\ IsFiniteSet(alive)
             /\ refs \in [Values -> Nat]
             /\ child \in [Values -> SUBSET Values]

(* What is freed when the references b are let go, the others being those of  *)
(* `rest` and of the properties: the values no one else refers to, with those *)
(* that only they refer to.  What is left has the references it should have.  *)
LEMMA ReleaseKeeps ==
    ASSUME HeapTypes, NEW b \in [Values -> Nat], NEW props \in [Values -> SUBSET Values],
           NEW rest \in [Values -> Nat],
           \A v \in Values : refs[v] = b[v] + rest[v] + Links(v, alive, props),
           \A v \in Values \ alive : refs[v] = 0 /\ props[v] = {},
           Release(b, props)
    PROVE  /\ HeapTypes'
           /\ \A v \in Values : refs'[v] = rest[v] + Links(v, alive', child')
           /\ \A v \in Values \ alive' : refs'[v] = 0 /\ child'[v] = {}
           /\ \A v \in alive' : refs'[v] > 0
<1> DEFINE Left(v, G) == refs[v] - b[v] - Links(v, G, props)
           Closed(G) == \A u \in alive : Left(u, G) <= 0 => u \in G
           gone == {v \in alive : \A G \in SUBSET alive : Closed(G) => v \in G}
<1>1. /\ alive' = alive \ gone
      /\ refs' = [v \in Values |-> IF v \in gone THEN 0 ELSE Left(v, gone)]
      /\ child' = [v \in Values |-> IF v \in gone THEN {} ELSE props[v]]
    BY DEF Release
<1>2. /\ alive \subseteq Values /\ IsFiniteSet(alive) /\ refs \in [Values -> Nat]
      /\ gone \subseteq alive
    BY DEF HeapTypes
(* What a set of dead values leaves of the references to v. *)
<1>3. ASSUME NEW v \in Values, NEW G \in SUBSET alive
      PROVE  /\ Left(v, G) = rest[v] + Links(v, alive \ G, props)
             /\ Links(v, alive \ G, props) \in Nat /\ rest[v] \in Nat
    <2>1. /\ Links(v, G, props) \in Nat /\ Links(v, alive \ G, props) \in Nat
          /\ Links(v, alive, props) = Links(v, G, props) + Links(v, alive \ G, props)
        <3>1. IsFiniteSet(alive) /\ G \subseteq alive
            BY <1>2
        <3> HIDE DEF Left, Closed, gone
        <3>2. Links(v, G, props) \in Nat
            BY <3>1, LinksSplit
        <3>3. Links(v, alive \ G, props) \in Nat
            BY <3>1, LinksSplit
        <3>4. Links(v, alive, props) = Links(v, G, props) + Links(v, alive \ G, props)
            BY <3>1, LinksSplit
        <3> QED BY <3>2, <3>3, <3>4
    <2>2. refs[v] \in Nat /\ b[v] \in Nat /\ rest[v] \in Nat
        BY <1>2
    <2>3. refs[v] = b[v] + rest[v] + Links(v, alive, props)
        OBVIOUS
    <2> QED BY <2>1, <2>2, <2>3
(* The more is dead, the less is left. *)
<1>4. ASSUME NEW v \in Values, NEW G \in SUBSET alive, NEW F \in SUBSET G
      PROVE  Left(v, G) <= Left(v, F)
    <2>1. IsFiniteSet(alive \ F) /\ alive \ G \subseteq alive \ F
        BY <1>2, FS_Subset
    <2>2. /\ Links(v, alive \ G, props) \in Nat
          /\ Links(v, (alive \ F) \ (alive \ G), props) \in Nat
          /\ Links(v, alive \ F, props) = Links(v, alive \ G, props) + Links(v, (alive \ F) \ (alive \ G), props)
        <3> DEFINE S == alive \ F
                   T == alive \ G
        <3>1. T \subseteq S /\ IsFiniteSet(S)
            BY <2>1
        <3> HIDE DEF Left, Closed, gone, S, T
        <3>2. Links(v, T, props) \in Nat
            BY <3>1, LinksSplit
        <3>3. Links(v, S \ T, props) \in Nat
            BY <3>1, LinksSplit
        <3>4. Links(v, S, props) = Links(v, T, props) + Links(v, S \ T, props)
            BY <3>1, LinksSplit
        <3>5. alive \ G = T /\ alive \ F = S
            BY DEF S, T
        <3> QED BY <3>2, <3>3, <3>4, <3>5
    <2>3. F \in SUBSET alive
        OBVIOUS
    <2>4. Left(v, G) = rest[v] + Links(v, alive \ G, props) /\ Left(v, F) = rest[v] + Links(v, alive \ F, props)
          /\ rest[v] \in Nat
        BY <1>3, <2>3
    <2> HIDE DEF Left
    <2> QED BY <2>2, <2>4
<1>5. \A v \in Values, G \in SUBSET alive : Left(v, G) \in Int
    <2> SUFFICES ASSUME NEW v \in Values, NEW G \in SUBSET alive PROVE Left(v, G) \in Int
        OBVIOUS
    <2>1. Left(v, G) = rest[v] + Links(v, alive \ G, props) /\ Links(v, alive \ G, props) \in Nat /\ rest[v] \in Nat
        BY <1>3
    <2> HIDE DEF Left
    <2> QED BY <2>1
<1> HIDE DEF Left
(* The dead are the least closed set, and have nothing left. *)
<1>6. ASSUME NEW v \in alive, Left(v, gone) <= 0
      PROVE  v \in gone
    <2>1. ASSUME NEW G \in SUBSET alive, Closed(G)
          PROVE  v \in G
        <3>1. gone \in SUBSET G
            BY <2>1
        <3>2. Left(v, G) <= Left(v, gone)
            BY <1>2, <1>4, <3>1
        <3>3. Left(v, G) \in Int /\ Left(v, gone) \in Int
            BY <1>2, <1>5
        <3>4. Left(v, G) <= 0
            <4> HIDE DEF gone
            <4> QED BY <1>6, <3>2, <3>3
        <3> QED BY <2>1, <3>4
    <2> QED BY <2>1
<1>7. ASSUME NEW v \in gone
      PROVE  Left(v, gone) <= 0
    <2> SUFFICES ASSUME ~(Left(v, gone) <= 0) PROVE FALSE
        OBVIOUS
    <2> DEFINE G == gone \ {v}
    <2>1. G \in SUBSET gone /\ G \in SUBSET alive /\ gone \in SUBSET alive
        BY <1>2
    <2>2. ASSUME NEW u \in alive, Left(u, G) <= 0
          PROVE  u \in G
        <3>1. Left(u, gone) <= Left(u, G)
            <4> HIDE DEF G, gone
            <4> QED BY <1>2, <1>4, <2>1
        <3>2. Left(u, gone) \in Int /\ Left(u, G) \in Int
            <4> HIDE DEF G, gone
            <4> QED BY <1>2, <1>5, <2>1
        <3>3. Left(u, gone) <= 0
            <4> HIDE DEF G, gone
            <4> QED BY <2>2, <3>1, <3>2
        <3>4. u \in gone
            BY <1>6, <3>3
        <3> QED BY <3>3, <3>4
    <2>3. Closed(G)
        BY <2>2
    <2>4. v \in G
        BY <2>1, <2>3
    <2> QED BY <2>4
<1> HIDE DEF gone, Closed
<1>8. ASSUME NEW v \in Values
      PROVE  /\ refs'[v] = rest[v] + Links(v, alive', child')
             /\ refs'[v] \in Nat
             /\ v \notin alive' => refs'[v] = 0 /\ child'[v] = {}
             /\ v \in alive' => refs'[v] > 0
    <2>1. Links(v, alive', child') = Links(v, alive \ gone, props)
        <3>1. \A p \in alive \ gone : v \in child'[p] <=> v \in props[p]
            BY <1>1, <1>2
        <3>2. Links(v, alive \ gone, child') = Links(v, alive \ gone, props)
            BY <3>1, LinksSame
        <3> QED BY <1>1, <3>2
    <2>2. /\ Left(v, gone) = rest[v] + Links(v, alive \ gone, props)
          /\ Links(v, alive \ gone, props) \in Nat /\ rest[v] \in Nat
        BY <1>2, <1>3
    <2>3. CASE v \in gone
        <3>1. Left(v, gone) <= 0
            BY <1>7, <2>3
        <3>2. refs'[v] = 0 /\ child'[v] = {} /\ v \notin alive'
            BY <1>1, <2>3
        <3>3. rest[v] + Links(v, alive \ gone, props) = 0
            BY <2>2, <3>1
        <3> QED BY <2>1, <3>2, <3>3
    <2>4. CASE v \in alive \ gone
        <3>1. ~(Left(v, gone) <= 0)
            BY <1>6, <2>4
        <3>2. refs'[v] = Left(v, gone) /\ v \in alive'
            BY <1>1, <2>4
        <3> QED BY <2>1, <2>2, <3>1, <3>2
    <2>5. CASE v \notin alive
        <3>1. refs'[v] = Left(v, gone) /\ v \notin alive' /\ child'[v] = props[v]
            BY <1>1, <1>2, <2>5
        <3>2. refs[v] = 0 /\ props[v] = {}
            BY <2>5
        <3>3. Left(v, gone) <= 0
            <4>1. Links(v, gone, props) \in Nat /\ b[v] \in Nat
                BY <1>2, LinksSplit
            <4> QED BY <3>2, <4>1 DEF Left
        <3> QED BY <2>1, <2>2, <3>1, <3>2, <3>3
    <2> QED BY <2>3, <2>4, <2>5
<1>9. HeapTypes'
    <2>1. alive' \subseteq Values /\ IsFiniteSet(alive')
        BY <1>1, <1>2, FS_Subset
    <2>2. refs' \in [Values -> Nat]
        BY <1>1, <1>8
    <2>3. child' \in [Values -> SUBSET Values]
        BY <1>1
    <2> QED BY <2>1, <2>2, <2>3 DEF HeapTypes
<1> QED
    BY <1>1, <1>2, <1>8, <1>9

-----------------------------------------------------------------------------
(* The invariant.                                                             *)

(* The references of the host, of lost values and of the calls in progress.   *)
Base(h, l, s, v) ==
    (IF v \in h THEN 1 ELSE 0) + (IF v \in l THEN 1 ELSE 0) + Cardinality(InUse(s, v))

Types == /\ host \subseteq Values /\ lost \subseteq Values
         /\ stack \in Seq(Calls)
         /\ sent \subseteq Items /\ queue \subseteq sent
         /\ calls \in [Items -> Nat]

(* Every reference is someone's, also of what is not allocated: so no one     *)
(* refers to a freed value, and it refers to nothing.                         *)
RefInv == /\ \A v \in Values : refs[v] = Base(host, lost, stack, v) + Links(v, alive, child)
          /\ \A v \in Values \ alive : refs[v] = 0 /\ child[v] = {}
          /\ \A v \in alive : refs[v] > 0

(* The calls that own a reference to their root. *)
Holds(f) == f.op \in {"write", "deliver"} /\ f.root # None

(* How calls nest.  A call into qjs/ is the last one.  A reader's root is the *)
(* host's or that of the callback it is called from; no two calls own the     *)
(* same root, nor does anyone else own the root of a value being written.     *)
StackOK(s, h, l) ==
    /\ \A k \in 1..Len(s) :
          /\ s[k].op \in {"read", "write"} => k = Len(s)
          /\ s[k].item # None <=> k > 1 /\ s[k - 1].op = "drain"
          /\ s[k].op = "read" =>
                s[k].root \in h \/ (k > 1 /\ s[k - 1].op = "deliver" /\ s[k].root = s[k - 1].root)
          /\ s[k].op = "deliver" => s[k].root # None
          /\ s[k].op # "read" => s[k].owned = Zero
          /\ s[k].op = "write" => s[k].root \notin h
          /\ Holds(s[k]) => s[k].root \notin l
    /\ \A j, k \in 1..Len(s) : Holds(s[j]) /\ Holds(s[k]) /\ s[j].root = s[k].root => j = k

(* Until an item's value is written the callback was not called with it; and  *)
(* once taken out of the queue it is not in it again.                         *)
ItemInv ==
    /\ \A i \in Items : calls[i] <= 1 /\ (i \notin sent \/ i \in queue => calls[i] = 0)
    /\ \A k \in 1..Len(stack) :
          stack[k].op = "write" /\ stack[k].item # None =>
             calls[stack[k].item] = 0 /\ stack[k].item \in sent \ queue

QuickInv == HeapTypes /\ Types /\ RefInv /\ StackOK(stack, host, lost) /\ ItemInv

-----------------------------------------------------------------------------
(* The stack.                                                                 *)

LEMMA PrefixProperties ==
    ASSUME NEW S, NEW s \in Seq(S), NEW n \in 0..Len(s), NEW f, f = SubSeq(s, 1, n)
    PROVE  f \in Seq(S) /\ Len(f) = n /\ \A i \in 1..n : f[i] = s[i]
<1>1. n \in Nat /\ n - 1 + 1 = n
    BY EmptySeq
<1>2. \A i \in 1..n : s[i] \in S
    OBVIOUS
<1> DEFINE g == SubSeq(s, 1, n)
<1>3. /\ g \in Seq(S)
      /\ Len(g) = IF 1 <= n THEN n - 1 + 1 ELSE 0
      /\ \A i \in 1..(n - 1 + 1) : g[i] = s[1 + i - 1]
    BY <1>1, <1>2, SubSeqProperties
<1>4. f = g
    OBVIOUS
<1> HIDE DEF g
<1> QED BY <1>1, <1>3, <1>4

LEMMA FrontProperties ==
    ASSUME NEW S, NEW s \in Seq(S), s # <<>>
    PROVE  /\ Len(s) \in Nat \ {0} /\ Last(s) = s[Len(s)] /\ Last(s) \in S
           /\ Front(s) \in Seq(S) /\ Len(Front(s)) = Len(s) - 1
           /\ \A i \in 1..(Len(s) - 1) : Front(s)[i] = s[i]
           /\ Append(Front(s), Last(s)) = s
<1>1. Len(s) \in Nat \ {0} /\ s = [i \in 1..Len(s) |-> s[i]]
    OBVIOUS
<1>2. Len(s) - 1 \in 0..Len(s)
    BY <1>1
<1>3. /\ Front(s) \in Seq(S) /\ Len(Front(s)) = Len(s) - 1
      /\ \A i \in 1..(Len(s) - 1) : Front(s)[i] = s[i]
    <2> DEFINE n == Len(s) - 1
               f == Front(s)
    <2>1. f = SubSeq(s, 1, n) /\ n \in 0..Len(s)
        BY <1>2 DEF Front
    <2> HIDE DEF n, f
    <2>2. f \in Seq(S)
        BY <2>1, PrefixProperties
    <2>3. Len(f) = n
        BY <2>1, PrefixProperties
    <2>4. \A i \in 1..n : f[i] = s[i]
        BY <2>1, PrefixProperties
    <2> QED BY <2>2, <2>3, <2>4 DEF n, f
<1>4. Last(s) = s[Len(s)] /\ Last(s) \in S
    BY <1>1 DEF Last
<1>5. Append(Front(s), Last(s)) = s
    <2> DEFINE f == Front(s)
               x == Last(s)
               t == Append(f, x)
    <2>1. f \in Seq(S) /\ Len(f) = Len(s) - 1 /\ \A i \in 1..(Len(s) - 1) : f[i] = s[i]
        BY <1>3
    <2>2. x = s[Len(s)] /\ x \in S
        BY <1>4
    <2> HIDE DEF f, x
    <2>3. t \in Seq(S)
        BY <2>1, <2>2
    <2>4. Len(t) = Len(s)
        <3>1. Len(t) = Len(f) + 1
            BY <2>1, <2>2
        <3> HIDE DEF t
        <3> QED BY <1>1, <2>1, <3>1
    <2>5. \A i \in 1..Len(s) : t[i] = s[i]
        BY <1>1, <2>1, <2>2
    <2> HIDE DEF t
    <2>6. t = s
        BY <2>3, <2>4, <2>5, SeqEqual
    <2> QED BY <2>6 DEF t, f, x
<1> QED BY <1>1, <1>3, <1>4, <1>5

(* The references of the calls beneath the last, which are those of the stack *)
(* without its own.                                                           *)
LEMMA InUseTop ==
    ASSUME NEW s \in Seq(Calls), s # <<>>, NEW v \in Values
    PROVE  /\ Cardinality(InUse(Front(s), v)) \in Nat /\ Owns(Last(s), v) \in Nat
           /\ Cardinality(InUse(s, v)) = Cardinality(InUse(Front(s), v)) + Owns(Last(s), v)
<1>1. Front(s) \in Seq(Calls) /\ Last(s) \in Calls /\ Append(Front(s), Last(s)) = s
    BY FrontProperties
<1>2. Cardinality(InUse(Front(s), v)) \in Nat
    BY <1>1, InUseFinite
<1>3. Owns(Last(s), v) \in Nat
    BY <1>1, OwnsType
<1>4. Cardinality(InUse(Append(Front(s), Last(s)), v)) = Cardinality(InUse(Front(s), v)) + Owns(Last(s), v)
    BY <1>1, InUseAppend
<1> QED BY <1>1, <1>2, <1>3, <1>4

LEMMA BaseType ==
    ASSUME NEW s \in Seq(Calls), NEW h, NEW l, NEW v \in Values
    PROVE  Base(h, l, s, v) \in Nat
<1>1. Cardinality(InUse(s, v)) \in Nat
    BY InUseFinite
<1> QED BY <1>1 DEF Base

(* A call that owns a reference counts. *)
LEMMA InUsePositive ==
    ASSUME NEW s \in Seq(Calls), NEW k \in 1..Len(s), NEW v \in Values, Owns(s[k], v) > 0
    PROVE  Cardinality(InUse(s, v)) > 0
<1>1. Owns(s[k], v) \in Nat
    BY OwnsType
<1>2. <<k, 1>> \in InUse(s, v)
    BY <1>1 DEF InUse
<1>3. IsFiniteSet(InUse(s, v)) /\ Cardinality(InUse(s, v)) \in Nat
    BY InUseFinite
<1>4. Cardinality(InUse(s, v)) # 0
    BY <1>2, <1>3, FS_EmptySet
<1> QED BY <1>3, <1>4

(* Calls come and go without breaking how they nest. *)
LEMMA StackPush ==
    ASSUME NEW s \in Seq(Calls), NEW h, NEW l, StackOK(s, h, l), NEW g \in Calls,
           g.op \in {"read", "write", "drain"},
           s # <<>> => Last(s).op \in {"drain", "deliver"},
           g.item # None <=> s # <<>> /\ Last(s).op = "drain",
           g.op = "read" =>
               g.root \in h \/ (s # <<>> /\ Last(s).op = "deliver" /\ g.root = Last(s).root),
           g.op # "read" => g.owned = Zero,
           g.op = "write" => g.root = None /\ None \notin h
    PROVE  Append(s, g) \in Seq(Calls) /\ StackOK(Append(s, g), h, l)
<1> DEFINE t == Append(s, g)
           n == Len(s) + 1
<1>1. t \in Seq(Calls) /\ n \in Nat /\ Len(t) = n /\ n - 1 = Len(s) /\ Len(s) \in Nat
    OBVIOUS
<1>2. t[n] = g /\ \A i \in 1..Len(s) : t[i] = s[i]
    OBVIOUS
<1>3. s # <<>> => Last(s) = s[Len(s)] /\ Len(s) > 0
    BY DEF Last
<1>4. s = <<>> => Len(s) = 0
    OBVIOUS
<1> HIDE DEF t, n
<1>5. ASSUME NEW k \in 1..Len(s)
      PROVE  /\ t[k] = s[k] /\ t[k].op \notin {"read", "write"}
             /\ t[k].item # None <=> k > 1 /\ t[k - 1].op = "drain"
             /\ t[k].op = "deliver" => t[k].root # None
             /\ t[k].op # "read" => t[k].owned = Zero
             /\ Holds(t[k]) => t[k].root \notin l
    <2>1. t[k] = s[k] /\ (k > 1 => t[k - 1] = s[k - 1])
        BY <1>1, <1>2
    <2>2. t[k].op \notin {"read", "write"}
        <3>1. s[k].op \in {"read", "write"} => k = Len(s)
            BY DEF StackOK
        <3>2. k = Len(s) => s[k].op \in {"drain", "deliver"}
            BY <1>3, <1>4
        <3> QED BY <2>1, <3>1, <3>2
    <2>3. t[k].item # None <=> k > 1 /\ t[k - 1].op = "drain"
        BY <2>1 DEF StackOK
    <2>4. /\ t[k].op = "deliver" => t[k].root # None
          /\ t[k].op # "read" => t[k].owned = Zero
          /\ Holds(t[k]) => t[k].root \notin l
        BY <2>1 DEF StackOK
    <2> QED BY <2>1, <2>2, <2>3, <2>4
<1>6. ~Holds(g)
    BY DEF Holds
<1>7. ASSUME NEW k \in 1..Len(t)
      PROVE  /\ t[k].op \in {"read", "write"} => k = Len(t)
             /\ t[k].item # None <=> k > 1 /\ t[k - 1].op = "drain"
             /\ t[k].op = "read" =>
                   t[k].root \in h \/ (k > 1 /\ t[k - 1].op = "deliver" /\ t[k].root = t[k - 1].root)
             /\ t[k].op = "deliver" => t[k].root # None
             /\ t[k].op # "read" => t[k].owned = Zero
             /\ t[k].op = "write" => t[k].root \notin h
             /\ Holds(t[k]) => t[k].root \notin l
    <2>1. CASE k = n
        <3>1. t[k] = g /\ k = Len(t)
            BY <1>1, <1>2, <2>1
        <3>2. k > 1 <=> s # <<>>
            BY <1>1, <1>3, <1>4, <2>1
        <3>3. s # <<>> => t[k - 1] = Last(s)
            BY <1>1, <1>2, <1>3, <2>1
        <3> QED BY <1>6, <3>1, <3>2, <3>3
    <2>2. CASE k # n
        <3>1. k \in 1..Len(s)
            BY <1>1, <2>2
        <3> QED BY <1>5, <3>1
    <2> QED BY <2>1, <2>2
<1>8. ASSUME NEW j \in 1..Len(t), NEW k \in 1..Len(t), Holds(t[j]), Holds(t[k]), t[j].root = t[k].root
      PROVE  j = k
    <2>1. j # n /\ k # n
        BY <1>2, <1>6, <1>8
    <2>2. j \in 1..Len(s) /\ k \in 1..Len(s)
        BY <1>1, <2>1
    <2>3. Holds(s[j]) /\ Holds(s[k]) /\ s[j].root = s[k].root
        BY <1>2, <1>8, <2>2
    <2> QED BY <2>2, <2>3 DEF StackOK
<1>9. StackOK(t, h, l)
    BY <1>7, <1>8 DEF StackOK
<1> QED BY <1>1, <1>9 DEF t

LEMMA StackPop ==
    ASSUME NEW s \in Seq(Calls), NEW n \in 0..(Len(s) - 1), NEW f, f = SubSeq(s, 1, n),
           NEW h, NEW l, StackOK(s, h, l), NEW h2, NEW l2,
           l2 = l \/ (Holds(Last(s)) /\ l2 = l \cup {Last(s).root})
    PROVE  /\ f \in Seq(Calls) /\ StackOK(f, h2, l2)
           /\ \A k \in 1..Len(f) : f[k].op \in {"drain", "deliver"}
<1>1. n \in 0..Len(s) /\ n \in Nat /\ Len(s) \in Nat /\ n < Len(s)
    OBVIOUS
<1>2. f \in Seq(Calls)
    BY <1>1, PrefixProperties
<1>3. Len(f) = n
    BY <1>1, PrefixProperties
<1>4. \A i \in 1..n : f[i] = s[i]
    BY <1>1, PrefixProperties
<1>5. Last(s) = s[Len(s)] /\ Len(s) \in 1..Len(s)
    BY <1>1 DEF Last
<1>6. \A k \in 1..Len(f) : k \in 1..Len(s) /\ k # Len(s) /\ f[k] = s[k] /\ (k > 1 => f[k - 1] = s[k - 1])
    BY <1>1, <1>3, <1>4
<1>7. ASSUME NEW k \in 1..Len(f)
      PROVE  f[k].op \in {"drain", "deliver"}
    <2>1. s[k].op \notin {"read", "write"}
        BY <1>6 DEF StackOK
    <2>2. f[k] \in Calls
        BY <1>2
    <2> QED BY <1>6, <2>1, <2>2 DEF Calls
<1>8. ASSUME NEW k \in 1..Len(f)
      PROVE  /\ f[k].item # None <=> k > 1 /\ f[k - 1].op = "drain"
             /\ f[k].op = "deliver" => f[k].root # None
             /\ f[k].op # "read" => f[k].owned = Zero
             /\ Holds(f[k]) => f[k].root \notin l2
    <2>1. f[k] = s[k] /\ (k > 1 => f[k - 1] = s[k - 1]) /\ k \in 1..Len(s) /\ k # Len(s)
        BY <1>6
    <2>2. f[k].item # None <=> k > 1 /\ f[k - 1].op = "drain"
        BY <2>1 DEF StackOK
    <2>3. /\ f[k].op = "deliver" => f[k].root # None
          /\ f[k].op # "read" => f[k].owned = Zero
        BY <2>1 DEF StackOK
    <2>4. Holds(s[k]) => s[k].root \notin l
        BY <2>1 DEF StackOK
    <2>5. Holds(s[k]) /\ Holds(Last(s)) => s[k].root # Last(s).root
        BY <1>5, <2>1 DEF StackOK
    <2> QED BY <2>1, <2>2, <2>3, <2>4, <2>5
<1>9. ASSUME NEW j \in 1..Len(f), NEW k \in 1..Len(f), Holds(f[j]), Holds(f[k]), f[j].root = f[k].root
      PROVE  j = k
    <2>1. j \in 1..Len(s) /\ k \in 1..Len(s) /\ Holds(s[j]) /\ Holds(s[k]) /\ s[j].root = s[k].root
        BY <1>6, <1>9
    <2> QED BY <2>1 DEF StackOK
<1>10. StackOK(f, h2, l2)
    BY <1>7, <1>8, <1>9 DEF StackOK
<1> QED BY <1>2, <1>7, <1>10

(* The last call goes on: what it owns may change, and a write may become the *)
(* callback's.                                                                *)
Continues(s, h, l, g) ==
    /\ g.item = Last(s).item /\ g.op \in {"read", "write", "deliver"}
    /\ g.op = "read" => Last(s).op = "read" /\ g.root = Last(s).root
    /\ g.op = "deliver" => g.root # None
    /\ g.op # "read" => g.owned = Zero
    /\ g.op = "write" => g.root \notin h
    /\ Holds(g) => /\ g.root \notin l
                   /\ \A k \in 1..(Len(s) - 1) : Holds(s[k]) => s[k].root # g.root

LEMMA StackReplace ==
    ASSUME NEW s \in Seq(Calls), s # <<>>, NEW h, NEW l, StackOK(s, h, l), NEW g \in Calls,
           Continues(s, h, l, g)
    PROVE  Append(Front(s), g) \in Seq(Calls) /\ StackOK(Append(Front(s), g), h, l)
<1>0. /\ g.item = Last(s).item /\ g.op \in {"read", "write", "deliver"}
      /\ g.op = "read" => Last(s).op = "read" /\ g.root = Last(s).root
      /\ g.op = "deliver" => g.root # None
      /\ g.op # "read" => g.owned = Zero
      /\ g.op = "write" => g.root \notin h
      /\ Holds(g) => /\ g.root \notin l
                     /\ \A k \in 1..(Len(s) - 1) : Holds(s[k]) => s[k].root # g.root
    BY DEF Continues
<1> DEFINE f == Front(s)
           t == Append(f, g)
           n == Len(s)
<1>1. n \in Nat \ {0} /\ Last(s) = s[n]
    BY FrontProperties
<1>2. f \in Seq(Calls)
    BY FrontProperties
<1>3. Len(f) = n - 1
    BY FrontProperties
<1>4. \A i \in 1..(n - 1) : f[i] = s[i]
    BY FrontProperties
<1> HIDE DEF f, n
<1>5. t \in Seq(Calls)
    BY <1>2
<1>6. Len(t) = n
    <2>1. Len(t) = Len(f) + 1
        BY <1>2
    <2> HIDE DEF t
    <2> QED BY <1>1, <1>3, <2>1
<1>7. t[n] = g /\ \A i \in 1..(n - 1) : t[i] = s[i]
    BY <1>1, <1>2, <1>3, <1>4
<1> HIDE DEF t
<1>8. ASSUME NEW k \in 1..(n - 1)
      PROVE  /\ t[k] = s[k] /\ (k > 1 => t[k - 1] = s[k - 1]) /\ k \in 1..Len(s) /\ k # Len(s)
             /\ s[k].op \notin {"read", "write"}
    <2>1. t[k] = s[k] /\ (k > 1 => t[k - 1] = s[k - 1]) /\ k \in 1..Len(s) /\ k # Len(s)
        BY <1>1, <1>7 DEF n
    <2> QED BY <2>1 DEF StackOK
<1>9. ASSUME NEW k \in 1..Len(t)
      PROVE  /\ t[k].op \in {"read", "write"} => k = Len(t)
             /\ t[k].item # None <=> k > 1 /\ t[k - 1].op = "drain"
             /\ t[k].op = "read" =>
                   t[k].root \in h \/ (k > 1 /\ t[k - 1].op = "deliver" /\ t[k].root = t[k - 1].root)
             /\ t[k].op = "deliver" => t[k].root # None
             /\ t[k].op # "read" => t[k].owned = Zero
             /\ t[k].op = "write" => t[k].root \notin h
             /\ Holds(t[k]) => t[k].root \notin l
    <2>1. CASE k = n
        <3>1. t[k] = g /\ k = Len(t) /\ k \in 1..Len(s) /\ s[k] = Last(s)
            BY <1>1, <1>6, <1>7, <2>1 DEF n
        <3>2. k > 1 => t[k - 1] = s[k - 1]
            BY <1>1, <1>7, <2>1
        <3>3. s[k].item # None <=> k > 1 /\ s[k - 1].op = "drain"
            BY <3>1 DEF StackOK
        <3>4. s[k].op = "read" =>
                s[k].root \in h \/ (k > 1 /\ s[k - 1].op = "deliver" /\ s[k].root = s[k - 1].root)
            BY <3>1 DEF StackOK
        <3> QED BY <1>0, <3>1, <3>2, <3>3, <3>4
    <2>2. CASE k # n
        <3>1. k \in 1..(n - 1)
            BY <1>1, <1>6, <2>2
        <3>2. /\ t[k] = s[k] /\ (k > 1 => t[k - 1] = s[k - 1]) /\ k \in 1..Len(s)
              /\ s[k].op \notin {"read", "write"}
            BY <1>8, <3>1
        <3>3. s[k].item # None <=> k > 1 /\ s[k - 1].op = "drain"
            BY <3>2 DEF StackOK
        <3>4. /\ s[k].op = "deliver" => s[k].root # None
              /\ s[k].op # "read" => s[k].owned = Zero
              /\ Holds(s[k]) => s[k].root \notin l
            BY <3>2 DEF StackOK
        <3> QED BY <3>2, <3>3, <3>4
    <2> QED BY <2>1, <2>2
<1>10. ASSUME NEW j \in 1..Len(t), NEW k \in 1..Len(t), Holds(t[j]), Holds(t[k]), t[j].root = t[k].root
       PROVE  j = k
    <2>1. j = n \/ j \in 1..(n - 1)
        BY <1>1, <1>6
    <2>2. k = n \/ k \in 1..(n - 1)
        BY <1>1, <1>6
    <2>3. \A i \in 1..(n - 1) : t[i] = s[i] /\ i \in 1..Len(s)
        BY <1>8
    <2>4. CASE j = n /\ k \in 1..(n - 1)
        BY <1>0, <1>7, <1>10, <2>3, <2>4 DEF n
    <2>5. CASE k = n /\ j \in 1..(n - 1)
        BY <1>0, <1>7, <1>10, <2>3, <2>5 DEF n
    <2>6. CASE j \in 1..(n - 1) /\ k \in 1..(n - 1)
        BY <1>10, <2>3, <2>6 DEF StackOK
    <2> QED BY <2>1, <2>2, <2>4, <2>5, <2>6
<1>11. StackOK(t, h, l)
    BY <1>9, <1>10 DEF StackOK
<1> QED BY <1>5, <1>11 DEF t, f

(* While the host runs no value is read or built, and it may take or drop     *)
(* references.                                                                *)
LEMMA StackHost ==
    ASSUME NEW s \in Seq(Calls), NEW h, NEW l, StackOK(s, h, l), NEW h2,
           s = <<>> \/ Last(s).op = "deliver"
    PROVE  StackOK(s, h2, l)
<1>1. ASSUME NEW k \in 1..Len(s) PROVE s[k].op \notin {"read", "write"}
    <2>1. Last(s) = s[Len(s)] /\ s # <<>>
        BY DEF Last
    <2> QED BY <2>1 DEF StackOK
<1> QED BY <1>1 DEF StackOK

-----------------------------------------------------------------------------
(* Who refers to what.                                                        *)

LEMMA OneType ==
    ASSUME NEW x, NEW v \in Values
    PROVE  One(x)[v] = (IF v = x THEN 1 ELSE 0) /\ One(x) \in [Values -> Nat] /\ Zero \in [Values -> Nat]
BY DEF One, Zero

LEMMA BaseAppend ==
    ASSUME NEW s \in Seq(Calls), NEW g \in Calls, NEW h, NEW l, NEW v \in Values
    PROVE  Base(h, l, Append(s, g), v) = Base(h, l, s, v) + Owns(g, v)
<1>1. Cardinality(InUse(Append(s, g), v)) = Cardinality(InUse(s, v)) + Owns(g, v)
    BY InUseAppend
<1>2. Cardinality(InUse(s, v)) \in Nat
    BY InUseFinite
<1>3. Owns(g, v) \in Nat
    BY OwnsType
<1> QED BY <1>1, <1>2, <1>3 DEF Base

LEMMA BaseTop ==
    ASSUME NEW s \in Seq(Calls), s # <<>>, NEW h, NEW l, NEW v \in Values
    PROVE  /\ Base(h, l, Front(s), v) \in Nat /\ Owns(Last(s), v) \in Nat
           /\ Base(h, l, s, v) = Base(h, l, Front(s), v) + Owns(Last(s), v)
<1>1. /\ Cardinality(InUse(Front(s), v)) \in Nat /\ Owns(Last(s), v) \in Nat
      /\ Cardinality(InUse(s, v)) = Cardinality(InUse(Front(s), v)) + Owns(Last(s), v)
    BY InUseTop
<1> QED BY <1>1 DEF Base

LEMMA BaseHost ==
    ASSUME NEW s \in Seq(Calls), NEW h, NEW l, NEW x, x \notin h, NEW v \in Values,
           NEW h2, h2 = h \cup {x}
    PROVE  Base(h2, l, s, v) = Base(h, l, s, v) + (IF v = x THEN 1 ELSE 0)
<1>1. Cardinality(InUse(s, v)) \in Nat
    BY InUseFinite
<1> QED BY <1>1 DEF Base

LEMMA BaseLost ==
    ASSUME NEW s \in Seq(Calls), NEW h, NEW l, NEW x, x \notin l, NEW v \in Values,
           NEW l2, l2 = l \cup {x}
    PROVE  Base(h, l2, s, v) = Base(h, l, s, v) + (IF v = x THEN 1 ELSE 0)
<1>1. Cardinality(InUse(s, v)) \in Nat
    BY InUseFinite
<1> QED BY <1>1 DEF Base

(* What a call owns of a value. *)
LEMMA OwnsCases ==
    ASSUME NEW f \in Calls, NEW v \in Values
    PROVE  /\ f.op \in {"read", "drain"} => Owns(f, v) = f.owned[v]
           /\ f.op \in {"write", "deliver"} /\ f.owned = Zero => Owns(f, v) = One(f.root)[v]
           /\ Owns(f, v) >= f.owned[v] /\ f.owned[v] \in Nat
<1>1. f.owned[v] \in Nat
    BY DEF Calls
<1>2. f.op \in {"read", "drain"} => Owns(f, v) = f.owned[v]
    BY <1>1 DEF Owns
<1>3. Owns(f, v) >= f.owned[v]
    BY <1>1 DEF Owns
<1>4. ASSUME f.op \in {"write", "deliver"}, f.owned = Zero
      PROVE  Owns(f, v) = One(f.root)[v]
    BY <1>4 DEF Owns, One, Zero
<1> QED BY <1>1, <1>2, <1>3, <1>4

LEMMA FrameType ==
    ASSUME NEW op \in {"read", "write", "drain", "deliver"}, NEW r \in Values \cup {None},
           NEW i \in Items \cup {None}
    PROVE  /\ Frame(op, r, i) \in Calls
           /\ Frame(op, r, i).op = op /\ Frame(op, r, i).root = r
           /\ Frame(op, r, i).item = i /\ Frame(op, r, i).owned = Zero
<1>1. Zero \in [Values -> Nat]
    BY DEF Zero
<1> QED BY <1>1 DEF Frame, Calls

(* Whatever someone refers to is allocated. *)
LEMMA OwnedAlive ==
    ASSUME QuickInv
    PROVE  /\ host \subseteq alive /\ lost \subseteq alive
           /\ \A k \in 1..Len(stack), v \in Values : Owns(stack[k], v) > 0 => v \in alive
           /\ \A k \in 1..Len(stack) : Holds(stack[k]) => stack[k].root \in alive
           /\ \A u \in Values : child[u] \subseteq alive
<1>0. HeapTypes /\ Types /\ RefInv
    BY DEF QuickInv
<1>1. ASSUME NEW v \in Values, v \notin alive
      PROVE  Base(host, lost, stack, v) = 0 /\ Links(v, alive, child) = 0
    <2>1. Base(host, lost, stack, v) \in Nat
        BY <1>0, BaseType DEF Types
    <2>2. Links(v, alive, child) \in Nat
        BY <1>0, LinksType DEF HeapTypes
    <2>3. Base(host, lost, stack, v) + Links(v, alive, child) = 0
        BY <1>0, <1>1 DEF RefInv
    <2> QED BY <2>1, <2>2, <2>3
<1>2. ASSUME NEW v \in Values, v \notin alive
      PROVE  v \notin host /\ v \notin lost /\ Cardinality(InUse(stack, v)) = 0
    <2>1. Base(host, lost, stack, v) = 0
        BY <1>1, <1>2
    <2>2. Cardinality(InUse(stack, v)) \in Nat
        BY <1>0, InUseFinite DEF Types
    <2> QED BY <2>1, <2>2 DEF Base
<1>3. host \subseteq alive /\ lost \subseteq alive
    BY <1>0, <1>2 DEF Types
<1>4. ASSUME NEW k \in 1..Len(stack), NEW v \in Values, Owns(stack[k], v) > 0
      PROVE  v \in alive
    <2>1. Cardinality(InUse(stack, v)) > 0
        BY <1>0, <1>4, InUsePositive DEF Types
    <2> QED BY <1>2, <2>1
<1>5. ASSUME NEW k \in 1..Len(stack), Holds(stack[k])
      PROVE  stack[k].root \in alive
    <2>1. stack[k] \in Calls
        BY <1>0 DEF Types
    <2>2. stack[k].root \in Values /\ stack[k].op \in {"write", "deliver"}
        BY <1>5, <2>1 DEF Calls, Holds
    <2>3. stack[k].owned[stack[k].root] \in Nat
        BY <2>1, <2>2 DEF Calls
    <2>4. Owns(stack[k], stack[k].root) > 0
        BY <2>2, <2>3 DEF Owns
    <2> QED BY <1>4, <2>2, <2>4
<1>6. ASSUME NEW u \in Values, NEW v \in child[u]
      PROVE  v \in alive
    <2>1. v \in Values /\ u \in alive
        BY <1>0, <1>6 DEF HeapTypes, RefInv
    <2>2. CASE v \notin alive
        <3>1. Links(v, alive, child) = 0
            BY <1>1, <2>1, <2>2
        <3>2. \A p \in alive : v \notin child[p]
            BY <1>0, <3>1, LinksNone DEF HeapTypes
        <3> QED BY <1>6, <2>1, <3>2
    <2> QED BY <2>2
<1> QED BY <1>3, <1>4, <1>5, <1>6

(* and what can be reached from allocated values is. *)
LEMMA ReachAlive ==
    ASSUME QuickInv, NEW S, S \subseteq alive
    PROVE  Reach(S) \subseteq alive
<1>1. alive \in SUBSET Values /\ \A u \in alive : child[u] \subseteq alive
    BY OwnedAlive DEF QuickInv, HeapTypes
<1> QED BY <1>1 DEF Reach

(* An address that is not allocated is in no one's hands. *)
LEMMA NewIsUnused ==
    ASSUME QuickInv, NEW v \in Values, v \notin alive
    PROVE  /\ v \notin host /\ v \notin lost
           /\ \A k \in 1..Len(stack) : Holds(stack[k]) => stack[k].root # v
           /\ \A u \in Values : v \notin child[u]
           /\ child[v] = {} /\ refs[v] = 0
BY OwnedAlive DEF QuickInv, RefInv

-----------------------------------------------------------------------------
(* The steps that move no reference.                                          *)

LEMMA SameRefs ==
    ASSUME HeapTypes, RefInv, UNCHANGED heap,
           \A v \in Values : Base(host', lost', stack', v) = Base(host, lost, stack, v)
    PROVE  HeapTypes' /\ RefInv'
<1>1. HeapTypes'
    BY DEF HeapTypes, heap
<1>2. \A v \in Values : refs'[v] = Base(host', lost', stack', v) + Links(v, alive', child')
    BY DEF RefInv, heap
<1> QED BY <1>1, <1>2 DEF RefInv, heap

LEMMA SameItems ==
    ASSUME ItemInv, UNCHANGED <<sent, queue, calls>>,
           \A k \in 1..Len(stack') : stack'[k].op = "write" /\ stack'[k].item # None =>
              \E j \in 1..Len(stack) : stack[j].op = "write" /\ stack[j].item = stack'[k].item
    PROVE  ItemInv'
<1>1. ASSUME NEW k \in 1..Len(stack'), stack'[k].op = "write", stack'[k].item # None
      PROVE  calls[stack'[k].item] = 0 /\ stack'[k].item \in sent \ queue
    <2>1. PICK j \in 1..Len(stack) : stack[j].op = "write" /\ stack[j].item = stack'[k].item
        BY <1>1
    <2> QED BY <1>1, <2>1 DEF ItemInv
<1> QED BY <1>1 DEF ItemInv

(* A call is made that owns nothing yet. *)
LEMMA CallKeeps ==
    ASSUME QuickInv, NEW op \in {"read", "write", "drain"}, NEW r \in Values \cup {None},
           NEW i \in Items \cup {None},
           stack # <<>> => Top.op \in {"drain", "deliver"},
           i # None <=> In("drain"),
           op = "read" => r \in host \/ (In("deliver") /\ r = Top.root),
           op # "read" => r = None,
           stack' = Append(stack, Frame(op, r, i)),
           UNCHANGED <<heap, host, lost>>
    PROVE  HeapTypes' /\ RefInv' /\ stack' \in Seq(Calls) /\ StackOK(stack', host', lost')
<1> DEFINE g == Frame(op, r, i)
<1>1. HeapTypes /\ Types /\ RefInv /\ StackOK(stack, host, lost) /\ stack \in Seq(Calls) /\ None \notin host
    BY ItemAssumption DEF QuickInv, Types
<1>2. g \in Calls /\ g.op = op /\ g.root = r /\ g.item = i /\ g.owned = Zero
    BY FrameType
<1>3. ASSUME NEW v \in Values
      PROVE  Owns(g, v) = 0
    BY <1>2, ItemAssumption DEF Owns, Zero
<1> HIDE DEF g
<1>4. stack' \in Seq(Calls) /\ StackOK(stack', host', lost')
    <2>1. /\ g.op \in {"read", "write", "drain"}
          /\ stack # <<>> => Last(stack).op \in {"drain", "deliver"}
          /\ g.item # None <=> stack # <<>> /\ Last(stack).op = "drain"
          /\ g.op = "read" =>
               g.root \in host \/ (stack # <<>> /\ Last(stack).op = "deliver" /\ g.root = Last(stack).root)
          /\ g.op # "read" => g.owned = Zero
          /\ g.op = "write" => g.root = None /\ None \notin host
        BY <1>1, <1>2 DEF In, Top
    <2>2. Append(stack, g) \in Seq(Calls) /\ StackOK(Append(stack, g), host, lost)
        BY <1>1, <1>2, <2>1, StackPush
    <2> QED BY <2>2 DEF g
<1>5. ASSUME NEW v \in Values
      PROVE  Base(host', lost', stack', v) = Base(host, lost, stack, v)
    <2>1. Base(host, lost, Append(stack, g), v) = Base(host, lost, stack, v) + Owns(g, v)
        BY <1>1, <1>2, BaseAppend
    <2>2. Base(host, lost, stack, v) \in Nat
        BY <1>1, BaseType
    <2>3. stack' = Append(stack, g)
        BY DEF g
    <2> QED BY <1>3, <2>1, <2>2, <2>3
<1>6. UNCHANGED heap
    OBVIOUS
<1> QED BY <1>1, <1>4, <1>5, <1>6, SameRefs

(* A call that is not an item's leaves the items alone. *)
LEMMA CallItems ==
    ASSUME QuickInv, NEW g, g.op = "write" => g.item = None,
           stack' = Append(stack, g), UNCHANGED <<sent, queue, calls>>
    PROVE  ItemInv'
<1>1. ASSUME NEW k \in 1..Len(stack'), stack'[k].op = "write", stack'[k].item # None
      PROVE  \E j \in 1..Len(stack) : stack[j].op = "write" /\ stack[j].item = stack'[k].item
    <2>1. stack \in Seq(Calls)
        BY DEF QuickInv, Types
    <2>2. k # Len(stack) + 1
        BY <1>1, <2>1
    <2>3. k \in 1..Len(stack) /\ stack'[k] = stack[k]
        BY <2>1, <2>2
    <2> QED BY <1>1, <2>3
<1>2. ItemInv
    BY DEF QuickInv
<1> QED BY <1>1, <1>2, SameItems

LEMMA NextRead ==
    ASSUME QuickInv, NEW r \in Values, Read(r) PROVE QuickInv'
<1>1. /\ HostRuns
      /\ r \in host \/ (In("deliver") /\ r = Top.root)
      /\ stack' = Append(stack, Frame("read", r, None))
      /\ UNCHANGED <<heap, host, lost>> /\ UNCHANGED <<sent, queue, calls>>
    BY DEF Read, Push
<1>2. (stack # <<>> => Top.op \in {"drain", "deliver"}) /\ ~In("drain")
    BY <1>1 DEF HostRuns, In
<1>3. HeapTypes' /\ RefInv' /\ stack' \in Seq(Calls) /\ StackOK(stack', host', lost')
    BY <1>1, <1>2, CallKeeps
<1>4. ItemInv'
    <2>1. Frame("read", r, None).op # "write"
        BY DEF Frame
    <2> QED BY <1>1, <2>1, CallItems
<1>5. Types'
    BY <1>1, <1>3 DEF QuickInv, Types
<1> QED BY <1>3, <1>4, <1>5 DEF QuickInv

LEMMA NextWrite ==
    ASSUME QuickInv, Write PROVE QuickInv'
<1>1. /\ HostRuns /\ stack' = Append(stack, Frame("write", None, None))
      /\ UNCHANGED <<heap, host, lost>> /\ UNCHANGED <<sent, queue, calls>>
    BY DEF Write, Push
<1>2. (stack # <<>> => Top.op \in {"drain", "deliver"}) /\ ~In("drain")
    BY <1>1 DEF HostRuns, In
<1>3. HeapTypes' /\ RefInv' /\ stack' \in Seq(Calls) /\ StackOK(stack', host', lost')
    BY <1>1, <1>2, CallKeeps
<1>4. ItemInv'
    <2>1. Frame("write", None, None).item = None
        BY DEF Frame
    <2> QED BY <1>1, <2>1, CallItems
<1>5. Types'
    BY <1>1, <1>3 DEF QuickInv, Types
<1> QED BY <1>3, <1>4, <1>5 DEF QuickInv

LEMMA NextDrain ==
    ASSUME QuickInv, Drain PROVE QuickInv'
<1>1. /\ HostRuns /\ stack' = Append(stack, Frame("drain", None, None))
      /\ UNCHANGED <<heap, host, lost>> /\ UNCHANGED <<sent, queue, calls>>
    BY DEF Drain, Push
<1>2. (stack # <<>> => Top.op \in {"drain", "deliver"}) /\ ~In("drain")
    BY <1>1 DEF HostRuns, In
<1>3. HeapTypes' /\ RefInv' /\ stack' \in Seq(Calls) /\ StackOK(stack', host', lost')
    BY <1>1, <1>2, CallKeeps
<1>4. ItemInv'
    <2>1. Frame("drain", None, None).op # "write"
        BY DEF Frame
    <2> QED BY <1>1, <2>1, CallItems
<1>5. Types'
    BY <1>1, <1>3 DEF QuickInv, Types
<1> QED BY <1>3, <1>4, <1>5 DEF QuickInv

LEMMA NextDequeue ==
    ASSUME QuickInv, NEW i \in Items, Dequeue(i) PROVE QuickInv'
<1>1. /\ In("drain") /\ i \in queue /\ i \in sent /\ i # None
      /\ queue' = queue \ {i} /\ UNCHANGED <<heap, host, lost>> /\ UNCHANGED <<sent, calls>>
    BY ItemAssumption DEF Dequeue, QuickInv, Types
<1>2. HeapTypes /\ Types /\ RefInv /\ ItemInv /\ StackOK(stack, host, lost) /\ stack \in Seq(Calls)
    BY DEF QuickInv, Types
<1>3. calls[i] = 0
    BY <1>1, <1>2 DEF ItemInv
<1>4. CASE i \in Hollow
    <2>1. stack' = stack
        BY <1>4 DEF Dequeue
    <2>2. HeapTypes' /\ RefInv'
        BY <1>1, <1>2, <2>1, SameRefs
    <2>3. StackOK(stack', host', lost')
        BY <1>1, <1>2, <2>1
    <2>4. Types' /\ ItemInv'
        BY <1>1, <1>2, <2>1 DEF Types, ItemInv
    <2> QED BY <2>2, <2>3, <2>4 DEF QuickInv
<1>5. CASE i \notin Hollow
    <2>1. stack' = Append(stack, Frame("write", None, i))
        BY <1>5 DEF Dequeue, Push
    <2>2. stack # <<>> /\ Top.op \in {"drain", "deliver"}
        BY <1>1 DEF In
    <2>3. HeapTypes' /\ RefInv' /\ stack' \in Seq(Calls) /\ StackOK(stack', host', lost')
        BY <1>1, <2>1, <2>2, CallKeeps
    <2>4. ItemInv'
        <3>1. Frame("write", None, i).item = i
            BY DEF Frame
        <3>2. ASSUME NEW k \in 1..Len(stack'), stack'[k].op = "write", stack'[k].item # None
              PROVE  calls[stack'[k].item] = 0 /\ stack'[k].item \in sent /\ stack'[k].item \notin queue'
            <4>1. CASE k = Len(stack) + 1
                <5>1. stack'[k].item = i
                    BY <1>2, <2>1, <3>1, <4>1
                <5> QED BY <1>1, <1>3, <5>1
            <4>2. CASE k # Len(stack) + 1
                <5>1. k \in 1..Len(stack) /\ stack'[k] = stack[k]
                    BY <1>2, <2>1, <4>2
                <5> QED BY <1>1, <1>2, <3>2, <5>1 DEF ItemInv
            <4> QED BY <4>1, <4>2
        <3>3. \A j \in Items : calls[j] <= 1 /\ (j \notin sent \/ j \in queue' => calls[j] = 0)
            BY <1>1, <1>2 DEF ItemInv
        <3> QED BY <1>1, <3>2, <3>3 DEF ItemInv
    <2>5. Types'
        BY <1>1, <1>2, <2>3 DEF Types
    <2> QED BY <2>3, <2>4, <2>5 DEF QuickInv
<1> QED BY <1>4, <1>5

LEMMA NextSend ==
    ASSUME QuickInv, NEW i \in Items, Send(i) PROVE QuickInv'
<1>1. /\ i \notin sent /\ sent' = sent \cup {i} /\ queue' = queue \cup {i}
      /\ UNCHANGED heap /\ UNCHANGED <<host, stack, calls, lost>>
    BY DEF Send
<1>2. HeapTypes /\ Types /\ RefInv /\ ItemInv /\ StackOK(stack, host, lost)
    BY DEF QuickInv
<1>3. HeapTypes' /\ RefInv'
    BY <1>1, <1>2, SameRefs
<1>4. Types' /\ StackOK(stack', host', lost')
    BY <1>1, <1>2 DEF Types
<1>5. ItemInv'
    BY <1>1, <1>2 DEF ItemInv
<1> QED BY <1>3, <1>4, <1>5 DEF QuickInv

-----------------------------------------------------------------------------
(* The steps that end a call.                                                 *)

LEMMA ReleaseRefs ==
    ASSUME QuickInv, NEW b \in [Values -> Nat], NEW props \in [Values -> SUBSET Values],
           stack' \in Seq(Calls),
           \A v \in Values \ alive : props[v] = {},
           \A v \in Values : Base(host, lost, stack, v) + Links(v, alive, child)
                                = b[v] + Base(host', lost', stack', v) + Links(v, alive, props),
           Release(b, props)
    PROVE  HeapTypes' /\ RefInv'
<1>1. HeapTypes /\ RefInv
    BY DEF QuickInv
<1>2. PICK rest \in [Values -> Nat] : \A v \in Values : rest[v] = Base(host', lost', stack', v)
    <2> DEFINE rest == [v \in Values |-> Base(host', lost', stack', v)]
    <2>1. \A v \in Values : Base(host', lost', stack', v) \in Nat
        BY BaseType
    <2>2. rest \in [Values -> Nat] /\ \A v \in Values : rest[v] = Base(host', lost', stack', v)
        BY <2>1
    <2> QED BY <2>2
<1>3. \A v \in Values : refs[v] = b[v] + rest[v] + Links(v, alive, props)
    BY <1>1, <1>2 DEF RefInv
<1>4. \A v \in Values \ alive : refs[v] = 0 /\ props[v] = {}
    BY <1>1 DEF RefInv
<1>5. /\ HeapTypes'
      /\ \A v \in Values : refs'[v] = rest[v] + Links(v, alive', child')
      /\ \A v \in Values \ alive' : refs'[v] = 0 /\ child'[v] = {}
      /\ \A v \in alive' : refs'[v] > 0
    BY <1>1, <1>3, <1>4, ReleaseKeeps
<1>6. RefInv'
    BY <1>2, <1>5 DEF RefInv
<1> QED BY <1>5, <1>6

LEMMA PopKeeps ==
    ASSUME QuickInv, stack # <<>>, NEW n \in 0..(Len(stack) - 1), stack' = SubSeq(stack, 1, n),
           lost' = lost \/ (Holds(Top) /\ lost' = lost \cup {Top.root})
    PROVE  /\ stack' \in Seq(Calls) /\ StackOK(stack', host', lost')
           /\ \A k \in 1..Len(stack') : stack'[k].op # "write"
<1>1. stack \in Seq(Calls) /\ StackOK(stack, host, lost)
    BY DEF QuickInv, Types
<1>2. lost' = lost \/ (Holds(Last(stack)) /\ lost' = lost \cup {Last(stack).root})
    BY DEF Top
<1>3. /\ stack' \in Seq(Calls) /\ StackOK(stack', host', lost')
      /\ \A k \in 1..Len(stack') : stack'[k].op \in {"drain", "deliver"}
    BY <1>1, <1>2, StackPop
<1> QED BY <1>3

LEMMA TopFacts ==
    ASSUME QuickInv, stack # <<>>
    PROVE  /\ stack \in Seq(Calls) /\ Len(stack) \in Nat \ {0} /\ Len(stack) - 1 \in 0..(Len(stack) - 1)
           /\ Len(stack) \in 1..Len(stack) /\ Top = stack[Len(stack)] /\ Top \in Calls
           /\ Front(stack) = SubSeq(stack, 1, Len(stack) - 1)
           /\ Front(stack) \in Seq(Calls)
           /\ Top.op # "read" => Top.owned = Zero
           /\ Holds(Top) => Top.root \in alive /\ Top.root \notin lost /\ Top.root \in Values
<1>1. stack \in Seq(Calls) /\ StackOK(stack, host, lost) /\ alive \subseteq Values
    BY DEF QuickInv, Types, HeapTypes
<1>2. Len(stack) \in Nat \ {0} /\ Last(stack) = stack[Len(stack)] /\ Last(stack) \in Calls
    BY <1>1, FrontProperties
<1>3. Front(stack) \in Seq(Calls)
    BY <1>1, FrontProperties
<1>4. Front(stack) = SubSeq(stack, 1, Len(stack) - 1)
    BY DEF Front
<1>5. Len(stack) - 1 \in 0..(Len(stack) - 1) /\ Len(stack) \in 1..Len(stack)
    BY <1>2
<1>6. Top = stack[Len(stack)] /\ Top \in Calls
    BY <1>2 DEF Top
<1>7. Top.op # "read" => Top.owned = Zero
    BY <1>1, <1>5, <1>6 DEF StackOK
<1>8. Holds(Top) => Top.root \in alive
    BY <1>5, <1>6, OwnedAlive
<1>9. Holds(Top) => Top.root \notin lost
    BY <1>1, <1>5, <1>6 DEF StackOK
<1> QED BY <1>1, <1>2, <1>3, <1>4, <1>5, <1>6, <1>7, <1>8, <1>9

(* An exception takes with it what the call owned, the drain it came from     *)
(* owning nothing.                                                            *)
LEMMA UnwindKeeps ==
    ASSUME QuickInv, stack # <<>>, Unwind
    PROVE  /\ \E n \in 0..(Len(stack) - 1) : stack' = SubSeq(stack, 1, n)
           /\ stack' \in Seq(Calls)
           /\ \A h, l : \A v \in Values :
                 /\ Base(h, l, stack', v) \in Nat /\ Owns(Top, v) \in Nat
                 /\ Base(h, l, stack, v) = Base(h, l, stack', v) + Owns(Top, v)
<1>1. stack \in Seq(Calls) /\ Len(stack) \in Nat \ {0} /\ Top = stack[Len(stack)]
    BY TopFacts
<1>2. /\ Len(stack) - 1 \in 0..(Len(stack) - 1) /\ Len(stack) \in 1..Len(stack)
      /\ Front(stack) = SubSeq(stack, 1, Len(stack) - 1) /\ Front(stack) \in Seq(Calls)
    BY TopFacts
<1>3. CASE Top.item = None
    <2>1. stack' = SubSeq(stack, 1, Len(stack) - 1)
        BY <1>3 DEF Unwind
    <2>2. stack' = Front(stack)
        BY <1>2, <2>1
    <2>3. ASSUME NEW h, NEW l, NEW v \in Values
          PROVE  /\ Base(h, l, stack', v) \in Nat /\ Owns(Top, v) \in Nat
                 /\ Base(h, l, stack, v) = Base(h, l, stack', v) + Owns(Top, v)
        <3>1. /\ Base(h, l, Front(stack), v) \in Nat /\ Owns(Last(stack), v) \in Nat
              /\ Base(h, l, stack, v) = Base(h, l, Front(stack), v) + Owns(Last(stack), v)
            BY <1>1, BaseTop
        <3> QED BY <2>2, <3>1 DEF Top
    <2>4. \E n \in 0..(Len(stack) - 1) : stack' = SubSeq(stack, 1, n)
        BY <1>2, <2>1
    <2> QED BY <1>2, <2>2, <2>3, <2>4
<1>4. CASE Top.item # None
    <2> DEFINE f == Front(stack)
               m == Len(stack) - 2
    <2>1. stack' = SubSeq(stack, 1, m)
        BY <1>4 DEF Unwind
    <2>2. Len(stack) > 1 /\ stack[Len(stack) - 1].op = "drain"
        <3>1. Len(stack) > 1 /\ stack[Len(stack) - 1].op = "drain"
            <4>1. StackOK(stack, host, lost)
                BY DEF QuickInv
            <4> QED BY <1>1, <1>2, <1>4, <4>1 DEF StackOK
        <3> QED BY <3>1
    <2>3. m \in 0..(Len(stack) - 1) /\ m \in Nat /\ m + 1 = Len(stack) - 1 /\ m \in 0..Len(stack)
        BY <1>1, <2>2
    <2>4. f \in Seq(Calls) /\ Len(f) = m + 1 /\ \A i \in 1..(m + 1) : f[i] = stack[i]
        <3>1. f \in Seq(Calls)
            BY <1>2
        <3>2. Len(f) = Len(stack) - 1
            BY <1>1, FrontProperties
        <3>3. \A i \in 1..(Len(stack) - 1) : f[i] = stack[i]
            BY <1>1, FrontProperties
        <3> QED BY <2>3, <3>1, <3>2, <3>3
    <2> HIDE DEF f
    <2>5. f # <<>> /\ Last(f) = stack[m + 1]
        BY <2>3, <2>4 DEF Last
    <2>6. Front(f) \in Seq(Calls)
        BY <2>4, <2>5, FrontProperties
    <2>7. Len(Front(f)) = Len(f) - 1
        BY <2>4, <2>5, FrontProperties
    <2>8. \A i \in 1..(Len(f) - 1) : Front(f)[i] = f[i]
        BY <2>4, <2>5, FrontProperties
    <2> HIDE DEF m
    <2>9. stack' \in Seq(Calls)
        BY <1>1, <2>1, <2>3, PrefixProperties
    <2>10. Len(stack') = m
        BY <1>1, <2>1, <2>3, PrefixProperties
    <2>11. \A i \in 1..m : stack'[i] = stack[i]
        BY <1>1, <2>1, <2>3, PrefixProperties
    <2>12. Len(Front(f)) = m /\ \A i \in 1..m : Front(f)[i] = stack[i]
        BY <2>3, <2>4, <2>7, <2>8
    <2>13. stack' = Front(f)
        BY <2>6, <2>9, <2>10, <2>11, <2>12, SeqEqual
    <2>14. Last(f) \in Calls /\ Last(f).op = "drain" /\ Last(f).owned = Zero
        <3>1. Last(f) = stack[m + 1] /\ m + 1 \in 1..Len(stack) /\ stack[m + 1].op = "drain"
            BY <1>1, <2>2, <2>3, <2>5
        <3>2. StackOK(stack, host, lost)
            BY DEF QuickInv
        <3> QED BY <1>1, <3>1, <3>2 DEF StackOK
    <2>15. ASSUME NEW h, NEW l, NEW v \in Values
           PROVE  /\ Base(h, l, stack', v) \in Nat /\ Owns(Top, v) \in Nat
                  /\ Base(h, l, stack, v) = Base(h, l, stack', v) + Owns(Top, v)
        <3>1. /\ Base(h, l, Front(stack), v) \in Nat /\ Owns(Last(stack), v) \in Nat
              /\ Base(h, l, stack, v) = Base(h, l, Front(stack), v) + Owns(Last(stack), v)
            BY <1>1, BaseTop
        <3>2. /\ Base(h, l, Front(f), v) \in Nat
              /\ Base(h, l, f, v) = Base(h, l, Front(f), v) + Owns(Last(f), v)
            BY <2>4, <2>5, BaseTop
        <3>3. Owns(Last(f), v) = 0
            BY <2>14 DEF Owns, Zero
        <3> QED BY <2>13, <3>1, <3>2, <3>3 DEF Top, f
    <2>16. \E n \in 0..(Len(stack) - 1) : stack' = SubSeq(stack, 1, n)
        BY <2>1, <2>3
    <2> QED BY <2>9, <2>15, <2>16
<1> QED BY <1>3, <1>4

(* No item is being built any more. *)
LEMMA PopItems ==
    ASSUME QuickInv, UNCHANGED <<sent, queue, calls>>,
           \A k \in 1..Len(stack') : stack'[k].op # "write"
    PROVE  ItemInv'
BY DEF QuickInv, ItemInv

LEMMA NextReadEnds ==
    ASSUME QuickInv, ReadEnds PROVE QuickInv'
<1>1. /\ stack # <<>> /\ Top.op = "read" /\ Release(Top.owned, child) /\ stack' = Front(stack)
      /\ UNCHANGED <<host, lost>> /\ UNCHANGED <<sent, queue, calls>>
    BY DEF ReadEnds, In
<1>2. HeapTypes /\ Types /\ RefInv /\ ItemInv
    BY DEF QuickInv
<1>3. /\ stack \in Seq(Calls) /\ Len(stack) - 1 \in 0..(Len(stack) - 1) /\ Top \in Calls
      /\ stack' = SubSeq(stack, 1, Len(stack) - 1)
    BY <1>1, TopFacts
<1>4. /\ stack' \in Seq(Calls) /\ StackOK(stack', host', lost')
      /\ \A k \in 1..Len(stack') : stack'[k].op # "write"
    BY <1>1, <1>3, PopKeeps
<1>5. ItemInv'
    BY <1>1, <1>4, PopItems
<1>6. ASSUME NEW v \in Values
      PROVE  Base(host, lost, stack, v) + Links(v, alive, child)
                = Top.owned[v] + Base(host', lost', stack', v) + Links(v, alive, child)
    <2>1. /\ Base(host, lost, Front(stack), v) \in Nat
          /\ Base(host, lost, stack, v) = Base(host, lost, Front(stack), v) + Owns(Last(stack), v)
        BY <1>1, <1>3, BaseTop
    <2>2. Owns(Top, v) = Top.owned[v] /\ Top.owned[v] \in Nat
        BY <1>1, <1>3, OwnsCases
    <2>3. Links(v, alive, child) \in Nat
        BY <1>2, LinksType DEF HeapTypes
    <2> QED BY <1>1, <2>1, <2>2, <2>3 DEF Top
<1>7. /\ Top.owned \in [Values -> Nat] /\ child \in [Values -> SUBSET Values]
      /\ \A v \in Values \ alive : child[v] = {}
    BY <1>2, <1>3 DEF Calls, HeapTypes, RefInv
<1>8. HeapTypes' /\ RefInv'
    BY <1>1, <1>4, <1>6, <1>7, ReleaseRefs
<1>9. Types'
    BY <1>1, <1>2, <1>4 DEF Types
<1> QED BY <1>4, <1>5, <1>8, <1>9 DEF QuickInv

LEMMA NextCallbackReturns ==
    ASSUME QuickInv, CallbackReturns PROVE QuickInv'
<1>1. /\ stack # <<>> /\ Top.op = "deliver" /\ Release(One(Top.root), child) /\ stack' = Front(stack)
      /\ UNCHANGED <<host, lost>> /\ UNCHANGED <<sent, queue, calls>>
    BY DEF CallbackReturns, In
<1>2. HeapTypes /\ Types /\ RefInv /\ ItemInv
    BY DEF QuickInv
<1>3. /\ stack \in Seq(Calls) /\ Len(stack) - 1 \in 0..(Len(stack) - 1) /\ Top \in Calls
      /\ stack' = SubSeq(stack, 1, Len(stack) - 1) /\ Top.owned = Zero
    BY <1>1, TopFacts
<1>4. /\ stack' \in Seq(Calls) /\ StackOK(stack', host', lost')
      /\ \A k \in 1..Len(stack') : stack'[k].op # "write"
    BY <1>1, <1>3, PopKeeps
<1>5. ItemInv'
    BY <1>1, <1>4, PopItems
<1>6. ASSUME NEW v \in Values
      PROVE  Base(host, lost, stack, v) + Links(v, alive, child)
                = One(Top.root)[v] + Base(host', lost', stack', v) + Links(v, alive, child)
    <2>1. /\ Base(host, lost, Front(stack), v) \in Nat
          /\ Base(host, lost, stack, v) = Base(host, lost, Front(stack), v) + Owns(Last(stack), v)
        BY <1>1, <1>3, BaseTop
    <2>2. Owns(Top, v) = One(Top.root)[v]
        BY <1>1, <1>3, OwnsCases
    <2>3. One(Top.root)[v] \in Nat
        BY OneType
    <2>4. Links(v, alive, child) \in Nat
        BY <1>2, LinksType DEF HeapTypes
    <2> QED BY <1>1, <2>1, <2>2, <2>3, <2>4 DEF Top
<1>7. /\ One(Top.root) \in [Values -> Nat] /\ child \in [Values -> SUBSET Values]
      /\ \A v \in Values \ alive : child[v] = {}
    BY <1>2 DEF One, Zero, HeapTypes, RefInv
<1>8. HeapTypes' /\ RefInv'
    BY <1>1, <1>4, <1>6, <1>7, ReleaseRefs
<1>9. Types'
    BY <1>1, <1>2, <1>4 DEF Types
<1> QED BY <1>4, <1>5, <1>8, <1>9 DEF QuickInv

LEMMA NextDrainEnds ==
    ASSUME QuickInv, DrainEnds PROVE QuickInv'
<1>1. /\ stack # <<>> /\ Top.op = "drain" /\ stack' = Front(stack)
      /\ UNCHANGED heap /\ UNCHANGED <<host, lost>> /\ UNCHANGED <<sent, queue, calls>>
    BY DEF DrainEnds, In
<1>2. HeapTypes /\ Types /\ RefInv /\ ItemInv
    BY DEF QuickInv
<1>3. /\ stack \in Seq(Calls) /\ Len(stack) - 1 \in 0..(Len(stack) - 1) /\ Top \in Calls
      /\ stack' = SubSeq(stack, 1, Len(stack) - 1) /\ Top.owned = Zero
    BY <1>1, TopFacts
<1>4. /\ stack' \in Seq(Calls) /\ StackOK(stack', host', lost')
      /\ \A k \in 1..Len(stack') : stack'[k].op # "write"
    BY <1>1, <1>3, PopKeeps
<1>5. ItemInv'
    BY <1>1, <1>4, PopItems
<1>6. ASSUME NEW v \in Values
      PROVE  Base(host', lost', stack', v) = Base(host, lost, stack, v)
    <2>1. /\ Base(host, lost, Front(stack), v) \in Nat
          /\ Base(host, lost, stack, v) = Base(host, lost, Front(stack), v) + Owns(Last(stack), v)
        BY <1>1, <1>3, BaseTop
    <2>2. Owns(Top, v) = 0
        BY <1>1, <1>3 DEF Owns, Zero
    <2> QED BY <1>1, <2>1, <2>2 DEF Top
<1>7. HeapTypes' /\ RefInv'
    BY <1>1, <1>2, <1>6, SameRefs
<1>8. Types'
    BY <1>1, <1>2, <1>4 DEF Types
<1> QED BY <1>4, <1>5, <1>7, <1>8 DEF QuickInv

(* The root no one will free is counted as lost. *)
LEMMA NextThrow ==
    ASSUME QuickInv, AddFails \/ CallbackThrows PROVE QuickInv'
<1>1. /\ stack # <<>> /\ Top.op \in {"write", "deliver"} /\ Unwind
      /\ lost' = lost \cup ({Top.root} \ {None})
      /\ UNCHANGED heap /\ UNCHANGED host /\ UNCHANGED <<sent, queue, calls>>
    <2>1. CASE AddFails
        BY <2>1 DEF AddFails, In
    <2>2. CASE CallbackThrows
        <3>1. stack # <<>> /\ Top = Last(stack) /\ Top.op = "deliver"
            BY <2>2 DEF CallbackThrows, In, Top
        <3>2. Top.root # None
            <4>1. Len(stack) \in 1..Len(stack) /\ Top = stack[Len(stack)]
                BY <3>1, TopFacts
            <4>2. StackOK(stack, host, lost)
                BY DEF QuickInv
            <4> QED BY <3>1, <4>1, <4>2 DEF StackOK
        <3>3. lost' = lost \cup {Top.root} /\ Unwind
            BY <2>2 DEF CallbackThrows
        <3>4. UNCHANGED heap /\ UNCHANGED host /\ UNCHANGED <<sent, queue, calls>>
            BY <2>2 DEF CallbackThrows
        <3> QED BY <3>1, <3>2, <3>3, <3>4
    <2> QED BY <2>1, <2>2
<1>2. HeapTypes /\ Types /\ RefInv /\ ItemInv
    BY DEF QuickInv
<1>3. /\ stack \in Seq(Calls) /\ Top \in Calls /\ Top.owned = Zero
      /\ Holds(Top) => Top.root \notin lost /\ Top.root \in Values
    BY <1>1, TopFacts
<1>4. Top.root # None <=> Holds(Top)
    BY <1>1 DEF Holds
<1>5. PICK n \in 0..(Len(stack) - 1) : stack' = SubSeq(stack, 1, n)
    BY <1>1, UnwindKeeps
<1>6. lost' = lost \/ (Holds(Top) /\ lost' = lost \cup {Top.root})
    BY <1>1, <1>4
<1>7. /\ stack' \in Seq(Calls) /\ StackOK(stack', host', lost')
      /\ \A k \in 1..Len(stack') : stack'[k].op # "write"
    BY <1>1, <1>5, <1>6, PopKeeps
<1>8. ItemInv'
    BY <1>1, <1>7, PopItems
<1>9. ASSUME NEW v \in Values
      PROVE  Base(host', lost', stack', v) = Base(host, lost, stack, v)
    <2>1. /\ Base(host, lost, stack', v) \in Nat
          /\ Base(host, lost, stack, v) = Base(host, lost, stack', v) + Owns(Top, v)
        BY <1>1, UnwindKeeps
    <2>2. Owns(Top, v) = One(Top.root)[v]
        BY <1>1, <1>3, OwnsCases
    <2>3. CASE Holds(Top)
        <3>1. lost' = lost \cup {Top.root} /\ Top.root \notin lost
            BY <1>1, <1>3, <1>4, <2>3
        <3>2. PICK r \in Values : r = Top.root
            BY <1>3, <2>3
        <3>3. Base(host, lost', stack', v) = Base(host, lost, stack', v) + (IF v = r THEN 1 ELSE 0)
            BY <1>7, <3>1, <3>2, BaseLost
        <3>4. One(r)[v] = (IF v = r THEN 1 ELSE 0)
            BY OneType
        <3> QED BY <1>1, <2>1, <2>2, <3>2, <3>3, <3>4
    <2>4. CASE ~Holds(Top)
        <3>1. lost' = lost /\ Top.root = None
            BY <1>1, <1>4, <2>4
        <3>2. v # None
            BY ItemAssumption
        <3>3. One(None)[v] = 0
            BY <3>2 DEF One, Zero
        <3>4. One(Top.root)[v] = 0
            BY <3>1, <3>3
        <3>5. Base(host', lost', stack', v) = Base(host, lost, stack', v)
            BY <1>1, <3>1
        <3> QED BY <2>1, <2>2, <3>4, <3>5
    <2> QED BY <2>3, <2>4
<1>10. HeapTypes' /\ RefInv'
    BY <1>1, <1>2, <1>9, SameRefs
<1>11. Types'
    BY <1>1, <1>2, <1>3, <1>6, <1>7 DEF Types
<1> QED BY <1>7, <1>8, <1>10, <1>11 DEF QuickInv

(* The root goes to the host, or to the callback.                             *)
LEMMA NextWriteEnds ==
    ASSUME QuickInv, WriteEnds PROVE QuickInv'
<1>1. /\ stack # <<>> /\ Top.op = "write" /\ Top.root # None
      /\ UNCHANGED heap /\ UNCHANGED <<sent, queue, lost>>
    BY DEF WriteEnds, In
<1>2. HeapTypes /\ Types /\ RefInv /\ ItemInv /\ StackOK(stack, host, lost)
    BY DEF QuickInv
<1>3. /\ stack \in Seq(Calls) /\ Len(stack) \in Nat \ {0} /\ Len(stack) - 1 \in 0..(Len(stack) - 1)
      /\ Len(stack) \in 1..Len(stack) /\ Top = stack[Len(stack)] /\ Top \in Calls
      /\ Front(stack) = SubSeq(stack, 1, Len(stack) - 1) /\ Front(stack) \in Seq(Calls)
    BY <1>1, TopFacts
<1>4. Top.owned = Zero /\ Holds(Top) /\ Top.root \notin lost /\ Top.root \in Values
    <2>1. Holds(Top)
        BY <1>1 DEF Holds
    <2> QED BY <1>1, <2>1, TopFacts
<1>5. PICK r \in Values : r = Top.root
    BY <1>4
<1>6. r \notin host
    BY <1>1, <1>2, <1>3, <1>5 DEF StackOK
<1>7. ASSUME NEW v \in Values
      PROVE  /\ Base(host, lost, Front(stack), v) \in Nat
             /\ Base(host, lost, stack, v) = Base(host, lost, Front(stack), v) + (IF v = r THEN 1 ELSE 0)
    <2>1. /\ Base(host, lost, Front(stack), v) \in Nat
          /\ Base(host, lost, stack, v) = Base(host, lost, Front(stack), v) + Owns(Last(stack), v)
        BY <1>1, <1>3, BaseTop
    <2>2. Owns(Top, v) = (IF v = r THEN 1 ELSE 0)
        BY <1>1, <1>4, <1>5 DEF Owns, Zero
    <2> QED BY <2>1, <2>2 DEF Top
<1>8. CASE Top.item = None
    <2>1. stack' = Front(stack) /\ host' = host \cup {r} /\ UNCHANGED <<sent, queue, calls>>
        BY <1>1, <1>5, <1>8 DEF WriteEnds
    <2>2. /\ stack' \in Seq(Calls) /\ StackOK(stack', host', lost')
          /\ \A k \in 1..Len(stack') : stack'[k].op # "write"
        BY <1>1, <1>3, <2>1, PopKeeps
    <2>3. ItemInv'
        BY <2>1, <2>2, PopItems
    <2>4. ASSUME NEW v \in Values
          PROVE  Base(host', lost', stack', v) = Base(host, lost, stack, v)
        <3>1. Base(host', lost, stack', v) = Base(host, lost, stack', v) + (IF v = r THEN 1 ELSE 0)
            BY <1>6, <2>1, <2>2, BaseHost
        <3> QED BY <1>1, <1>7, <2>1, <3>1
    <2>5. HeapTypes' /\ RefInv'
        BY <1>1, <1>2, <2>4, SameRefs
    <2>6. Types'
        BY <1>1, <1>2, <2>1, <2>2 DEF Types
    <2> QED BY <2>2, <2>3, <2>5, <2>6 DEF QuickInv
<1>9. CASE Top.item # None
    <2> DEFINE g == Frame("deliver", r, Top.item)
    <2>0. PICK i \in Items : i = Top.item
        BY <1>3, <1>9 DEF Calls
    <2>1. /\ stack' = Append(Front(stack), g) /\ UNCHANGED host
          /\ calls' = [calls EXCEPT ![i] = @ + 1]
        BY <1>5, <1>9, <2>0 DEF WriteEnds, Replace
    <2>2. g \in Calls /\ g.op = "deliver" /\ g.root = r /\ g.item = Top.item /\ g.owned = Zero
        BY <2>0, FrameType
    <2> HIDE DEF g
    <2>3. stack' \in Seq(Calls) /\ StackOK(stack', host', lost')
        <3>1. r # None /\ r \notin lost
            BY <1>1, <1>4, <1>5
        <3>2. \A k \in 1..(Len(stack) - 1) : Holds(stack[k]) => stack[k].root # r
            <4>1. \A k \in 1..(Len(stack) - 1) : k \in 1..Len(stack) /\ k # Len(stack)
                BY <1>3
            <4> QED BY <1>2, <1>3, <1>4, <1>5, <4>1 DEF StackOK
        <3>3. Continues(stack, host, lost, g)
            BY <2>2, <3>1, <3>2 DEF Continues, Top
        <3>4. Append(Front(stack), g) \in Seq(Calls)
            BY <1>3, <2>2
        <3>5. StackOK(Append(Front(stack), g), host, lost)
            BY <1>1, <1>2, <1>3, <2>2, <3>3, StackReplace
        <3> QED BY <1>1, <2>1, <3>4, <3>5
    <2>4. ASSUME NEW v \in Values
          PROVE  Base(host', lost', stack', v) = Base(host, lost, stack, v)
        <3>0. PICK f \in Seq(Calls) : f = Front(stack)
            BY <1>3
        <3>1. Base(host, lost, Append(f, g), v) = Base(host, lost, f, v) + Owns(g, v)
            BY <2>2, BaseAppend
        <3>2. Owns(g, v) = (IF v = r THEN 1 ELSE 0)
            BY <2>2 DEF Owns, Zero
        <3> QED BY <1>1, <1>7, <2>1, <3>0, <3>1, <3>2
    <2>5. HeapTypes' /\ RefInv'
        BY <1>1, <1>2, <2>4, SameRefs
    <2>6. Types'
        BY <1>1, <1>2, <2>1, <2>3 DEF Types
    <2>7. calls[i] = 0 /\ i \in sent \ queue
        BY <1>1, <1>2, <1>3, <1>9, <2>0 DEF ItemInv
    <2>8. ASSUME NEW k \in 1..Len(stack')
          PROVE  stack'[k].op # "write"
        <3>1. Len(Front(stack)) = Len(stack) - 1
            BY <1>1, <1>3, FrontProperties
        <3>2. \A j \in 1..(Len(stack) - 1) : Front(stack)[j] = stack[j]
            BY <1>1, <1>3, FrontProperties
        <3>3. Len(stack') = Len(stack) /\ stack'[Len(stack)] = g
            BY <1>3, <2>1, <3>1
        <3>4. CASE k = Len(stack)
            BY <2>2, <3>3, <3>4
        <3>5. CASE k # Len(stack)
            <4>1. k \in 1..(Len(stack) - 1) /\ k \in 1..Len(stack)
                BY <1>3, <3>3, <3>5
            <4>2. stack'[k] = stack[k]
                BY <1>3, <2>1, <3>1, <3>2, <4>1
            <4>3. stack[k].op # "write"
                BY <1>2, <3>5, <4>1 DEF StackOK
            <4> QED BY <4>2, <4>3
        <3> QED BY <3>4, <3>5
    <2>9. ItemInv'
        <3>1. \A j \in Items : calls'[j] <= 1 /\ (j \notin sent \/ j \in queue => calls'[j] = 0)
            BY <1>2, <2>1, <2>7 DEF ItemInv, Types
        <3> QED BY <1>1, <2>8, <3>1 DEF ItemInv
    <2> QED BY <2>3, <2>5, <2>6, <2>9 DEF QuickInv
<1> QED BY <1>8, <1>9

-----------------------------------------------------------------------------
(* The steps that take or drop a reference while the calls stay as they are.  *)

(* A reference more to x: its count, and the owner's. *)
LEMMA RefsMore ==
    ASSUME QuickInv, NEW x \in alive, NEW props, alive' = alive,
           refs' = [refs EXCEPT ![x] = @ + 1], child' = props,
           props \in [Values -> SUBSET Values],
           \A v \in Values \ alive : props[v] = {},
           \A v \in Values :
              Base(host', lost', stack', v) + Links(v, alive, props)
                 = Base(host, lost, stack, v) + Links(v, alive, child) + (IF v = x THEN 1 ELSE 0)
    PROVE  HeapTypes' /\ RefInv'
<1>1. HeapTypes /\ RefInv /\ x \in Values
    BY DEF QuickInv, HeapTypes
<1>2. HeapTypes'
    BY <1>1 DEF HeapTypes
<1>3. \A v \in Values : refs'[v] = refs[v] + (IF v = x THEN 1 ELSE 0) /\ refs[v] \in Nat
    BY <1>1 DEF HeapTypes
<1>4. \A v \in Values : refs'[v] = Base(host', lost', stack', v) + Links(v, alive', child')
    BY <1>1, <1>3 DEF RefInv
<1>5. (\A v \in Values \ alive' : refs'[v] = 0 /\ child'[v] = {}) /\ \A v \in alive' : refs'[v] > 0
    BY <1>1, <1>3 DEF RefInv, HeapTypes
<1> QED BY <1>2, <1>4, <1>5 DEF RefInv

LEMMA NextDup ==
    ASSUME QuickInv, Dup PROVE QuickInv'
<1>1. /\ stack # <<>> /\ Top.op = "deliver" /\ Top.root \notin host
      /\ host' = host \cup {Top.root} /\ refs' = [refs EXCEPT ![Top.root] = @ + 1]
      /\ UNCHANGED <<alive, child, stack, lost>> /\ UNCHANGED <<sent, queue, calls>>
    BY DEF Dup, In
<1>2. HeapTypes /\ Types /\ RefInv /\ ItemInv /\ StackOK(stack, host, lost) /\ stack \in Seq(Calls)
    BY DEF QuickInv, Types
<1>3. Len(stack) \in 1..Len(stack) /\ Top = stack[Len(stack)] /\ Top \in Calls
    BY <1>1, TopFacts
<1>4. Holds(Top)
    BY <1>1, <1>2, <1>3 DEF StackOK, Holds
<1>5. PICK r \in alive : r = Top.root /\ r \in Values
    BY <1>1, <1>4, TopFacts
<1>6. ASSUME NEW v \in Values
      PROVE  Base(host', lost', stack', v) + Links(v, alive, child)
                = Base(host, lost, stack, v) + Links(v, alive, child) + (IF v = r THEN 1 ELSE 0)
    <2>1. Base(host', lost, stack, v) = Base(host, lost, stack, v) + (IF v = r THEN 1 ELSE 0)
        BY <1>1, <1>2, <1>5, BaseHost
    <2>2. Base(host, lost, stack, v) \in Nat
        BY <1>2, BaseType
    <2>3. Links(v, alive, child) \in Nat
        BY <1>2, LinksType DEF HeapTypes
    <2> QED BY <1>1, <2>1, <2>2, <2>3
<1>7. HeapTypes' /\ RefInv'
    <2>1. alive' = alive /\ refs' = [refs EXCEPT ![r] = @ + 1] /\ child' = child
        BY <1>1, <1>5
    <2>2. child \in [Values -> SUBSET Values] /\ \A v \in Values \ alive : child[v] = {}
        BY <1>2 DEF HeapTypes, RefInv
    <2> QED BY <1>6, <2>1, <2>2, RefsMore
<1>8. StackOK(stack', host', lost')
    <2>1. Last(stack).op = "deliver"
        BY <1>1 DEF Top
    <2>2. StackOK(stack, host', lost)
        BY <1>2, <2>1, StackHost
    <2> QED BY <1>1, <2>2
<1>9. ItemInv'
    <2>1. UNCHANGED <<sent, queue, calls, stack>>
        BY <1>1
    <2> QED BY <1>2, <2>1 DEF ItemInv
<1>10. Types'
    BY <1>1, <1>2, <1>5 DEF Types
<1> QED BY <1>7, <1>8, <1>9, <1>10 DEF QuickInv

LEMMA NextHostFrees ==
    ASSUME QuickInv, NEW x \in Values, HostFrees(x) PROVE QuickInv'
<1>1. /\ HostRuns /\ x \in host /\ host' = host \ {x} /\ Release(One(x), child)
      /\ UNCHANGED <<stack, lost>> /\ UNCHANGED <<sent, queue, calls>>
    BY DEF HostFrees
<1>2. HeapTypes /\ Types /\ RefInv /\ ItemInv /\ StackOK(stack, host, lost) /\ stack \in Seq(Calls)
    BY DEF QuickInv, Types
<1>3. ASSUME NEW v \in Values
      PROVE  Base(host, lost, stack, v) + Links(v, alive, child)
                = One(x)[v] + Base(host', lost', stack', v) + Links(v, alive, child)
    <2>1. Base(host, lost, stack, v) = Base(host', lost, stack, v) + (IF v = x THEN 1 ELSE 0)
        <3>1. x \notin host' /\ host = host' \cup {x}
            BY <1>1
        <3> QED BY <1>2, <3>1, BaseHost
    <2>2. Base(host', lost, stack, v) \in Nat
        BY <1>2, BaseType
    <2>3. Links(v, alive, child) \in Nat
        BY <1>2, LinksType DEF HeapTypes
    <2>4. One(x)[v] = (IF v = x THEN 1 ELSE 0)
        BY OneType
    <2> QED BY <1>1, <2>1, <2>2, <2>3, <2>4
<1>4. /\ One(x) \in [Values -> Nat] /\ child \in [Values -> SUBSET Values] /\ stack' \in Seq(Calls)
      /\ \A v \in Values \ alive : child[v] = {}
    BY <1>1, <1>2 DEF One, Zero, HeapTypes, RefInv
<1>5. HeapTypes' /\ RefInv'
    BY <1>1, <1>3, <1>4, ReleaseRefs
<1>6. StackOK(stack', host', lost')
    <2>1. stack = <<>> \/ Last(stack).op = "deliver"
        BY <1>1 DEF HostRuns, In, Top
    <2>2. StackOK(stack, host', lost)
        BY <1>2, <2>1, StackHost
    <2> QED BY <1>1, <2>2
<1>7. ItemInv'
    <2>1. UNCHANGED <<sent, queue, calls, stack>>
        BY <1>1
    <2> QED BY <1>2, <2>1 DEF ItemInv
<1>8. Types'
    BY <1>1, <1>2 DEF Types
<1> QED BY <1>5, <1>6, <1>7, <1>8 DEF QuickInv

LEMMA NextGetter ==
    ASSUME QuickInv, NEW p \in Values, NEW c \in Values, Getter(p, c) PROVE QuickInv'
<1> DEFINE props == [child EXCEPT ![p] = @ \ {c}]
<1>1. /\ c \in child[p] /\ Release(One(c), props)
      /\ UNCHANGED <<host, stack, lost>> /\ UNCHANGED <<sent, queue, calls>>
    BY DEF Getter
<1>2. HeapTypes /\ Types /\ RefInv /\ ItemInv /\ StackOK(stack, host, lost) /\ stack \in Seq(Calls)
    BY DEF QuickInv, Types
<1>3. p \in alive /\ alive \subseteq Values /\ IsFiniteSet(alive) /\ child \in [Values -> SUBSET Values]
    BY <1>1, <1>2 DEF RefInv, HeapTypes
<1>4. props \in [Values -> SUBSET Values] /\ c \notin props[p] /\ child = [props EXCEPT ![p] = @ \cup {c}]
    BY <1>1, <1>3
<1>5. \A v \in Values \ alive : props[v] = {}
    BY <1>2, <1>3 DEF RefInv
<1> HIDE DEF props
<1>6. ASSUME NEW v \in Values
      PROVE  Base(host, lost, stack, v) + Links(v, alive, child)
                = One(c)[v] + Base(host', lost', stack', v) + Links(v, alive, props)
    <2>1. Links(v, alive, child) = Links(v, alive, props) + (IF v = c THEN 1 ELSE 0)
        <3>1. Adds(alive, props, child, p, c)
            BY <1>3, <1>4 DEF Adds
        <3> QED BY <1>3, <1>4, <3>1, LinksOneMore
    <2>2. Base(host, lost, stack, v) \in Nat
        BY <1>2, BaseType
    <2>3. Links(v, alive, props) \in Nat
        BY <1>3, LinksType
    <2>4. One(c)[v] = (IF v = c THEN 1 ELSE 0)
        BY OneType
    <2> QED BY <1>1, <2>1, <2>2, <2>3, <2>4
<1>7. One(c) \in [Values -> Nat] /\ stack' \in Seq(Calls)
    BY <1>1, <1>2 DEF One, Zero
<1>8. HeapTypes' /\ RefInv'
    BY <1>1, <1>4, <1>5, <1>6, <1>7, ReleaseRefs
<1>9. StackOK(stack', host', lost') /\ Types'
    BY <1>1, <1>2 DEF Types
<1>10. ItemInv'
    <2>1. UNCHANGED <<sent, queue, calls, stack>>
        BY <1>1
    <2> QED BY <1>2, <2>1 DEF ItemInv
<1> QED BY <1>8, <1>9, <1>10 DEF QuickInv

LEMMA NextHostLinks ==
    ASSUME QuickInv, NEW p \in Values, NEW c \in Values, HostLinks(p, c) PROVE QuickInv'
<1> DEFINE props == [child EXCEPT ![p] = @ \cup {c}]
<1>1. /\ p \in Reach(host) /\ c \in Reach(host) /\ c \notin child[p]
      /\ child' = props /\ refs' = [refs EXCEPT ![c] = @ + 1] /\ alive' = alive
      /\ UNCHANGED <<host, stack, lost>> /\ UNCHANGED <<sent, queue, calls>>
    BY DEF HostLinks
<1>2. HeapTypes /\ Types /\ RefInv /\ ItemInv /\ StackOK(stack, host, lost) /\ stack \in Seq(Calls)
    BY DEF QuickInv, Types
<1>3. p \in alive /\ c \in alive
    <2>1. host \subseteq alive
        BY OwnedAlive
    <2>2. Reach(host) \subseteq alive
        BY <2>1, ReachAlive
    <2> QED BY <1>1, <2>2
<1>4. alive \subseteq Values /\ IsFiniteSet(alive) /\ child \in [Values -> SUBSET Values]
    BY <1>2 DEF HeapTypes
<1>5. props \in [Values -> SUBSET Values]
    BY <1>4
<1>6. \A v \in Values \ alive : props[v] = {}
    BY <1>2, <1>3, <1>4 DEF RefInv
<1>7. ASSUME NEW v \in Values
      PROVE  Base(host', lost', stack', v) + Links(v, alive, props)
                = Base(host, lost, stack, v) + Links(v, alive, child) + (IF v = c THEN 1 ELSE 0)
    <2>0. Adds(alive, child, props, p, c)
        BY <1>1, <1>3, <1>4 DEF Adds
    <2> HIDE DEF props
    <2>1. Links(v, alive, props) = Links(v, alive, child) + (IF v = c THEN 1 ELSE 0)
        BY <1>1, <1>3, <1>4, <2>0, LinksOneMore
    <2>2. Base(host, lost, stack, v) \in Nat
        BY <1>2, BaseType
    <2>3. Links(v, alive, child) \in Nat
        BY <1>4, LinksType
    <2> QED BY <1>1, <2>1, <2>2, <2>3
<1> HIDE DEF props
<1>8. HeapTypes' /\ RefInv'
    BY <1>1, <1>3, <1>5, <1>6, <1>7, RefsMore
<1>9. StackOK(stack', host', lost') /\ Types'
    BY <1>1, <1>2 DEF Types
<1>10. ItemInv'
    <2>1. UNCHANGED <<sent, queue, calls, stack>>
        BY <1>1
    <2> QED BY <1>2, <2>1 DEF ItemInv
<1> QED BY <1>8, <1>9, <1>10 DEF QuickInv

-----------------------------------------------------------------------------
(* The steps in which the last call takes a reference.                        *)

LEMMA ReplaceItems ==
    ASSUME QuickInv, stack # <<>>, Top.op \in {"read", "write"}, NEW g, g.item = Top.item,
           g.op = "write" => Top.op = "write", stack' = Append(Front(stack), g),
           UNCHANGED <<sent, queue, calls>>
    PROVE  ItemInv'
<1>1. /\ stack \in Seq(Calls) /\ Len(stack) \in Nat \ {0} /\ Len(stack) \in 1..Len(stack)
      /\ Top = stack[Len(stack)] /\ Front(stack) \in Seq(Calls)
    BY TopFacts
<1>2. Len(Front(stack)) = Len(stack) - 1
    BY <1>1, FrontProperties
<1>3. \A j \in 1..(Len(stack) - 1) : Front(stack)[j] = stack[j]
    BY <1>1, FrontProperties
<1>4. Len(stack') = Len(stack) /\ stack'[Len(stack)] = g
    BY <1>1, <1>2
<1>5. ASSUME NEW k \in 1..Len(stack'), stack'[k].op = "write", stack'[k].item # None
      PROVE  \E j \in 1..Len(stack) : stack[j].op = "write" /\ stack[j].item = stack'[k].item
    <2>1. CASE k = Len(stack)
        BY <1>1, <1>4, <1>5, <2>1
    <2>2. CASE k # Len(stack)
        <3>1. k \in 1..(Len(stack) - 1) /\ k \in 1..Len(stack)
            BY <1>1, <1>4, <2>2
        <3>2. stack'[k] = stack[k]
            BY <1>1, <1>2, <1>3, <3>1
        <3> QED BY <1>5, <3>1, <3>2
    <2> QED BY <2>1, <2>2
<1>6. ItemInv
    BY DEF QuickInv
<1> QED BY <1>5, <1>6, SameItems

LEMMA NextGetField ==
    ASSUME QuickInv, NEW h \in Values, NEW c \in Values, GetField(h, c) PROVE QuickInv'
<1> DEFINE g == [Top EXCEPT !.owned[c] = @ + 1]
<1>1. /\ stack # <<>> /\ Top.op = "read" /\ c \in child[h]
      /\ refs' = [refs EXCEPT ![c] = @ + 1] /\ stack' = Append(Front(stack), g)
      /\ UNCHANGED <<alive, child, host, lost>> /\ UNCHANGED <<sent, queue, calls>>
    BY DEF GetField, In, Replace
<1>2. HeapTypes /\ Types /\ RefInv /\ ItemInv /\ StackOK(stack, host, lost) /\ stack \in Seq(Calls)
    BY DEF QuickInv, Types
<1>3. Top \in Calls /\ Front(stack) \in Seq(Calls) /\ Top = Last(stack)
    BY <1>1, TopFacts DEF Top
<1>4. /\ g \in Calls /\ g.op = "read" /\ g.root = Top.root /\ g.item = Top.item
      /\ \A v \in Values : g.owned[v] = Top.owned[v] + (IF v = c THEN 1 ELSE 0)
    <2>1. PICK t \in Calls : t = Top
        BY <1>3
    <2>2. t.owned \in [Values -> Nat] /\ DOMAIN t = {"op", "root", "item", "owned"}
        BY DEF Calls
    <2>3. g = [t EXCEPT !.owned = [t.owned EXCEPT ![c] = @ + 1]]
        BY <2>1, <2>2
    <2> HIDE DEF g
    <2>4. g.owned = [t.owned EXCEPT ![c] = @ + 1] /\ g.op = t.op /\ g.root = t.root /\ g.item = t.item
        BY <2>2, <2>3
    <2>5. g.owned \in [Values -> Nat]
        BY <2>2, <2>4
    <2>6. g \in Calls
        BY <2>3, <2>5 DEF Calls
    <2>7. \A v \in Values : g.owned[v] = t.owned[v] + (IF v = c THEN 1 ELSE 0)
        BY <2>2, <2>4
    <2> QED BY <1>1, <2>1, <2>4, <2>6, <2>7
<1> HIDE DEF g
<1>5. c \in alive
    <2>1. child[h] \subseteq alive
        BY OwnedAlive
    <2> QED BY <1>1, <2>1
<1>6. stack' \in Seq(Calls) /\ StackOK(stack', host', lost')
    <2>1. Continues(stack, host, lost, g)
        BY <1>1, <1>3, <1>4 DEF Continues, Holds
    <2>2. Append(Front(stack), g) \in Seq(Calls)
        BY <1>3, <1>4
    <2>3. StackOK(Append(Front(stack), g), host, lost)
        BY <1>1, <1>2, <1>4, <2>1, StackReplace
    <2> QED BY <1>1, <2>2, <2>3
<1>7. ASSUME NEW v \in Values
      PROVE  Base(host', lost', stack', v) + Links(v, alive, child)
                = Base(host, lost, stack, v) + Links(v, alive, child) + (IF v = c THEN 1 ELSE 0)
    <2>0. PICK f \in Seq(Calls) : f = Front(stack)
        BY <1>3
    <2>1. Base(host, lost, Append(f, g), v) = Base(host, lost, f, v) + Owns(g, v)
        BY <1>4, BaseAppend
    <2>2. /\ Base(host, lost, Front(stack), v) \in Nat
          /\ Base(host, lost, stack, v) = Base(host, lost, Front(stack), v) + Owns(Last(stack), v)
        BY <1>1, <1>2, BaseTop
    <2>3. Owns(g, v) = g.owned[v] /\ Owns(Top, v) = Top.owned[v] /\ Top.owned[v] \in Nat
        BY <1>1, <1>3, <1>4, OwnsCases
    <2>4. Links(v, alive, child) \in Nat
        BY <1>2, LinksType DEF HeapTypes
    <2>5. g.owned[v] = Top.owned[v] + (IF v = c THEN 1 ELSE 0)
        BY <1>4
    <2> QED BY <1>1, <1>3, <2>0, <2>1, <2>2, <2>3, <2>4, <2>5
<1>8. HeapTypes' /\ RefInv'
    <2>1. child \in [Values -> SUBSET Values] /\ \A v \in Values \ alive : child[v] = {}
        BY <1>2 DEF HeapTypes, RefInv
    <2>2. alive' = alive /\ refs' = [refs EXCEPT ![c] = @ + 1] /\ child' = child
        BY <1>1
    <2> QED BY <1>5, <1>7, <2>1, <2>2, RefsMore
<1>9. ItemInv'
    BY <1>1, <1>4, ReplaceItems
<1>10. Types'
    BY <1>1, <1>2, <1>6 DEF Types
<1> QED BY <1>6, <1>8, <1>9, <1>10 DEF QuickInv

(* A new value x, which refers to nothing, and someone to it. *)
LEMMA RefsNew ==
    ASSUME QuickInv, NEW x \in Values, x \notin alive, NEW props, alive' = alive \cup {x},
           refs' = [refs EXCEPT ![x] = 1], child' = props,
           props \in [Values -> SUBSET Values],
           \A v \in Values \ alive : props[v] = {},
           \A v \in Values :
              Base(host', lost', stack', v) + Links(v, alive, props)
                 = Base(host, lost, stack, v) + Links(v, alive, child) + (IF v = x THEN 1 ELSE 0)
    PROVE  HeapTypes' /\ RefInv'
<1>1. HeapTypes /\ RefInv /\ refs[x] = 0
    BY DEF QuickInv, RefInv
<1>2. HeapTypes'
    <2>1. IsFiniteSet(alive')
        BY <1>1, FS_AddElement DEF HeapTypes
    <2> QED BY <1>1, <2>1 DEF HeapTypes
<1>3. \A v \in Values : refs'[v] = refs[v] + (IF v = x THEN 1 ELSE 0) /\ refs[v] \in Nat
    BY <1>1 DEF HeapTypes
<1>4. ASSUME NEW v \in Values
      PROVE  Links(v, alive', child') = Links(v, alive, props)
    <2>1. {p \in alive' : v \in child'[p]} = {p \in alive : v \in props[p]}
        OBVIOUS
    <2> QED BY <2>1 DEF Links
<1>5. \A v \in Values : refs'[v] = Base(host', lost', stack', v) + Links(v, alive', child')
    <2> TAKE v \in Values
    <2>1. refs[v] = Base(host, lost, stack, v) + Links(v, alive, child)
        BY <1>1 DEF RefInv
    <2>2. Base(host', lost', stack', v) + Links(v, alive, props)
             = Base(host, lost, stack, v) + Links(v, alive, child) + (IF v = x THEN 1 ELSE 0)
        OBVIOUS
    <2> QED BY <1>3, <1>4, <2>1, <2>2
<1>6. (\A v \in Values \ alive' : refs'[v] = 0 /\ child'[v] = {}) /\ \A v \in alive' : refs'[v] > 0
    BY <1>1, <1>3 DEF RefInv, HeapTypes
<1> QED BY <1>2, <1>5, <1>6 DEF RefInv

LEMMA NextNewRoot ==
    ASSUME QuickInv, NEW x \in Values, NewRoot(x) PROVE QuickInv'
<1> DEFINE g == [Top EXCEPT !.root = x]
<1>1. /\ stack # <<>> /\ Top.op = "write" /\ Top.root = None /\ x \notin alive
      /\ alive' = alive \cup {x} /\ refs' = [refs EXCEPT ![x] = 1] /\ child' = child
      /\ stack' = Append(Front(stack), g)
      /\ UNCHANGED <<host, lost>> /\ UNCHANGED <<sent, queue, calls>>
    BY DEF NewRoot, In, Replace, Allocate
<1>2. HeapTypes /\ Types /\ RefInv /\ ItemInv /\ StackOK(stack, host, lost) /\ stack \in Seq(Calls)
    BY DEF QuickInv, Types
<1>3. /\ Top \in Calls /\ Front(stack) \in Seq(Calls) /\ Top = Last(stack) /\ Top.owned = Zero
      /\ Len(stack) \in Nat \ {0}
    BY <1>1, TopFacts DEF Top
<1>4. g \in Calls /\ g.op = "write" /\ g.root = x /\ g.item = Top.item /\ g.owned = Zero
    BY <1>1, <1>3 DEF Calls
<1> HIDE DEF g
<1>5. x \notin host /\ x \notin lost /\ \A k \in 1..Len(stack) : Holds(stack[k]) => stack[k].root # x
    BY <1>1, NewIsUnused
<1>6. stack' \in Seq(Calls) /\ StackOK(stack', host', lost')
    <2>1. \A k \in 1..(Len(stack) - 1) : k \in 1..Len(stack)
        BY <1>3
    <2>2. Continues(stack, host, lost, g)
        BY <1>1, <1>3, <1>4, <1>5, <2>1 DEF Continues
    <2>3. Append(Front(stack), g) \in Seq(Calls)
        BY <1>3, <1>4
    <2>4. StackOK(Append(Front(stack), g), host, lost)
        BY <1>1, <1>2, <1>4, <2>2, StackReplace
    <2> QED BY <1>1, <2>3, <2>4
<1>7. ASSUME NEW v \in Values
      PROVE  Base(host', lost', stack', v) + Links(v, alive, child)
                = Base(host, lost, stack, v) + Links(v, alive, child) + (IF v = x THEN 1 ELSE 0)
    <2>0. PICK f \in Seq(Calls) : f = Front(stack)
        BY <1>3
    <2>1. Base(host, lost, Append(f, g), v) = Base(host, lost, f, v) + Owns(g, v)
        BY <1>4, BaseAppend
    <2>2. /\ Base(host, lost, Front(stack), v) \in Nat
          /\ Base(host, lost, stack, v) = Base(host, lost, Front(stack), v) + Owns(Last(stack), v)
        BY <1>1, <1>2, BaseTop
    <2>3. Owns(Top, v) = 0
        BY <1>1, <1>3, ItemAssumption DEF Owns, Zero
    <2>4. Owns(g, v) = (IF v = x THEN 1 ELSE 0)
        BY <1>4 DEF Owns, Zero
    <2>5. Links(v, alive, child) \in Nat
        BY <1>2, LinksType DEF HeapTypes
    <2> QED BY <1>1, <1>3, <2>0, <2>1, <2>2, <2>3, <2>4, <2>5
<1>8. HeapTypes' /\ RefInv'
    <2>1. child \in [Values -> SUBSET Values] /\ \A v \in Values \ alive : child[v] = {}
        BY <1>2 DEF HeapTypes, RefInv
    <2> QED BY <1>1, <1>7, <2>1, RefsNew
<1>9. ItemInv'
    BY <1>1, <1>4, ReplaceItems
<1>10. Types'
    BY <1>1, <1>2, <1>6 DEF Types
<1> QED BY <1>6, <1>8, <1>9, <1>10 DEF QuickInv

LEMMA NextAddChild ==
    ASSUME QuickInv, NEW p \in Values, NEW x \in Values, AddChild(p, x) PROVE QuickInv'
<1> DEFINE props == [child EXCEPT ![p] = @ \cup {x}]
<1>1. /\ stack # <<>> /\ Top.op = "write" /\ Top.root # None /\ p \in Reach({Top.root})
      /\ x \notin alive /\ alive' = alive \cup {x} /\ refs' = [refs EXCEPT ![x] = 1] /\ child' = props
      /\ UNCHANGED <<host, stack, lost>> /\ UNCHANGED <<sent, queue, calls>>
    BY DEF AddChild, In, Allocate
<1>2. HeapTypes /\ Types /\ RefInv /\ ItemInv /\ StackOK(stack, host, lost) /\ stack \in Seq(Calls)
    BY DEF QuickInv, Types
<1>3. alive \subseteq Values /\ IsFiniteSet(alive) /\ child \in [Values -> SUBSET Values]
    BY <1>2 DEF HeapTypes
<1>4. p \in alive
    <2>1. Holds(Top)
        BY <1>1 DEF Holds
    <2>2. {Top.root} \subseteq alive
        BY <1>1, <2>1, TopFacts
    <2>3. Reach({Top.root}) \subseteq alive
        BY <2>2, ReachAlive
    <2> QED BY <1>1, <2>3
<1>5. x \notin child[p]
    BY <1>1, NewIsUnused
<1>6. props \in [Values -> SUBSET Values]
    BY <1>3
<1>7. \A v \in Values \ alive : props[v] = {}
    BY <1>2, <1>3, <1>4 DEF RefInv
<1>8. Adds(alive, child, props, p, x)
    BY <1>3, <1>4, <1>5 DEF Adds
<1> HIDE DEF props
<1>9. ASSUME NEW v \in Values
      PROVE  Base(host', lost', stack', v) + Links(v, alive, props)
                = Base(host, lost, stack, v) + Links(v, alive, child) + (IF v = x THEN 1 ELSE 0)
    <2>1. Links(v, alive, props) = Links(v, alive, child) + (IF v = x THEN 1 ELSE 0)
        BY <1>3, <1>8, LinksOneMore
    <2>2. Base(host, lost, stack, v) \in Nat
        BY <1>2, BaseType
    <2>3. Links(v, alive, child) \in Nat
        BY <1>3, LinksType
    <2> QED BY <1>1, <2>1, <2>2, <2>3
<1>10. HeapTypes' /\ RefInv'
    BY <1>1, <1>6, <1>7, <1>9, RefsNew
<1>11. StackOK(stack', host', lost') /\ Types'
    BY <1>1, <1>2 DEF Types
<1>12. ItemInv'
    <2>1. UNCHANGED <<sent, queue, calls, stack>>
        BY <1>1
    <2> QED BY <1>2, <2>1 DEF ItemInv
<1> QED BY <1>10, <1>11, <1>12 DEF QuickInv

-----------------------------------------------------------------------------
(* The results.                                                               *)

LEMMA InitQuick == Init => QuickInv
<1> SUFFICES ASSUME Init PROVE QuickInv
    OBVIOUS
<1>1. /\ alive = {} /\ refs = Zero /\ child = [v \in Values |-> {}] /\ host = {} /\ lost = {}
      /\ stack = <<>> /\ sent = {} /\ queue = {} /\ calls = [i \in Items |-> 0]
    BY DEF Init
<1>2. HeapTypes
    <2>1. IsFiniteSet({})
        BY FS_EmptySet
    <2> QED BY <1>1, <2>1 DEF HeapTypes, Zero
<1>3. Types /\ ItemInv /\ StackOK(stack, host, lost)
    BY <1>1 DEF Types, ItemInv, StackOK
<1>4. ASSUME NEW v \in Values
      PROVE  Base(host, lost, stack, v) = 0 /\ Links(v, alive, child) = 0 /\ refs[v] = 0
    <2>1. InUse(stack, v) = {}
        BY <1>1 DEF InUse
    <2>2. {p \in alive : v \in child[p]} = {}
        BY <1>1
    <2>3. Cardinality({}) = 0
        BY FS_EmptySet
    <2>4. Cardinality(InUse(stack, v)) = 0
        BY <2>1, <2>3
    <2>5. Links(v, alive, child) = 0
        BY <2>2, <2>3 DEF Links
    <2> QED BY <1>1, <2>4, <2>5 DEF Base, Zero
<1>5. RefInv
    <2>1. \A v \in Values : refs[v] = Base(host, lost, stack, v) + Links(v, alive, child)
        BY <1>4
    <2>2. \A v \in Values \ alive : refs[v] = 0 /\ child[v] = {}
        BY <1>1, <1>4
    <2>3. \A v \in alive : refs[v] > 0
        BY <1>1
    <2> QED BY <2>1, <2>2, <2>3 DEF RefInv
<1> QED BY <1>2, <1>3, <1>5 DEF QuickInv

LEMMA NextQuick == QuickInv /\ [Next]_vars => QuickInv'
<1> SUFFICES ASSUME QuickInv, [Next]_vars PROVE QuickInv'
    OBVIOUS
<1>1. CASE \E v \in Values : Read(v) \/ NewRoot(v) \/ HostFrees(v)
    BY <1>1, NextRead, NextNewRoot, NextHostFrees
<1>2. CASE \E v, w \in Values : GetField(v, w) \/ Getter(v, w) \/ AddChild(v, w) \/ HostLinks(v, w)
    BY <1>2, NextGetField, NextGetter, NextAddChild, NextHostLinks
<1>3. CASE ReadEnds \/ Write \/ AddFails \/ WriteEnds
    BY <1>3, NextReadEnds, NextWrite, NextThrow, NextWriteEnds
<1>4. CASE \E i \in Items : Send(i) \/ Dequeue(i)
    BY <1>4, NextSend, NextDequeue
<1>5. CASE Drain \/ DrainEnds \/ Dup \/ CallbackReturns \/ CallbackThrows
    BY <1>5, NextDrain, NextDrainEnds, NextDup, NextCallbackReturns, NextThrow
<1>6. CASE UNCHANGED vars
    <2>1. UNCHANGED heap /\ UNCHANGED <<host, lost, stack>> /\ UNCHANGED <<sent, queue, calls>>
        BY <1>6 DEF vars, heap
    <2>2. HeapTypes' /\ RefInv'
        BY <2>1, SameRefs DEF QuickInv
    <2>3. Types' /\ StackOK(stack', host', lost') /\ ItemInv'
        BY <2>1 DEF QuickInv, Types, ItemInv
    <2> QED BY <2>2, <2>3 DEF QuickInv
<1> QED BY <1>1, <1>2, <1>3, <1>4, <1>5, <1>6 DEF Next

LEMMA QuickInvariant == Spec => []QuickInv
<1>1. Init => QuickInv
    BY InitQuick
<1>2. QuickInv /\ [Next]_vars => QuickInv'
    BY NextQuick
<1> QED BY <1>1, <1>2, PTL DEF Spec

(* The values of the state and how calls nest; a value being delivered is     *)
(* allocated.                                                                 *)
THEOREM QuickTyping == Spec => []TypeOK
<1>1. QuickInv => TypeOK
    <2> SUFFICES ASSUME QuickInv PROVE TypeOK
        OBVIOUS
    <2>1. HeapTypes /\ Types /\ StackOK(stack, host, lost)
        BY DEF QuickInv
    <2>2. ASSUME NEW k \in 1..Len(stack)
          PROVE  /\ stack[k].root \in Values \cup {None} /\ stack[k].owned \in [Values -> Nat]
                 /\ stack[k].item # None <=> k > 1 /\ stack[k - 1].op = "drain"
                 /\ stack[k].op = "deliver" => stack[k].root \in alive
        <3>1. stack[k] \in Calls
            BY <2>1 DEF Types
        <3>2. stack[k].op = "deliver" => Holds(stack[k])
            BY <2>1 DEF StackOK, Holds
        <3>3. Holds(stack[k]) => stack[k].root \in alive
            BY OwnedAlive
        <3>4. stack[k].item # None <=> k > 1 /\ stack[k - 1].op = "drain"
            BY <2>1 DEF StackOK
        <3> QED BY <3>1, <3>2, <3>3, <3>4 DEF Calls
    <2> QED BY <2>1, <2>2 DEF TypeOK, HeapTypes, Types
<1> QED BY <1>1, QuickInvariant, PTL

(* Every reference to an allocated value has one owner, and every allocated   *)
(* value a reference: nothing is freed twice or early, and nothing is leaked  *)
(* but the roots an exception left behind and what they refer to.             *)
THEOREM NoLeakNoDoubleFree == Spec => []ReferencesOwned
<1>1. QuickInv => ReferencesOwned
    <2> SUFFICES ASSUME QuickInv, NEW v \in alive PROVE refs[v] = Owners(v) /\ refs[v] > 0
        BY DEF ReferencesOwned
    <2>1. v \in Values /\ RefInv /\ stack \in Seq(Calls) /\ IsFiniteSet(alive)
        BY DEF QuickInv, HeapTypes, Types
    <2>2. Links(v, alive, child) \in Nat
        BY <2>1, LinksType
    <2>3. Cardinality(InUse(stack, v)) \in Nat
        BY <2>1, InUseFinite
    <2>4. refs[v] = Base(host, lost, stack, v) + Links(v, alive, child) /\ refs[v] > 0
        BY <2>1 DEF RefInv
    <2> QED BY <2>2, <2>3, <2>4 DEF Owners, Base
<1> QED BY <1>1, QuickInvariant, PTL

(* What a reader or a writer holds on to is allocated for as long as it does. *)
THEOREM HandlesStayAlive == Spec => []HandlesAlive
<1>1. QuickInv => HandlesAlive
    <2> SUFFICES ASSUME QuickInv, NEW k \in 1..Len(stack), stack[k].op # "drain",
                        NEW v \in Handles(stack[k]), v # None
                 PROVE  v \in alive
        BY DEF HandlesAlive
    <2>1. StackOK(stack, host, lost) /\ stack[k] \in Calls
        BY DEF QuickInv, Types
    <2>2. CASE v # stack[k].root
        <3>1. v \in Values /\ stack[k].owned[v] > 0
            BY <2>2 DEF Handles
        <3>2. Owns(stack[k], v) >= stack[k].owned[v] /\ stack[k].owned[v] \in Nat /\ Owns(stack[k], v) \in Nat
            BY <2>1, <3>1, OwnsCases, OwnsType
        <3>3. Owns(stack[k], v) > 0
            BY <3>1, <3>2
        <3> QED BY <3>1, <3>3, OwnedAlive
    <2>3. CASE v = stack[k].root /\ stack[k].op \in {"write", "deliver"}
        <3>1. Holds(stack[k])
            BY <2>3 DEF Holds
        <3> QED BY <2>3, <3>1, OwnedAlive
    <2>4. CASE v = stack[k].root /\ stack[k].op = "read"
        <3>1. CASE stack[k].root \in host
            BY <2>4, <3>1, OwnedAlive
        <3>2. CASE k > 1 /\ stack[k - 1].op = "deliver" /\ stack[k].root = stack[k - 1].root
            <4>1. k - 1 \in 1..Len(stack) /\ Holds(stack[k - 1])
                BY <2>4, <3>2 DEF Holds
            <4>2. stack[k - 1].root \in alive
                BY <4>1, OwnedAlive
            <4> QED BY <2>4, <3>2, <4>2
        <3> QED BY <2>1, <2>4, <3>1, <3>2 DEF StackOK
    <2> QED BY <2>1, <2>2, <2>3, <2>4 DEF Calls
<1> QED BY <1>1, QuickInvariant, PTL

(* An item is delivered at most once, also by a drain within its delivery.    *)
THEOREM NothingTwice == Spec => []DeliveredOnce
<1>1. QuickInv => DeliveredOnce
    BY DEF QuickInv, ItemInv, DeliveredOnce
<1> QED BY <1>1, QuickInvariant, PTL
=============================================================================
