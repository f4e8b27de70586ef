-------------------------- MODULE DiscoveryProofs --------------------------
(* What is proved of Discovery for every set of method names, types and       *)
(* signatures, every way the types may refer to each other, and any number of *)
(* registrations and of lines a server prints.                                *)
EXTENDS Discovery, FiniteSetTheorems, SequenceTheorems, TLAPS

-----------------------------------------------------------------------------
(* The registry.                                                              *)

Entries == Signatures \cup {NoHandler, Untyped}

RegistryTypes ==
    /\ shape \in Shapes
    /\ handlers \in [Names -> Entries]
    /\ asyncHandlers \in [Names -> Entries]
    /\ generators \subseteq Types
    /\ described \subseteq Names
    /\ descr \in [Names -> [params : Seq(Types \cup Scalars), ret : Types \cup Scalars \cup {NoHandler}]]
    /\ log \in Seq(Registration)

(* The class types a description mentions have a generator. *)
HasGenerators(n) ==
    /\ \A i \in 1..Len(descr[n].params) : descr[n].params[i] \in Types => descr[n].params[i] \in generators
    /\ n \in described /\ descr[n].ret \in Types => descr[n].ret \in generators

(* The registrations of a name under one map, and those that describe it.     *)
Logged(n, map) == {i \in 1..Len(log) : log[i].name = n /\ log[i].map = map}
Typed(n) == {i \in 1..Len(log) : log[i].name = n /\ log[i].sig # Untyped}

(* A map holds the last registration of a name, or nothing. *)
Stored(n, map, entry) ==
    /\ Logged(n, map) = {} => entry = NoHandler
    /\ \A i \in Logged(n, map) : (\A j \in Logged(n, map) : j <= i) => entry = log[i].sig

(* The description has the return type of the last registration that          *)
(* describes, and no parameters but its own if no other has any.              *)
DescribedInv(n) ==
    /\ \A i \in Typed(n) : n \in described
    /\ \A i \in Typed(n) : (\A j \in Typed(n) : j <= i) => descr[n].ret = log[i].sig.ret
    /\ (\A i \in Typed(n) : log[i].sig.params = <<>>) => descr[n].params = <<>>
    /\ \A i \in Typed(n) :
          (\A j \in Typed(n) : j <= i) /\ (\A j \in Typed(n) \ {i} : log[j].sig.params = <<>>)
             => descr[n].params = log[i].sig.params

LoggedInv(n) == /\ Stored(n, "sync", handlers[n])
                /\ Stored(n, "async", asyncHandlers[n])
                /\ DescribedInv(n)

RegistryInv == /\ RegistryTypes
               /\ \A n \in Names : HasGenerators(n)
               /\ \A n \in Names : LoggedInv(n)

LEMMA ShapeIsTyped == RegistryTypes => shape \in [Types -> SUBSET Structs]
BY ShapeAssumption DEF RegistryTypes

LEMMA SignatureIsTyped ==
    ASSUME NEW s \in Signatures
    PROVE  /\ s \in [params : Seq(Types \cup Scalars), ret : Types \cup Scalars]
           /\ s = [params |-> s.params, ret |-> s.ret]
           /\ s # Untyped
BY SignatureAssumption, HandlerAssumption

LEMMA InitRegistry == Init => RegistryInv
<1> SUFFICES ASSUME Init PROVE RegistryInv
    OBVIOUS
<1>1. <<>> \in Seq(Types \cup Scalars) /\ log = <<>> /\ Len(log) = 0 /\ log \in Seq(Registration)
    BY DEF Init, RInit
<1>2. RegistryTypes
    BY <1>1 DEF Init, RInit, RegistryTypes, Entries
<1>3. ASSUME NEW n \in Names PROVE LoggedInv(n)
    <2>1. Typed(n) = {} /\ Logged(n, "sync") = {} /\ Logged(n, "async") = {}
        BY <1>1 DEF Typed, Logged
    <2>2. handlers[n] = NoHandler /\ asyncHandlers[n] = NoHandler /\ descr[n].params = <<>>
        BY DEF Init, RInit
    <2> QED BY <2>1, <2>2 DEF LoggedInv, Stored, DescribedInv
<1>4. \A n \in Names : descr[n].params = <<>> /\ n \notin described
    BY DEF Init, RInit
<1>5. \A n \in Names : HasGenerators(n)
    BY <1>4 DEF HasGenerators
<1> QED
    BY <1>2, <1>3, <1>5 DEF RegistryInv

(* A registration is the last one of its name. *)
LEMMA LogGrows ==
    ASSUME RegistryTypes, NEW n \in Names, NEW b \in Maps, NEW s \in Signatures \cup {Untyped}, Added(n, b, s)
    PROVE  LET e == Len(log) + 1
           IN  /\ log' \in Seq(Registration)
               /\ e \in Nat /\ log'[e].sig = s
               /\ \A i \in 1..Len(log) : log'[i] = log[i] /\ i < e
               /\ \A m \in Names, c \in Maps :
                     Logged(m, c)' = IF m = n /\ c = b THEN Logged(m, c) \cup {e} ELSE Logged(m, c)
               /\ \A m \in Names : Typed(m)' = IF m = n /\ s # Untyped THEN Typed(m) \cup {e} ELSE Typed(m)
<1> DEFINE x == [name |-> n, map |-> b, sig |-> s]
           e == Len(log) + 1
<1>1. log \in Seq(Registration) /\ x \in Registration /\ log' = Append(log, x)
    BY DEF Added, RegistryTypes, Registration
<1>2. x.name = n /\ x.map = b /\ x.sig = s
    OBVIOUS
<1> HIDE DEF x
<1>3. /\ log' \in Seq(Registration) /\ Len(log') = e /\ Len(log) \in Nat
      /\ log'[e] = x /\ \A i \in 1..Len(log) : log'[i] = log[i]
    BY <1>1
<1>4. \A i : i \in 1..Len(log') <=> i \in 1..Len(log) \/ i = e
    BY <1>3
<1>5. ASSUME NEW m \in Names, NEW c \in Maps
      PROVE  Logged(m, c)' = IF m = n /\ c = b THEN Logged(m, c) \cup {e} ELSE Logged(m, c)
    <2>1. Logged(m, c)' = {i \in 1..Len(log') : log'[i].name = m /\ log'[i].map = c}
        BY DEF Logged
    <2>2. \A i : i \in Logged(m, c)' <=> i \in Logged(m, c) \/ (i = e /\ m = n /\ c = b)
        <3> HIDE DEF e
        <3> QED BY <1>2, <1>3, <1>4, <2>1 DEF Logged
    <2> HIDE DEF e
    <2> QED BY <2>2
<1>6. ASSUME NEW m \in Names
      PROVE  Typed(m)' = IF m = n /\ s # Untyped THEN Typed(m) \cup {e} ELSE Typed(m)
    <2>1. Typed(m)' = {i \in 1..Len(log') : log'[i].name = m /\ log'[i].sig # Untyped}
        BY DEF Typed
    <2>2. \A i : i \in Typed(m)' <=> i \in Typed(m) \/ (i = e /\ m = n /\ s # Untyped)
        <3> HIDE DEF e
        <3> QED BY <1>2, <1>3, <1>4, <2>1 DEF Typed
    <2> HIDE DEF e
    <2> QED BY <2>2
<1>7. \A i \in 1..Len(log) : i < e
    BY <1>3
<1>8. e \in Nat /\ log'[e].sig = s
    <2> HIDE DEF x
    <2> QED BY <1>2, <1>3
<1> QED
    BY <1>3, <1>5, <1>6, <1>7, <1>8

(* The map that is written holds the registration, the other what it held. *)
LEMMA StoredKeeps ==
    ASSUME RegistryTypes, NEW n \in Names, NEW b \in Maps, NEW s \in Signatures \cup {Untyped}, Added(n, b, s),
           NEW m \in Names, NEW c \in Maps, NEW old, Stored(m, c, old)
    PROVE  LET new == IF m = n /\ c = b THEN s ELSE old
           IN  /\ Logged(m, c)' = {} => new = NoHandler
               /\ \A i \in Logged(m, c)' : (\A j \in Logged(m, c)' : j <= i) => new = log'[i].sig
<1>0. PICK e : e = Len(log) + 1
    OBVIOUS
<1>1. /\ e \in Nat /\ log'[e].sig = s
      /\ \A i \in 1..Len(log) : log'[i] = log[i] /\ i < e
      /\ Logged(m, c)' = IF m = n /\ c = b THEN Logged(m, c) \cup {e} ELSE Logged(m, c)
    BY <1>0, LogGrows
<1>2. Logged(m, c) \subseteq 1..Len(log) /\ \A i \in Logged(m, c) : i \in Int
    BY DEF Logged
<1>3. CASE m = n /\ c = b
    <2>1. \A i \in Logged(m, c) : ~(e <= i)
        BY <1>1, <1>2
    <2> QED BY <1>1, <1>3, <2>1
<1>4. CASE ~(m = n /\ c = b)
    BY <1>1, <1>2, <1>4 DEF Stored
<1> QED BY <1>3, <1>4

(* addMethod and addAsyncMethod describe a signature in the same way. *)
LEMMA DescribeKeeps ==
    ASSUME RegistryInv, NEW n \in Names, NEW b \in Maps, NEW s \in Signatures,
           Added(n, b, s), addSchemaGenerators(s), describe(n, s)
    PROVE  /\ generators' \subseteq Types
           /\ described' \subseteq Names
           /\ descr' \in [Names -> [params : Seq(Types \cup Scalars), ret : Types \cup Scalars \cup {NoHandler}]]
           /\ log' \in Seq(Registration)
           /\ \A m \in Names : HasGenerators(m)'
           /\ \A m \in Names : DescribedInv(m)'
<1>1. RegistryTypes
    BY DEF RegistryInv
<1>2. /\ s \in [params : Seq(Types \cup Scalars), ret : Types \cup Scalars]
      /\ s = [params |-> s.params, ret |-> s.ret] /\ s # Untyped
    BY SignatureIsTyped
<1> DEFINE p == descr[n].params
           q == p \o s.params
           e == [params |-> q, ret |-> s.ret]
<1>3. p \in Seq(Types \cup Scalars) /\ s.params \in Seq(Types \cup Scalars) /\ s.ret \in Types \cup Scalars
    BY <1>1, <1>2 DEF RegistryTypes
<1>4. /\ q \in Seq(Types \cup Scalars)
      /\ Len(q) = Len(p) + Len(s.params)
      /\ \A i \in 1..Len(q) : q[i] = IF i <= Len(p) THEN p[i] ELSE s.params[i - Len(p)]
    <2> HIDE DEF p
    <2> QED BY <1>3, ConcatProperties
<1>5. /\ described' = described \cup {n}
      /\ descr' = [descr EXCEPT ![n] = e]
      /\ generators' = generators \cup ((ToSet(s.params) \cup {s.ret}) \cap Types)
    BY DEF addSchemaGenerators, describe
<1>6. generators' \subseteq Types /\ described' \subseteq Names
    BY <1>1, <1>5 DEF RegistryTypes
<1>7. /\ descr' \in [Names -> [params : Seq(Types \cup Scalars), ret : Types \cup Scalars \cup {NoHandler}]]
      /\ descr'[n] = e
      /\ \A m \in Names \ {n} : descr'[m] = descr[m]
    <2>1. e \in [params : Seq(Types \cup Scalars), ret : Types \cup Scalars \cup {NoHandler}]
        <3> HIDE DEF q
        <3> QED BY <1>3, <1>4
    <2> HIDE DEF e
    <2> QED BY <1>1, <1>5, <2>1 DEF RegistryTypes
<1>8. HasGenerators(n)'
    <2>1. ASSUME NEW i \in 1..Len(q), q[i] \in Types
          PROVE  q[i] \in generators'
        <3>1. CASE i <= Len(p)
            <4>1. q[i] = p[i] /\ i \in 1..Len(p)
                <5> HIDE DEF q, p
                <5> QED BY <1>3, <1>4, <3>1
            <4>2. HasGenerators(n)
                BY DEF RegistryInv
            <4> QED
                BY <2>1, <4>1, <4>2, <1>5 DEF HasGenerators
        <3>2. CASE ~(i <= Len(p))
            <4>1. q[i] = s.params[i - Len(p)] /\ i - Len(p) \in 1..Len(s.params)
                <5> HIDE DEF q, p
                <5> QED BY <1>3, <1>4, <3>2
            <4>2. s.params[i - Len(p)] \in ToSet(s.params)
                <5> HIDE DEF p
                <5> QED BY <4>1, <1>3 DEF ToSet
            <4> HIDE DEF q, p
            <4> QED BY <2>1, <4>1, <4>2, <1>5
        <3> QED BY <3>1, <3>2
    <2>2. s.ret \in Types => s.ret \in generators'
        BY <1>5
    <2>3. descr'[n].params = q /\ descr'[n].ret = s.ret
        <3>1. descr'[n] = e
            BY <1>7
        <3>2. e.params = q /\ e.ret = s.ret
            OBVIOUS
        <3> HIDE DEF e, q
        <3> QED BY <3>1, <3>2
    <2>4. \A i \in 1..Len(q) : q[i] \in Types => q[i] \in generators'
        BY <2>1
    <2> HIDE DEF q
    <2> QED BY <2>2, <2>3, <2>4 DEF HasGenerators
<1>9. ASSUME NEW m \in Names \ {n}
      PROVE  HasGenerators(m)' /\ descr'[m] = descr[m] /\ (m \in described' <=> m \in described)
    <2>1. HasGenerators(m) /\ descr'[m] = descr[m]
        BY <1>7 DEF RegistryInv
    <2>2. generators \subseteq generators' /\ (m \in described' <=> m \in described)
        BY <1>5
    <2> QED
        BY <2>1, <2>2 DEF HasGenerators
<1>10. PICK k : k = Len(log) + 1
    OBVIOUS
<1>11. /\ k \in Nat /\ log'[k].sig = s /\ log' \in Seq(Registration)
       /\ \A i \in 1..Len(log) : log'[i] = log[i] /\ i < k
       /\ \A m \in Names : Typed(m)' = IF m = n THEN Typed(m) \cup {k} ELSE Typed(m)
    BY <1>1, <1>2, <1>10, LogGrows
<1>12. \A m : Typed(m) \subseteq 1..Len(log)
    BY DEF Typed
<1>13. ASSUME NEW m \in Names \ {n} PROVE DescribedInv(m)'
    <2>1. DescribedInv(m) /\ Typed(m)' = Typed(m) /\ \A i \in Typed(m) : log'[i] = log[i]
        BY <1>11, <1>12 DEF RegistryInv, LoggedInv
    <2> QED BY <1>9, <2>1 DEF DescribedInv
<1>14. DescribedInv(n)'
    <2>1. /\ DescribedInv(n) /\ Typed(n)' = Typed(n) \cup {k}
          /\ \A i \in Typed(n) : log'[i] = log[i] /\ i # k /\ ~(k <= i)
        <3>1. \A i \in Typed(n) : i \in Int /\ log'[i] = log[i] /\ i < k
            BY <1>11, <1>12
        <3>2. \A i \in Typed(n) : i # k /\ ~(k <= i)
            BY <1>11, <3>1
        <3> QED BY <1>11, <3>1, <3>2 DEF RegistryInv, LoggedInv
    <2>2. descr'[n].params = q /\ descr'[n].ret = s.ret
        <3>1. descr'[n] = e
            BY <1>7
        <3>2. e.params = q /\ e.ret = s.ret
            OBVIOUS
        <3> HIDE DEF e, q
        <3> QED BY <3>1, <3>2
    <2>3. ASSUME \A j \in Typed(n) : log'[j].sig.params = <<>>
          PROVE  q = s.params
        <3>1. \A j \in Typed(n) : log[j].sig.params = <<>>
            BY <2>1, <2>3
        <3>2. p = <<>>
            BY <2>1, <3>1 DEF DescribedInv
        <3> HIDE DEF p
        <3> QED BY <1>3, <3>2, ConcatEmptySeq
    <2> HIDE DEF q
    <2>4. \A i \in Typed(n)' : (\A j \in Typed(n)' : j <= i) => i = k
        BY <2>1
    <2>5. \A i \in Typed(n)' : n \in described'
        BY <1>5
    <2>6. \A i \in Typed(n)' : (\A j \in Typed(n)' : j <= i) => descr'[n].ret = log'[i].sig.ret
        BY <1>11, <2>2, <2>4
    <2>7. (\A i \in Typed(n)' : log'[i].sig.params = <<>>) => descr'[n].params = <<>>
        BY <1>11, <2>1, <2>2, <2>3
    <2>8. \A i \in Typed(n)' :
            (\A j \in Typed(n)' : j <= i) /\ (\A j \in Typed(n)' \ {i} : log'[j].sig.params = <<>>)
               => descr'[n].params = log'[i].sig.params
        BY <1>11, <2>1, <2>2, <2>3, <2>4
    <2> QED BY <2>5, <2>6, <2>7, <2>8 DEF DescribedInv
<1> HIDE DEF e
<1> QED
    BY <1>6, <1>7, <1>8, <1>9, <1>11, <1>13, <1>14

(* addHandler and addAsyncHandler leave the description alone. *)
LEMMA UntypedKeeps ==
    ASSUME RegistryInv, NEW n \in Names, NEW b \in Maps, Added(n, b, Untyped),
           UNCHANGED <<described, descr>>, NEW m \in Names
    PROVE  DescribedInv(m)'
<1>1. /\ Typed(m)' = Typed(m)
      /\ \A i \in 1..Len(log) : log'[i] = log[i]
    BY LogGrows DEF RegistryInv
<1>2. DescribedInv(m) /\ Typed(m) \subseteq 1..Len(log)
    BY DEF RegistryInv, LoggedInv, Typed
<1>3. \A i \in Typed(m) : log'[i] = log[i]
    BY <1>1, <1>2
<1> QED BY <1>1, <1>2, <1>3 DEF DescribedInv

(* An entry is written into one of the maps. *)
LEMMA WriteEntry ==
    ASSUME NEW f \in [Names -> Entries], NEW n \in Names, NEW s \in Signatures \cup {Untyped}
    PROVE  LET g == [f EXCEPT ![n] = s]
           IN  g \in [Names -> Entries] /\ \A m \in Names : g[m] = IF m = n THEN s ELSE f[m]
BY DEF Entries

(* What a registration keeps of LoggedInv, once its two maps are known. *)
LEMMA MapsKeep ==
    ASSUME RegistryInv, NEW n \in Names, NEW b \in Maps, NEW s \in Signatures \cup {Untyped}, Added(n, b, s),
           UNCHANGED shape,
           handlers' \in [Names -> Entries], asyncHandlers' \in [Names -> Entries],
           \A m \in Names : handlers'[m] = IF m = n /\ "sync" = b THEN s ELSE handlers[m],
           \A m \in Names : asyncHandlers'[m] = IF m = n /\ "async" = b THEN s ELSE asyncHandlers[m],
           generators' \subseteq Types, described' \subseteq Names,
           descr' \in [Names -> [params : Seq(Types \cup Scalars), ret : Types \cup Scalars \cup {NoHandler}]],
           \A m \in Names : HasGenerators(m)',
           \A m \in Names : DescribedInv(m)'
    PROVE  RegistryInv'
<1>1. RegistryTypes
    BY DEF RegistryInv
<1>2. log' \in Seq(Registration)
    BY <1>1, LogGrows
<1>3. RegistryTypes'
    BY <1>1, <1>2 DEF RegistryTypes
<1>4. ASSUME NEW m \in Names PROVE LoggedInv(m)'
    <2>1. Stored(m, "sync", handlers[m]) /\ Stored(m, "async", asyncHandlers[m])
        BY DEF RegistryInv, LoggedInv
    <2>2. "sync" \in Maps /\ "async" \in Maps
        BY DEF Maps
    <2>3. Stored(m, "sync", handlers[m])'
        <3>1. LET new == IF m = n /\ "sync" = b THEN s ELSE handlers[m]
              IN  /\ Logged(m, "sync")' = {} => new = NoHandler
                  /\ \A i \in Logged(m, "sync")' : (\A j \in Logged(m, "sync")' : j <= i) => new = log'[i].sig
            BY <1>1, <2>1, <2>2, StoredKeeps
        <3>2. handlers'[m] = IF m = n /\ "sync" = b THEN s ELSE handlers[m]
            OBVIOUS
        <3> QED BY <3>1, <3>2 DEF Stored
    <2>4. Stored(m, "async", asyncHandlers[m])'
        <3>1. LET new == IF m = n /\ "async" = b THEN s ELSE asyncHandlers[m]
              IN  /\ Logged(m, "async")' = {} => new = NoHandler
                  /\ \A i \in Logged(m, "async")' : (\A j \in Logged(m, "async")' : j <= i) => new = log'[i].sig
            BY <1>1, <2>1, <2>2, StoredKeeps
        <3>2. asyncHandlers'[m] = IF m = n /\ "async" = b THEN s ELSE asyncHandlers[m]
            OBVIOUS
        <3> QED BY <3>1, <3>2 DEF Stored
    <2> QED BY <2>3, <2>4 DEF LoggedInv
<1> QED BY <1>3, <1>4 DEF RegistryInv

LEMMA RegisterKeeps == RegistryInv /\ Register => RegistryInv' /\ UNCHANGED shape
<1> SUFFICES ASSUME RegistryInv, Register PROVE RegistryInv' /\ UNCHANGED shape
    OBVIOUS
<1>1. RegistryTypes /\ handlers \in [Names -> Entries] /\ asyncHandlers \in [Names -> Entries]
    BY DEF RegistryInv, RegistryTypes
<1>0. "sync" \in Maps /\ "async" \in Maps /\ "sync" # "async"
    BY DEF Maps
<1>2. PICK n \in Names :
         \/ \E s \in Signatures : addMethod(n, s) \/ addAsyncMethod(n, s)
         \/ addHandler(n) \/ addAsyncHandler(n)
    BY DEF Register
<1>3. ASSUME NEW s \in Signatures, addMethod(n, s)
      PROVE  RegistryInv' /\ UNCHANGED shape
    <2>1. /\ Added(n, "sync", s) /\ addSchemaGenerators(s) /\ describe(n, s)
          /\ handlers' = [handlers EXCEPT ![n] = s]
          /\ UNCHANGED <<shape, asyncHandlers>>
        BY <1>3 DEF addMethod
    <2>2. /\ generators' \subseteq Types /\ described' \subseteq Names
          /\ descr' \in [Names -> [params : Seq(Types \cup Scalars), ret : Types \cup Scalars \cup {NoHandler}]]
          /\ \A m \in Names : HasGenerators(m)'
          /\ \A m \in Names : DescribedInv(m)'
        BY <1>0, <2>1, DescribeKeeps
    <2>3. /\ handlers' \in [Names -> Entries] /\ asyncHandlers' \in [Names -> Entries]
          /\ \A m \in Names : handlers'[m] = IF m = n /\ "sync" = "sync" THEN s ELSE handlers[m]
          /\ \A m \in Names : asyncHandlers'[m] = IF m = n /\ "async" = "sync" THEN s ELSE asyncHandlers[m]
        BY <1>0, <1>1, <2>1, WriteEntry
    <2> QED BY <1>0, <2>1, <2>2, <2>3, MapsKeep
<1>4. ASSUME NEW s \in Signatures, addAsyncMethod(n, s)
      PROVE  RegistryInv' /\ UNCHANGED shape
    <2>1. /\ Added(n, "async", s) /\ addSchemaGenerators(s) /\ describe(n, s)
          /\ asyncHandlers' = [asyncHandlers EXCEPT ![n] = s]
          /\ UNCHANGED <<shape, handlers>>
        BY <1>4 DEF addAsyncMethod
    <2>2. /\ generators' \subseteq Types /\ described' \subseteq Names
          /\ descr' \in [Names -> [params : Seq(Types \cup Scalars), ret : Types \cup Scalars \cup {NoHandler}]]
          /\ \A m \in Names : HasGenerators(m)'
          /\ \A m \in Names : DescribedInv(m)'
        BY <1>0, <2>1, DescribeKeeps
    <2>3. /\ asyncHandlers' \in [Names -> Entries] /\ handlers' \in [Names -> Entries]
          /\ \A m \in Names : asyncHandlers'[m] = IF m = n /\ "async" = "async" THEN s ELSE asyncHandlers[m]
          /\ \A m \in Names : handlers'[m] = IF m = n /\ "sync" = "async" THEN s ELSE handlers[m]
        BY <1>0, <1>1, <2>1, WriteEntry
    <2> QED BY <1>0, <2>1, <2>2, <2>3, MapsKeep
<1>5. CASE addHandler(n)
    <2>1. /\ Added(n, "sync", Untyped) /\ handlers' = [handlers EXCEPT ![n] = Untyped]
          /\ UNCHANGED <<shape, asyncHandlers, generators, described, descr>>
        BY <1>5 DEF addHandler
    <2>2. /\ generators' \subseteq Types /\ described' \subseteq Names
          /\ descr' \in [Names -> [params : Seq(Types \cup Scalars), ret : Types \cup Scalars \cup {NoHandler}]]
        BY <1>1, <2>1 DEF RegistryTypes
    <2>4. \A m \in Names : HasGenerators(m)'
        BY <2>1 DEF HasGenerators, RegistryInv
    <2>5. \A m \in Names : DescribedInv(m)'
        BY <1>0, <2>1, UntypedKeeps
    <2>3. /\ handlers' \in [Names -> Entries] /\ asyncHandlers' \in [Names -> Entries]
          /\ \A m \in Names : handlers'[m] = IF m = n /\ "sync" = "sync" THEN Untyped ELSE handlers[m]
          /\ \A m \in Names : asyncHandlers'[m] = IF m = n /\ "async" = "sync" THEN Untyped ELSE asyncHandlers[m]
        BY <1>0, <1>1, <2>1, WriteEntry
    <2> QED BY <1>0, <2>1, <2>2, <2>3, <2>4, <2>5, MapsKeep
<1>6. CASE addAsyncHandler(n)
    <2>1. /\ Added(n, "async", Untyped) /\ asyncHandlers' = [asyncHandlers EXCEPT ![n] = Untyped]
          /\ UNCHANGED <<shape, handlers, generators, described, descr>>
        BY <1>6 DEF addAsyncHandler
    <2>2. /\ generators' \subseteq Types /\ described' \subseteq Names
          /\ descr' \in [Names -> [params : Seq(Types \cup Scalars), ret : Types \cup Scalars \cup {NoHandler}]]
        BY <1>1, <2>1 DEF RegistryTypes
    <2>4. \A m \in Names : HasGenerators(m)'
        BY <2>1 DEF HasGenerators, RegistryInv
    <2>5. \A m \in Names : DescribedInv(m)'
        BY <1>0, <2>1, UntypedKeeps
    <2>3. /\ asyncHandlers' \in [Names -> Entries] /\ handlers' \in [Names -> Entries]
          /\ \A m \in Names : asyncHandlers'[m] = IF m = n /\ "async" = "async" THEN Untyped ELSE asyncHandlers[m]
          /\ \A m \in Names : handlers'[m] = IF m = n /\ "sync" = "async" THEN Untyped ELSE handlers[m]
        BY <1>0, <1>1, <2>1, WriteEntry
    <2> QED BY <1>0, <2>1, <2>2, <2>3, <2>4, <2>5, MapsKeep
<1> QED
    BY <1>2, <1>3, <1>4, <1>5, <1>6

-----------------------------------------------------------------------------
(* The document.                                                              *)

(* What Reaches defines: the members of every closed set.                     *)
LEMMA ReachesMeaning ==
    ASSUME NEW g, NEW t, NEW d
    PROVE  d \in Reaches(g, t) <=>
              /\ d \in Structs
              /\ \A S \in SUBSET Structs :
                    ({t} \cap Structs) \cup g[t] \subseteq S /\ (\A u \in S : g[u] \subseteq S)
                       => d \in S
BY DEF Reaches

(* What a type leads to is closed under references. *)
LEMMA ReachesClosed ==
    ASSUME NEW g \in [Types -> SUBSET Structs], NEW t \in Types
    PROVE  /\ Reaches(g, t) \subseteq Structs
           /\ t \in Structs => t \in Reaches(g, t)
           /\ g[t] \subseteq Reaches(g, t)
           /\ \A u \in Reaches(g, t) : g[u] \subseteq Reaches(g, t)
<1>1. Structs \subseteq Types
    BY DEF Types
<1>2. Reaches(g, t) \subseteq Structs
    BY ReachesMeaning
<1>3. t \in Structs => t \in Reaches(g, t)
    BY ReachesMeaning
<1>4. g[t] \subseteq Reaches(g, t)
    BY <1>1, ReachesMeaning
<1>5. ASSUME NEW u \in Reaches(g, t), NEW d \in g[u]
      PROVE  d \in Reaches(g, t)
    <2>1. d \in Structs /\ u \in Structs
        BY <1>1, <1>2
    <2>2. ASSUME NEW S \in SUBSET Structs,
                 ({t} \cap Structs) \cup g[t] \subseteq S /\ \A v \in S : g[v] \subseteq S
          PROVE  d \in S
        <3>1. u \in S
            BY <2>2, ReachesMeaning
        <3> QED BY <2>2, <3>1
    <2> QED BY <2>1, <2>2, ReachesMeaning
<1> QED
    BY <1>2, <1>3, <1>4, <1>5

LEMMA RefersIsTyped ==
    RegistryTypes => /\ Refers \in [Types -> SUBSET Structs]
                     /\ \A t \in Types : Refers[t] = IF t \in Skipped THEN {t} ELSE shape[t]
BY ShapeIsTyped, TypeAssumption DEF Refers

LEMMA RefersStays == UNCHANGED shape => Refers' = Refers
BY DEF Refers

LEMMA RefersClosed ==
    ASSUME RegistryTypes, NEW t \in Types
    PROVE  /\ Refers[t] \subseteq Reaches(Refers, t)
           /\ \A u \in Reaches(Refers, t) : Refers[u] \subseteq Reaches(Refers, t)
BY RefersIsTyped, ReachesClosed

(* What the document holds refers to what it holds, or to a skipped struct.   *)
LEMMA SchemasClosed ==
    ASSUME RegistryInv
    PROVE  /\ schemas \subseteq Types
           /\ MethodRefs \subseteq schemas
           /\ \A t \in schemas : Refers[t] \ schemas \subseteq Skipped \ generators
<1>1. /\ RegistryTypes /\ generators \subseteq Types /\ described \subseteq Names
      /\ descr \in [Names -> [params : Seq(Types \cup Scalars), ret : Types \cup Scalars \cup {NoHandler}]]
    BY DEF RegistryInv, RegistryTypes
<1>2. ASSUME NEW g \in generators
      PROVE  /\ Defs(g) \subseteq Structs
             /\ shape[g] \subseteq Defs(g)
             /\ \A u \in Defs(g) : shape[u] \subseteq Defs(g)
    BY <1>1, ShapeIsTyped, ReachesClosed DEF Defs
<1>3. schemas \subseteq Types
    BY <1>1, <1>2 DEF schemas, Exported, Types
<1>4. ASSUME NEW t \in schemas, NEW d \in Refers[t], d \notin schemas
      PROVE  d \in Skipped \ generators
    <2>1. d \notin generators
        BY <1>4 DEF schemas
    <2>2. CASE t \in Skipped
        BY <1>1, <1>3, <1>4, <2>2, RefersIsTyped
    <2>3. CASE t \notin Skipped
        <3>1. d \in shape[t]
            BY <1>1, <1>3, <1>4, <2>3, RefersIsTyped
        <3>2. PICK g \in generators : t = g \/ t \in Defs(g)
            BY DEF schemas, Exported
        <3>3. d \in Defs(g)
            BY <1>2, <3>1, <3>2
        <3>4. d \notin Exported(g)
            BY <1>4 DEF schemas
        <3> QED BY <2>1, <3>3, <3>4 DEF Exported
    <2> QED BY <2>2, <2>3
<1>5. ASSUME NEW n \in described, NEW r \in ToSet(descr[n].params) \cup {descr[n].ret}, r \in Types
      PROVE  r \in schemas
    <2>1. HasGenerators(n) /\ descr[n].params \in Seq(Types \cup Scalars)
        BY <1>1 DEF RegistryInv
    <2>2. CASE r = descr[n].ret
        BY <1>5, <2>1, <2>2 DEF HasGenerators, schemas
    <2>3. CASE r \in ToSet(descr[n].params)
        <3>1. PICK i \in 1..Len(descr[n].params) : r = descr[n].params[i]
            BY <2>1, <2>3 DEF ToSet
        <3> QED BY <1>5, <2>1, <3>1 DEF HasGenerators, schemas
    <2> QED BY <2>2, <2>3
<1>6. MethodRefs \subseteq schemas
    BY <1>5 DEF MethodRefs
<1> QED
    BY <1>3, <1>4, <1>6

(* The document is made once, of a registry that does not change any more.    *)
DocInv ==
    /\ stage = "idle" => doc = NoDoc
    /\ doc # NoDoc => doc = Document
    /\ stage = "writing" => doc = Document

(* How far the scan has come: it has passed no answer and no error.           *)
ScanInv ==
    /\ out \in Seq(Stray \cup {"answer", "cut"})
    /\ next \in 1..(Len(out) + 1)
    /\ \A i \in 1..(next - 1) : out[i] \in {"text", "cut", "notification"}
    /\ stage \in {"idle", "scanning", "writing", "threw"}
    /\ \A i \in 1..Len(out) : out[i] = "answer" => doc = Document
    /\ stage \in {"idle", "writing"} => out = <<>>
    /\ stage = "threw" /\ next <= Len(out) => out[next] = "error"

DocumentInv == RegistryInv /\ DocInv /\ ScanInv

LEMMA InitDocument == Init => DocumentInv
BY InitRegistry DEF Init, DocumentInv, DocInv, ScanInv, Stray

LEMMA DocumentFrames ==
    UNCHANGED rvars => /\ Document' = Document
                       /\ RegistryInv => RegistryInv'
<1> SUFFICES ASSUME UNCHANGED rvars
             PROVE  Document' = Document /\ (RegistryInv => RegistryInv')
    OBVIOUS
<1> USE DEF rvars
<1>1. schemas' = schemas
    BY DEF schemas, Exported, Defs, Reaches
<1>2. MethodRefs' = MethodRefs
    BY DEF MethodRefs
<1>3. Document' = Document
    BY <1>1, <1>2 DEF Document
<1>4. RegistryTypes => RegistryTypes'
    BY DEF RegistryTypes
<1>5. ASSUME NEW n \in Names PROVE (HasGenerators(n) => HasGenerators(n)') /\ (LoggedInv(n) => LoggedInv(n)')
    <2>1. HasGenerators(n) => HasGenerators(n)'
        BY DEF HasGenerators
    <2>2. Logged(n, "sync")' = Logged(n, "sync") /\ Logged(n, "async")' = Logged(n, "async") /\ Typed(n)' = Typed(n)
        BY DEF Logged, Typed
    <2>3. Stored(n, "sync", handlers[n]) => Stored(n, "sync", handlers[n])'
        BY <2>2 DEF Stored
    <2>4. Stored(n, "async", asyncHandlers[n]) => Stored(n, "async", asyncHandlers[n])'
        BY <2>2 DEF Stored
    <2>5. DescribedInv(n) => DescribedInv(n)'
        BY <2>2 DEF DescribedInv
    <2> QED BY <2>1, <2>3, <2>4, <2>5 DEF LoggedInv
<1>6. RegistryInv => RegistryInv'
    BY <1>4, <1>5 DEF RegistryInv
<1> QED BY <1>3, <1>6

(* A step after registration leaves the registry alone. *)
LEMMA DocumentKeeps ==
    ASSUME DocumentInv, [Next]_vars
    PROVE  DocumentInv'
<1>1. RegistryInv /\ DocInv /\ ScanInv
    BY DEF DocumentInv
<1>2. CASE stage = "idle" /\ Register /\ UNCHANGED <<tvars, doc, fvars>>
    <2>1. RegistryInv'
        BY <1>1, <1>2, RegisterKeeps
    <2>2. UNCHANGED <<doc, stage, out, next>> /\ stage = "idle"
        BY <1>2 DEF fvars
    <2>3. doc = NoDoc /\ out = <<>>
        BY <1>1, <2>2 DEF DocInv, ScanInv
    <2>4. DocInv' /\ ScanInv'
        BY <1>1, <2>2, <2>3 DEF DocInv, ScanInv
    <2> QED BY <2>1, <2>4 DEF DocumentInv
<1>3. ASSUME UNCHANGED rvars, DocInv' /\ ScanInv' PROVE DocumentInv'
    BY <1>1, <1>3, DocumentFrames DEF DocumentInv
<1>4. CASE ReadFile
    <2>1. UNCHANGED rvars /\ Document' = Document
        BY <1>4, DocumentFrames DEF ReadFile
    <2>2. doc' = Document /\ stage = "idle" /\ stage' = "writing" /\ UNCHANGED <<out, next>>
        BY <1>4 DEF ReadFile
    <2>3. DocInv' /\ ScanInv'
        BY <1>1, <2>1, <2>2 DEF DocInv, ScanInv
    <2> QED BY <1>3, <2>1, <2>3
<1>5. CASE Fail
    <2>1. UNCHANGED rvars /\ Document' = Document
        BY <1>5, DocumentFrames DEF Fail
    <2>2. stage = "idle" /\ stage' = "threw" /\ UNCHANGED <<doc, out, next>>
        BY <1>5 DEF Fail
    <2>3. DocInv' /\ ScanInv'
        BY <1>1, <2>1, <2>2 DEF DocInv, ScanInv
    <2> QED BY <1>3, <2>1, <2>3
<1>6. ASSUME NEW b \in Lines, Serve(b)
      PROVE  DocumentInv'
    <2>1. UNCHANGED rvars /\ Document' = Document
        BY <1>6, DocumentFrames DEF Serve
    <2>2. /\ stage = "idle" /\ stage' = "scanning" /\ next' = next
          /\ \/ out' = Append(b, "answer") /\ doc' = Document
             \/ out' \in {b, Append(b, "cut"), Append(b, "error")} /\ doc' = doc
        BY <1>6 DEF Serve
    <2>3. doc = NoDoc /\ out = <<>> /\ next = 1
        BY <1>1, <2>2 DEF DocInv, ScanInv
    <2>4. b \in Seq(Stray) /\ b \in Seq(Stray \cup {"answer", "cut"})
        <3>1. PICK m \in 0..MaxStray : b \in [1..m -> Stray]
            BY DEF Lines, BoundedSeq, SeqOf
        <3> QED BY <3>1, StrayAssumption
    <2>5. DocInv'
        BY <2>1, <2>2, <2>3 DEF DocInv
    <2>6. /\ Len(Append(b, "answer")) = Len(b) + 1
          /\ Len(Append(b, "cut")) = Len(b) + 1
          /\ Append(b, "cut") \in Seq(Stray \cup {"answer", "cut"})
          /\ Append(b, "answer") \in Seq(Stray \cup {"answer", "cut"})
          /\ \A i \in 1..(Len(b) + 1) : Append(b, "cut")[i] = IF i <= Len(b) THEN b[i] ELSE "cut"
          /\ Len(Append(b, "error")) = Len(b) + 1
          /\ Append(b, "error") \in Seq(Stray \cup {"answer", "cut"})
          /\ \A i \in 1..(Len(b) + 1) : Append(b, "error")[i] = IF i <= Len(b) THEN b[i] ELSE "error"
        BY <2>4 DEF Stray
    <2>7. out' \in Seq(Stray \cup {"answer", "cut"}) /\ next' \in 1..(Len(out') + 1)
        BY <2>2, <2>3, <2>4, <2>6
    <2>8. ASSUME NEW i \in 1..Len(out'), out'[i] = "answer"
          PROVE  doc' = Document
        <3>1. CASE out' = b
            BY <2>4, <2>8, <3>1 DEF Stray
        <3>2. ASSUME NEW c \in {"cut", "error"}, out' = Append(b, c)
              PROVE  doc' = Document
            <4>1. i \in 1..(Len(b) + 1)
                BY <2>6, <2>8, <3>2
            <4>2. out'[i] = IF i <= Len(b) THEN b[i] ELSE c
                BY <2>6, <3>2, <4>1
            <4>3. i <= Len(b) => b[i] \in Stray
                BY <2>4, <4>1
            <4> QED BY <2>8, <4>2, <4>3 DEF Stray
        <3> QED BY <2>2, <3>1, <3>2
    <2>9. ScanInv'
        BY <2>1, <2>2, <2>3, <2>7, <2>8 DEF ScanInv
    <2> QED BY <1>3, <2>1, <2>5, <2>9
<1>7. CASE Skip
    <2>1. UNCHANGED rvars /\ Document' = Document
        BY <1>7, DocumentFrames DEF Skip
    <2>2. /\ stage = "scanning" /\ next <= Len(out) /\ out[next] \in {"text", "cut", "notification"}
          /\ next' = next + 1 /\ UNCHANGED <<doc, stage, out>>
        BY <1>7 DEF Skip
    <2>3. next' \in 1..(Len(out) + 1) /\ Len(out) \in Nat
        BY <1>1, <2>2 DEF ScanInv
    <2>4. \A i \in 1..(next' - 1) : i \in 1..(next - 1) \/ i = next
        BY <1>1, <2>2 DEF ScanInv
    <2>5. DocInv' /\ ScanInv'
        BY <1>1, <2>1, <2>2, <2>3, <2>4 DEF DocInv, ScanInv
    <2> QED BY <1>3, <2>1, <2>5
<1>8. CASE Found
    <2>1. UNCHANGED rvars /\ Document' = Document
        BY <1>8, DocumentFrames DEF Found
    <2>2. /\ stage = "scanning" /\ next <= Len(out) /\ out[next] = "answer"
          /\ stage' = "writing" /\ out' = <<>> /\ next' = 1 /\ doc' = doc
        BY <1>8 DEF Found
    <2>3. doc = Document
        BY <1>1, <2>2 DEF ScanInv
    <2>4. DocInv' /\ ScanInv'
        BY <2>1, <2>2, <2>3 DEF DocInv, ScanInv
    <2> QED BY <1>3, <2>1, <2>4
<1>9. CASE Throw
    <2>1. UNCHANGED rvars /\ Document' = Document
        BY <1>9, DocumentFrames DEF Throw
    <2>2. /\ stage = "scanning" /\ (next <= Len(out) => out[next] = "error")
          /\ stage' = "threw" /\ UNCHANGED <<doc, out, next>>
        BY <1>9 DEF Throw
    <2>3. DocInv' /\ ScanInv'
        BY <1>1, <2>1, <2>2 DEF DocInv, ScanInv
    <2> QED BY <1>3, <2>1, <2>3
<1>10. ASSUME UNCHANGED <<rvars, doc, fvars>>
       PROVE  DocumentInv'
    <2>1. UNCHANGED rvars /\ Document' = Document /\ UNCHANGED <<doc, stage, out, next>>
        BY <1>10, DocumentFrames DEF fvars
    <2>2. DocInv' /\ ScanInv'
        BY <1>1, <2>1 DEF DocInv, ScanInv
    <2> QED BY <1>3, <2>1, <2>2
<1>11. UNCHANGED vars => UNCHANGED <<rvars, doc, fvars>>
    BY DEF vars
<1> QED
    BY <1>2, <1>4, <1>5, <1>6, <1>7, <1>8, <1>9, <1>10, <1>11 DEF Next, Scan

LEMMA DocumentStays == Spec => []DocumentInv
<1>1. DocumentInv /\ [Next]_vars => DocumentInv'
    BY DocumentKeeps
<1> QED
    BY InitDocument, <1>1, PTL DEF Spec

(* A $ref of the document dangles only for a struct named "VoidT" that a      *)
(* schema refers to and no method uses, for every way the types may refer to  *)
(* each other and every sequence of registrations.                            *)
THEOREM RefsAlwaysResolve == Spec => []RefsResolve
<1>1. DocumentInv => RefsResolve
    <2> SUFFICES ASSUME DocumentInv, doc # NoDoc
                 PROVE  /\ doc.refs \subseteq doc.schemas
                        /\ \A t \in doc.schemas : Refers[t] \ doc.schemas \subseteq Skipped \ generators
        BY DEF RefsResolve
    <2>1. doc = Document /\ RegistryInv
        BY DEF DocumentInv, DocInv
    <2>2. doc.schemas = schemas /\ doc.refs = MethodRefs
        BY <2>1 DEF Document
    <2> QED BY <2>1, <2>2, SchemasClosed
<1> QED
    BY <1>1, DocumentStays, PTL

(* The last registration of a name, the sync before the async, is what a call *)
(* of it meets; the document has its return type if none is described after   *)
(* it, and is its signature if none but it has parameters: for every sequence *)
(* of registrations, repeated ones and sync, async and untyped ones mixed.    *)
THEOREM DocumentIsTrue == Spec => []DocumentMatchesDispatch
<1>1. DocumentInv => DocumentMatchesDispatch
    <2> SUFFICES ASSUME DocumentInv, doc # NoDoc, NEW i \in 1..Len(log), Met(i)
                 PROVE  LET n == log[i].name
                        IN  /\ Dispatched(n) = log[i].sig
                            /\ LastDescribed(i) => doc.methods[n].ret = log[i].sig.ret
                            /\ LastDescribed(i) /\ AloneDescribed(i) => doc.methods[n] = log[i].sig
        BY DEF DocumentMatchesDispatch
    <2>1. doc = Document /\ RegistryInv /\ RegistryTypes
        BY DEF DocumentInv, DocInv, RegistryInv
    <2>2. PICK n : n = log[i].name
        OBVIOUS
    <2>3. PICK b : b = log[i].map
        OBVIOUS
    <2>4. log[i] \in Registration
        BY <2>1 DEF RegistryTypes
    <2>5. /\ n \in Names /\ b \in Maps
          /\ log[i].sig \in Signatures \cup {Untyped} /\ log[i].sig # NoHandler
        BY <2>2, <2>3, <2>4, HandlerAssumption DEF Registration
    <2>6. LoggedInv(n)
        BY <2>1, <2>5 DEF RegistryInv
    <2>7. Dispatched(n) = log[i].sig
        <3>1. CASE b = "sync"
            <4>1. i \in Logged(n, "sync") /\ \A j \in Logged(n, "sync") : j <= i
                BY <2>2, <2>3, <3>1 DEF Met, SameName, Logged
            <4> QED BY <2>5, <2>6, <4>1 DEF LoggedInv, Stored, Dispatched
        <3>2. CASE b = "async"
            <4>1. i \in Logged(n, "async") /\ \A j \in Logged(n, "async") : j <= i
                BY <2>2, <2>3, <3>2 DEF Met, SameName, Logged
            <4>2. Logged(n, "sync") = {}
                BY <2>2, <2>3, <3>2 DEF Met, SameName, Logged
            <4> QED BY <2>6, <4>1, <4>2 DEF LoggedInv, Stored, Dispatched
        <3> QED BY <2>5, <3>1, <3>2 DEF Maps
    <2>8. Describing(i) = Typed(n)
        BY <2>2 DEF Describing, SameName, Typed
    <2>9. ASSUME LastDescribed(i)
          PROVE  /\ doc.methods[n] = descr[n] /\ descr[n].ret = log[i].sig.ret
                 /\ AloneDescribed(i) => descr[n].params = log[i].sig.params
                 /\ log[i].sig \in Signatures
        <3>1. i \in Typed(n) /\ \A j \in Typed(n) : j <= i
            BY <2>8, <2>9 DEF LastDescribed
        <3>2. n \in described /\ descr[n].ret = log[i].sig.ret
            BY <2>6, <3>1 DEF LoggedInv, DescribedInv
        <3>3. doc.methods[n] = descr[n]
            BY <2>1, <3>2 DEF Document
        <3>4. AloneDescribed(i) => descr[n].params = log[i].sig.params
            BY <2>6, <2>8, <3>1 DEF LoggedInv, DescribedInv, AloneDescribed
        <3>5. log[i].sig \in Signatures
            BY <2>5, <3>1 DEF Typed
        <3> QED BY <3>2, <3>3, <3>4, <3>5
    <2>10. ASSUME LastDescribed(i), AloneDescribed(i)
           PROVE  doc.methods[n] = log[i].sig
        <3>1. log[i].sig = [params |-> log[i].sig.params, ret |-> log[i].sig.ret]
            BY <2>9, <2>10, SignatureIsTyped
        <3>2. descr[n] = [params |-> descr[n].params, ret |-> descr[n].ret]
            BY <2>1, <2>5 DEF RegistryTypes
        <3> QED BY <2>9, <2>10, <3>1, <3>2
    <2> QED BY <2>2, <2>7, <2>9, <2>10
<1> QED
    BY <1>1, DocumentStays, PTL

(* fetchSchemaFromExecutable gives up on a server that printed its answer     *)
(* only for an error that stands before it.                                   *)
THEOREM AnswersAreFound == Spec => []AnswerIsFound
<1>1. DocumentInv => AnswerIsFound
    <2> SUFFICES ASSUME DocumentInv, stage = "threw", NEW i \in 1..Len(out), out[i] = "answer"
                 PROVE  \E j \in 1..(i - 1) : out[j] = "error"
        BY DEF AnswerIsFound
    <2>1. /\ next \in 1..(Len(out) + 1) /\ Len(out) \in Nat
          /\ \A j \in 1..(next - 1) : out[j] \in {"text", "cut", "notification"}
          /\ next <= Len(out) => out[next] = "error"
        BY DEF DocumentInv, ScanInv
    <2>2. ~(i \in 1..(next - 1))
        BY <2>1
    <2>3. next <= i /\ next <= Len(out)
        BY <2>1, <2>2
    <2>4. next # i
        BY <2>1, <2>3
    <2>5. next \in 1..(i - 1) /\ out[next] = "error"
        BY <2>1, <2>3, <2>4
    <2> QED BY <2>5
<1> QED
    BY <1>1, DocumentStays, PTL

-----------------------------------------------------------------------------
(* The order of the declarations.                                             *)

Visit == [key : keys, left : SUBSET keys]

(* A stack of visits: the keys of `open`, each once and reached from those    *)
(* below it; what a key refers to is left to look at, or among `seen`.        *)
StackOf(st, open, seen) ==
    /\ st \in Seq(Visit)
    /\ \A i \in 1..Len(st) : st[i].key \in open
    /\ \A k \in open : \E i \in 1..Len(st) : st[i].key = k
    /\ \A i, j \in 1..Len(st) : i < j => st[i].key # st[j].key /\ st[j].key \in Reaches(Refers, st[i].key)
    /\ \A i \in 1..Len(st) : /\ st[i].left \subseteq Refers[st[i].key]
                             /\ (Refers[st[i].key] \cap keys) \ st[i].left \subseteq seen

(* What is sorted already: each key once, after what it refers to.            *)
ResultInv ==
    /\ result \in Seq(keys)
    /\ \A i \in 1..Len(result) : result[i] \in visited
    /\ \A k \in visited : \E i \in 1..Len(result) : result[i] = k
    /\ \A i, j \in 1..Len(result) : result[i] = result[j] => i = j
    /\ \A t \in visited : \A d \in Refers[t] \cap keys : Before(d, t) \/ OnCycle(t, d)

SortInv ==
    /\ deps = Refers
    /\ keys \subseteq Types /\ todo \subseteq keys /\ visited \subseteq keys /\ visiting \subseteq keys
    /\ keys \subseteq todo \cup visited \cup visiting
    /\ visited \cap visiting = {}
    /\ StackOf(stack, visiting, visited \cup visiting)
    /\ ResultInv

(* The sort runs once, over the keys of the document.                         *)
PhaseInv ==
    /\ stage = "writing" => keys = doc.schemas
    /\ stage # "writing" => Idle /\ keys = {}

DiscoveryInv == DocumentInv /\ SortInv /\ PhaseInv

LEMMA InitSort == Init => SortInv /\ PhaseInv
BY DEF Init, Idle, SortInv, PhaseInv, StackOf, ResultInv

(* A longer result keeps the order it has. *)
LEMMA BeforeStays ==
    ASSUME ResultInv, NEW k \in keys, result' = Append(result, k), NEW a, NEW b
    PROVE  /\ Before(a, b) => Before(a, b)'
           /\ a \in visited => Before(a, k)'
<1>1. /\ result \in Seq(keys) /\ Len(result) \in Nat
      /\ Len(result') = Len(result) + 1
      /\ \A i \in 1..Len(result) : result'[i] = result[i]
      /\ result'[Len(result) + 1] = k
    BY DEF ResultInv
<1>2. ASSUME Before(a, b) PROVE Before(a, b)'
    <2>1. PICK i, j \in 1..Len(result) : i < j /\ result[i] = a /\ result[j] = b
        BY <1>2 DEF Before, Declarations
    <2>2. i \in 1..Len(result') /\ j \in 1..Len(result') /\ result'[i] = a /\ result'[j] = b
        BY <1>1, <2>1
    <2> QED BY <2>1, <2>2 DEF Before, Declarations
<1>3. ASSUME a \in visited PROVE Before(a, k)'
    <2>1. PICK i \in 1..Len(result) : result[i] = a
        BY <1>3 DEF ResultInv
    <2>2. /\ i \in 1..Len(result') /\ result'[i] = a
          /\ Len(result') \in 1..Len(result') /\ i < Len(result') /\ result'[Len(result')] = k
        BY <1>1, <2>1
    <2> QED BY <2>2 DEF Before, Declarations
<1> QED BY <1>2, <1>3

(* visit(k) is called for a key its caller refers to. *)
LEMMA EnterKeeps ==
    ASSUME RegistryTypes, deps = Refers, keys \subseteq Types,
           visited \subseteq keys, visiting \subseteq keys, visited \cap visiting = {},
           NEW k \in keys, NEW rest,
           StackOf(rest, visiting, visited \cup visiting \cup {k}),
           rest # <<>> => k \in Refers[rest[Len(rest)].key],
           Enter(k, rest), UNCHANGED <<keys, deps, shape, visited>>
    PROVE  /\ visiting \subseteq visiting' /\ visiting' \subseteq keys
           /\ k \in visited \cup visiting'
           /\ visited \cap visiting' = {}
           /\ StackOf(stack', visiting', visited \cup visiting')
<1>1. CASE k \in visited \cup visiting
    <2>1. stack' = rest /\ visiting' = visiting
        BY <1>1 DEF Enter
    <2>2. visited \cup visiting \cup {k} = visited \cup visiting
        BY <1>1
    <2> QED BY <1>1, <2>1, <2>2
<1>2. CASE k \notin visited \cup visiting
    <2> DEFINE f == [key |-> k, left |-> deps[k] \cap keys]
    <2>1. stack' = Append(rest, f) /\ visiting' = visiting \cup {k}
        BY <1>2 DEF Enter
    <2>2. f \in Visit /\ f.key = k /\ f.left = Refers[k] \cap keys
        BY DEF Visit
    <2> HIDE DEF f
    <2>3. rest \in Seq(Visit) /\ Len(rest) \in Nat
        BY DEF StackOf
    <2>4. /\ stack' \in Seq(Visit)
          /\ Len(stack') = Len(rest) + 1
          /\ \A i \in 1..Len(rest) : stack'[i] = rest[i]
          /\ stack'[Len(rest) + 1] = f
        BY <2>1, <2>2, <2>3
    <2>5. \A i \in 1..Len(stack') : i \in 1..Len(rest) \/ i = Len(rest) + 1
        BY <2>3, <2>4
    <2>6. \A i \in 1..Len(stack') : stack'[i].key \in visiting'
        BY <2>1, <2>2, <2>4, <2>5 DEF StackOf
    <2>7. \A m \in visiting' : \E i \in 1..Len(stack') : stack'[i].key = m
        <3>1. 1..Len(rest) \subseteq 1..Len(stack') /\ Len(rest) + 1 \in 1..Len(stack')
            BY <2>3, <2>4
        <3> QED BY <2>1, <2>2, <2>4, <3>1 DEF StackOf
    <2>8. ASSUME NEW i \in 1..Len(stack'), NEW j \in 1..Len(stack'), i < j
          PROVE  stack'[i].key # stack'[j].key /\ stack'[j].key \in Reaches(Refers, stack'[i].key)
        <3>1. i \in 1..Len(rest) /\ stack'[i] = rest[i]
            BY <2>3, <2>4, <2>8
        <3>2. CASE j \in 1..Len(rest)
            BY <2>4, <2>8, <3>1, <3>2 DEF StackOf
        <3>3. CASE j = Len(rest) + 1
            <4>1. stack'[j].key = k
                BY <2>2, <2>4, <3>3
            <4>2. rest[i].key \in visiting
                BY <3>1 DEF StackOf
            <4>3. rest # <<>> /\ Len(rest) \in 1..Len(rest)
                BY <2>3, <3>1
            <4>4. rest[i].key \in Types
                BY <4>2
            <4>5. k \in Reaches(Refers, rest[i].key)
                <5>1. CASE i = Len(rest)
                    BY <4>3, <4>4, <5>1, RefersClosed
                <5>2. CASE i < Len(rest)
                    <6>1. rest[Len(rest)].key \in Reaches(Refers, rest[i].key)
                        BY <3>1, <4>3, <5>2 DEF StackOf
                    <6> QED BY <4>3, <4>4, <6>1, RefersClosed
                <5> QED BY <2>3, <3>1, <5>1, <5>2
            <4> QED BY <1>2, <3>1, <4>1, <4>2, <4>5
        <3> QED BY <2>5, <3>2, <3>3
    <2>9. ASSUME NEW i \in 1..Len(stack')
          PROVE  /\ stack'[i].left \subseteq Refers[stack'[i].key]
                 /\ (Refers[stack'[i].key] \cap keys) \ stack'[i].left \subseteq visited \cup visiting'
        <3>1. CASE i \in 1..Len(rest)
            BY <2>1, <2>4, <3>1 DEF StackOf
        <3>2. CASE i = Len(rest) + 1
            <4>1. stack'[i].key = k /\ stack'[i].left = Refers[k] \cap keys
                BY <2>2, <2>4, <3>2
            <4> QED BY <4>1
        <3> QED BY <2>5, <3>1, <3>2
    <2>10. StackOf(stack', visiting', visited \cup visiting')
        BY <2>4, <2>6, <2>7, <2>8, <2>9 DEF StackOf
    <2> QED BY <1>2, <2>1, <2>10
<1> QED BY <1>1, <1>2

LEMMA FrontProperties ==
    ASSUME NEW S, NEW s \in Seq(S), s # <<>>
    PROVE  /\ Front(s) \in Seq(S)
           /\ Len(Front(s)) = Len(s) - 1
           /\ \A i \in 1..(Len(s) - 1) : Front(s)[i] = s[i]
<1> DEFINE n == Len(s) - 1
           f == SubSeq(s, 1, n)
<1>1. n \in Nat /\ n - 1 + 1 = n
    BY EmptySeq
<1>2. \A i \in 1..n : s[i] \in S
    OBVIOUS
<1> HIDE DEF n
<1>3. /\ f \in Seq(S)
      /\ Len(f) = IF 1 <= n THEN n - 1 + 1 ELSE 0
      /\ \A i \in 1..(n - 1 + 1) : f[i] = s[1 + i - 1]
    BY <1>1, <1>2, SubSeqProperties
<1>4. Front(s) = f
    BY DEF Front, n
<1> HIDE DEF f
<1>5. f \in Seq(S) /\ Len(f) = n /\ \A i \in 1..n : f[i] = s[i]
    BY <1>1, <1>3
<1> QED
    BY <1>4, <1>5 DEF n

LEMMA LeftProperties ==
    ASSUME NEW v \in Visit, NEW d
    PROVE  LET u == [v EXCEPT !.left = @ \ {d}]
           IN  u \in Visit /\ u.key = v.key /\ u.left = v.left \ {d}
BY DEF Visit

LEMMA NextKeyKeeps ==
    ASSUME RegistryTypes, SortInv, NEW k \in todo, NextKey(k), UNCHANGED shape
    PROVE  SortInv'
<1>1. /\ stack = <<>> /\ Enter(k, <<>>) /\ k \in keys
      /\ todo' = todo \ {k} /\ UNCHANGED <<keys, deps, visited, result>>
    BY DEF NextKey, SortInv
<1>2. StackOf(<<>>, visiting, visited \cup visiting \cup {k})
    BY <1>1 DEF SortInv, StackOf
<1>3. /\ visiting \subseteq visiting' /\ visiting' \subseteq keys
      /\ k \in visited \cup visiting'
      /\ visited \cap visiting' = {}
      /\ StackOf(stack', visiting', visited \cup visiting')
    <2>1. /\ deps = Refers /\ keys \subseteq Types
          /\ visited \subseteq keys /\ visiting \subseteq keys /\ visited \cap visiting = {}
        BY DEF SortInv
    <2> QED BY <1>1, <1>2, <2>1, EnterKeeps
<1>5. StackOf(stack, visiting, visited \cup visiting)'
    BY <1>1, <1>3, RefersStays DEF StackOf, Reaches, Visit
<1>6. ResultInv'
    BY <1>1, RefersStays DEF SortInv, ResultInv, Before, Declarations, OnCycle, Reaches
<1> QED
    BY <1>1, <1>3, <1>5, <1>6, RefersStays DEF SortInv

LEMMA NextDependencyKeeps ==
    ASSUME RegistryTypes, SortInv, NEW d \in keys, NextDependency(d), UNCHANGED shape
    PROVE  SortInv'
<1> DEFINE n == Len(stack)
           top == [Last(stack) EXCEPT !.left = @ \ {d}]
           rest == Append(Front(stack), top)
<1>1. /\ stack # <<>> /\ d \in stack[n].left /\ Enter(d, rest)
      /\ UNCHANGED <<keys, deps, todo, visited, result>>
    BY DEF NextDependency, Last
<1>2. stack \in Seq(Visit) /\ n \in Nat /\ n >= 1
    BY <1>1 DEF SortInv, StackOf
<1>3. /\ top \in Visit
      /\ top.key = stack[n].key /\ top.left = stack[n].left \ {d}
    <2>1. stack[n] \in Visit /\ top = [stack[n] EXCEPT !.left = @ \ {d}]
        BY <1>2 DEF Last
    <2> HIDE DEF top
    <2> QED BY <2>1, LeftProperties
<1>4. /\ Front(stack) \in Seq(Visit) /\ Len(Front(stack)) = n - 1
      /\ \A i \in 1..(n - 1) : Front(stack)[i] = stack[i]
    BY <1>1, <1>2, FrontProperties
<1>5. /\ rest \in Seq(Visit) /\ Len(rest) = n
      /\ \A i \in 1..(n - 1) : rest[i] = stack[i]
      /\ rest[n] = top
    <2> HIDE DEF top, n
    <2> QED BY <1>2, <1>3, <1>4
<1> HIDE DEF rest, top
<1>6. \A i \in 1..n : rest[i].key = stack[i].key
    BY <1>3, <1>5, <1>2
<1>7. ASSUME NEW i \in 1..n
      PROVE  /\ rest[i].left \subseteq Refers[rest[i].key]
             /\ (Refers[rest[i].key] \cap keys) \ rest[i].left \subseteq visited \cup visiting \cup {d}
    <2>1. /\ stack[i].left \subseteq Refers[stack[i].key]
          /\ (Refers[stack[i].key] \cap keys) \ stack[i].left \subseteq visited \cup visiting
        BY DEF SortInv, StackOf
    <2>2. rest[i].left = stack[i].left \/ rest[i].left = stack[i].left \ {d}
        BY <1>2, <1>3, <1>5
    <2> QED BY <1>6, <2>1, <2>2
<1>8. StackOf(rest, visiting, visited \cup visiting \cup {d})
    <2>1. \A i, j \in 1..n : i < j => rest[i].key # rest[j].key /\ rest[j].key \in Reaches(Refers, rest[i].key)
        BY <1>6 DEF SortInv, StackOf
    <2>2. \A i \in 1..n : rest[i].key \in visiting
        BY <1>6 DEF SortInv, StackOf
    <2>3. \A m \in visiting : \E i \in 1..n : rest[i].key = m
        BY <1>6 DEF SortInv, StackOf
    <2> HIDE DEF n
    <2> QED BY <1>5, <1>7, <2>1, <2>2, <2>3 DEF StackOf
<1>9. d \in Refers[rest[Len(rest)].key]
    BY <1>1, <1>2, <1>5, <1>6 DEF SortInv, StackOf
<1>10. /\ visiting \subseteq visiting' /\ visiting' \subseteq keys
       /\ visited \cap visiting' = {}
       /\ StackOf(stack', visiting', visited \cup visiting')
    <2>1. /\ deps = Refers /\ keys \subseteq Types
          /\ visited \subseteq keys /\ visiting \subseteq keys /\ visited \cap visiting = {}
        BY DEF SortInv
    <2> QED BY <1>1, <1>8, <1>9, <2>1, EnterKeeps
<1>11. StackOf(stack, visiting, visited \cup visiting)'
    BY <1>1, <1>10, RefersStays DEF StackOf, Reaches, Visit
<1>12. ResultInv'
    BY <1>1, RefersStays DEF SortInv, ResultInv, Before, Declarations, OnCycle, Reaches
<1> QED
    BY <1>1, <1>10, <1>11, <1>12, RefersStays DEF SortInv

(* The key on top has seen what it refers to: that is done, or below it on    *)
(* the stack, which it is reached from.                                       *)
LEMMA LeaveKeeps ==
    ASSUME RegistryTypes, SortInv, Leave, UNCHANGED shape
    PROVE  SortInv'
<1> DEFINE n == Len(stack)
<1>0. PICK k : k = stack[n].key
    OBVIOUS
<1>1. /\ stack # <<>> /\ stack[n].left = {}
      /\ visiting' = visiting \ {k} /\ visited' = visited \cup {k}
      /\ result' = Append(result, k)
      /\ stack' = Front(stack)
      /\ UNCHANGED <<keys, deps, todo>>
    BY <1>0 DEF Leave, Last
<1>2. stack \in Seq(Visit) /\ n \in Nat /\ n >= 1 /\ n \in 1..n
    BY <1>1 DEF SortInv, StackOf
<1>3. /\ stack' \in Seq(Visit) /\ Len(stack') = n - 1
      /\ \A i \in 1..(n - 1) : stack'[i] = stack[i]
    BY <1>1, <1>2, FrontProperties
<1>4. k \in keys /\ k \in visiting /\ k \notin visited
    BY <1>0, <1>2 DEF SortInv, StackOf
<1>5. /\ \A i \in 1..n : stack[i].key \in visiting
      /\ \A m \in visiting : \E i \in 1..n : stack[i].key = m
      /\ \A i, j \in 1..n : i < j => stack[i].key # stack[j].key /\ stack[j].key \in Reaches(Refers, stack[i].key)
      /\ \A i \in 1..n : /\ stack[i].left \subseteq Refers[stack[i].key]
                         /\ (Refers[stack[i].key] \cap keys) \ stack[i].left \subseteq visited \cup visiting
    BY DEF SortInv, StackOf
<1>6. ASSUME NEW d \in Refers[k] \cap keys
      PROVE  d \in visited \/ OnCycle(k, d)
    <2>1. CASE d \in visiting
        <3>1. PICK i \in 1..n : stack[i].key = d
            BY <1>5, <2>1
        <3>2. i = n \/ k \in Reaches(Refers, d)
            <4>1. i = n \/ i < n
                BY <1>2, <3>1
            <4> HIDE DEF n
            <4> QED BY <1>0, <1>2, <1>5, <3>1, <4>1
        <3> QED BY <1>0, <3>1, <3>2 DEF OnCycle
    <2>2. CASE d \notin visiting
        BY <1>0, <1>1, <1>2, <1>5, <2>2
    <2> QED BY <2>1, <2>2
<1>7. UNCHANGED <<keys, shape>> /\ visited \cup visiting = visited' \cup visiting'
    BY <1>1, <1>4
<1>8. StackOf(stack', visiting', visited' \cup visiting')
    <2>1. \A i \in 1..(n - 1) : i \in 1..n /\ stack[i].key # k
        BY <1>0, <1>2, <1>5
    <2>2. \A i \in 1..Len(stack') : stack'[i].key \in visiting'
        BY <1>1, <1>3, <1>5, <2>1
    <2>3. ASSUME NEW m \in visiting' PROVE \E i \in 1..Len(stack') : stack'[i].key = m
        <3>1. PICK i \in 1..n : stack[i].key = m
            BY <1>1, <1>5, <2>3
        <3>2. i # n
            BY <1>0, <1>1, <2>3, <3>1
        <3>3. i \in 1..(n - 1)
            BY <1>2, <3>2
        <3> QED BY <1>3, <3>1, <3>3
    <2>4. \A i, j \in 1..Len(stack') : i < j => stack'[i].key # stack'[j].key /\ stack'[j].key \in Reaches(Refers, stack'[i].key)
        BY <1>3, <1>5, <2>1, RefersStays
    <2>5. \A i \in 1..Len(stack') :
             /\ stack'[i].left \subseteq Refers[stack'[i].key]
             /\ (Refers[stack'[i].key] \cap keys) \ stack'[i].left \subseteq visited' \cup visiting'
        BY <1>3, <1>5, <1>7, <2>1
    <2> QED BY <1>3, <2>2, <2>3, <2>4, <2>5 DEF StackOf
<1>9. StackOf(stack, visiting, visited \cup visiting)'
    BY <1>7, <1>8, RefersStays DEF StackOf, Reaches, Visit
<1>10. ResultInv'
    <2>1. /\ result \in Seq(keys) /\ Len(result) \in Nat
          /\ result' \in Seq(keys)
          /\ Len(result') = Len(result) + 1
          /\ \A i \in 1..Len(result) : result'[i] = result[i]
          /\ result'[Len(result) + 1] = k
        BY <1>1, <1>4 DEF SortInv, ResultInv
    <2>2. \A i \in 1..Len(result') : i \in 1..Len(result) \/ i = Len(result) + 1
        BY <2>1
    <2>3. \A i \in 1..Len(result) : result[i] \in visited /\ result[i] # k /\ i \in 1..Len(result')
        BY <1>4, <2>1 DEF SortInv, ResultInv
    <2>4. \A i \in 1..Len(result') : result'[i] \in visited'
        BY <1>1, <2>1, <2>2, <2>3
    <2>5. \A m \in visited' : \E i \in 1..Len(result') : result'[i] = m
        <3>1. Len(result) + 1 \in 1..Len(result')
            BY <2>1
        <3>2. \A m \in visited : \E i \in 1..Len(result) : result[i] = m
            BY DEF SortInv, ResultInv
        <3> QED BY <1>1, <2>1, <2>3, <3>1, <3>2
    <2>6. \A i, j \in 1..Len(result) : result[i] = result[j] => i = j
        BY DEF SortInv, ResultInv
    <2>7. \A i, j \in 1..Len(result') : result'[i] = result'[j] => i = j
        BY <2>1, <2>2, <2>3, <2>6
    <2>8. \A a, b : (OnCycle(a, b) => OnCycle(a, b)')
        BY <1>7, RefersStays DEF OnCycle, Reaches
    <2>9. ASSUME NEW t \in visited', NEW d \in (Refers[t] \cap keys)'
          PROVE  Before(d, t)' \/ OnCycle(t, d)'
        <3>1. d \in Refers[t] \cap keys
            BY <1>7, RefersStays
        <3>2. CASE t = k
            <4>1. d \in visited \/ OnCycle(k, d)
                BY <1>6, <3>1, <3>2
            <4>2. d \in visited => Before(d, k)'
                BY <1>1, <1>4, BeforeStays DEF SortInv
            <4> QED BY <2>8, <3>2, <4>1, <4>2
        <3>3. CASE t # k
            <4>1. Before(d, t) \/ OnCycle(t, d)
                BY <1>1, <3>1, <3>3 DEF SortInv, ResultInv
            <4>2. Before(d, t) => Before(d, t)'
                BY <1>1, <1>4, BeforeStays DEF SortInv
            <4> QED BY <2>8, <4>1, <4>2
        <3> QED BY <3>2, <3>3
    <2> QED BY <1>7, <2>1, <2>4, <2>5, <2>7, <2>9 DEF ResultInv
<1> QED
    BY <1>1, <1>4, <1>7, <1>9, <1>10, RefersStays DEF SortInv

(* generate calls topoSort with the keys of the document. *)
LEMMA StartKeeps ==
    ASSUME RegistryInv, deps = Refers, Idle, NEW K, K \subseteq Types,
           Start(K, Refers), UNCHANGED shape
    PROVE  SortInv' /\ keys' = K
<1>1. /\ keys' = K /\ deps' = Refers' /\ todo' = K
      /\ stack' = <<>> /\ visited' = {} /\ visiting' = {} /\ result' = <<>>
    BY RefersStays DEF Start, Idle
<1>2. StackOf(stack, visiting, visited \cup visiting)'
    BY <1>1 DEF StackOf
<1>3. ResultInv'
    BY <1>1 DEF ResultInv
<1> QED
    BY <1>1, <1>2, <1>3, RefersStays DEF SortInv

LEMMA SortStepKeeps ==
    ASSUME RegistryTypes, SortInv, SortStep, UNCHANGED shape
    PROVE  SortInv'
<1>1. (\E k \in todo : NextKey(k)) \/ (\E d \in keys : NextDependency(d)) \/ Leave
    BY DEF SortStep
<1> QED
    BY <1>1, NextKeyKeeps, NextDependencyKeeps, LeaveKeeps

LEMMA SortStill ==
    ASSUME SortInv, UNCHANGED <<tvars, shape>>
    PROVE  SortInv'
<1> USE DEF tvars
<1>1. StackOf(stack, visiting, visited \cup visiting)'
    BY RefersStays DEF SortInv, StackOf, Reaches, Visit
<1>2. ResultInv'
    BY RefersStays DEF SortInv, ResultInv, Before, Declarations, OnCycle, Reaches
<1> QED
    BY <1>1, <1>2, RefersStays DEF SortInv

LEMMA DiscoveryKeeps ==
    ASSUME DiscoveryInv, [Next]_vars
    PROVE  DiscoveryInv'
<1>1. /\ DocumentInv /\ SortInv /\ PhaseInv /\ DocumentInv'
      /\ RegistryInv /\ RegistryTypes /\ deps = Refers
    BY DocumentKeeps DEF DiscoveryInv, DocumentInv, RegistryInv, SortInv
<1>2. schemas \subseteq Types
    BY <1>1, SchemasClosed
<1>3. CASE stage = "idle" /\ Register /\ UNCHANGED <<tvars, doc, fvars>>
    <2>1. UNCHANGED <<tvars, shape, doc, stage>>
        BY <1>1, <1>3, RegisterKeeps DEF fvars
    <2>2. SortInv'
        BY <1>1, <2>1, SortStill
    <2>3. PhaseInv'
        BY <1>1, <2>1 DEF PhaseInv, Idle, tvars
    <2> QED BY <1>1, <2>2, <2>3 DEF DiscoveryInv
<1>4. CASE ReadFile
    <2>1. /\ stage = "idle" /\ doc' = Document /\ stage' = "writing"
          /\ Start(schemas, Refers) /\ UNCHANGED rvars
        BY <1>4 DEF ReadFile
    <2>2. UNCHANGED shape /\ Idle
        BY <1>1, <2>1 DEF rvars, PhaseInv
    <2>3. SortInv' /\ keys' = schemas
        BY <1>1, <1>2, <2>1, <2>2, StartKeeps
    <2>4. PhaseInv'
        BY <2>1, <2>3 DEF PhaseInv, Document
    <2> QED BY <1>1, <2>3, <2>4 DEF DiscoveryInv
<1>5. CASE Found
    <2>1. /\ stage = "scanning" /\ out[next] = "answer" /\ next <= Len(out) /\ stage' = "writing"
          /\ Start(doc.schemas, Refers) /\ UNCHANGED <<rvars, doc>>
        BY <1>5 DEF Found
    <2>2. UNCHANGED shape /\ Idle
        BY <1>1, <2>1 DEF rvars, PhaseInv
    <2>3. doc = Document
        BY <1>1, <2>1 DEF DocumentInv, ScanInv
    <2>4. doc.schemas = schemas
        BY <2>3 DEF Document
    <2>5. SortInv' /\ keys' = schemas
        BY <1>1, <1>2, <2>1, <2>2, <2>4, StartKeeps
    <2>6. PhaseInv'
        BY <2>1, <2>4, <2>5 DEF PhaseInv
    <2> QED BY <1>1, <2>5, <2>6 DEF DiscoveryInv
<1>6. CASE stage = "writing" /\ SortStep /\ UNCHANGED <<rvars, doc, fvars>>
    <2>1. UNCHANGED <<shape, doc, stage>> /\ stage = "writing" /\ SortStep
        BY <1>6 DEF rvars, fvars
    <2>2. SortInv'
        BY <1>1, <2>1, SortStepKeeps
    <2>3. keys' = keys
        BY <2>1 DEF SortStep, NextKey, NextDependency, Leave
    <2>4. PhaseInv'
        BY <1>1, <2>1, <2>3 DEF PhaseInv
    <2> QED BY <1>1, <2>2, <2>4 DEF DiscoveryInv
<1>7. ASSUME UNCHANGED <<tvars, shape>>, stage # "writing", stage' # "writing"
      PROVE  DiscoveryInv'
    <2>1. SortInv'
        BY <1>1, <1>7, SortStill
    <2>2. PhaseInv'
        BY <1>1, <1>7 DEF PhaseInv, Idle, tvars
    <2> QED BY <1>1, <2>1, <2>2 DEF DiscoveryInv
<1>8. CASE Skip \/ Throw \/ Fail \/ \E b \in Lines : Serve(b)
    <2>1. UNCHANGED <<tvars, shape>> /\ stage # "writing" /\ stage' # "writing"
        BY <1>8 DEF Skip, Throw, Fail, Serve, rvars
    <2> QED BY <1>7, <2>1
<1>9. CASE UNCHANGED vars
    <2>1. UNCHANGED <<tvars, shape, stage, doc>>
        BY <1>9 DEF vars, rvars, fvars
    <2>2. SortInv'
        BY <1>1, <2>1, SortStill
    <2>3. PhaseInv'
        BY <1>1, <2>1 DEF PhaseInv, Idle, tvars
    <2> QED BY <1>1, <2>2, <2>3 DEF DiscoveryInv
<1> QED
    BY <1>3, <1>4, <1>5, <1>6, <1>8, <1>9 DEF Next, Scan

LEMMA DiscoveryStays == Spec => []DiscoveryInv
<1>1. Init => DiscoveryInv
    BY InitDocument, InitSort DEF DiscoveryInv
<1>2. DiscoveryInv /\ [Next]_vars => DiscoveryInv'
    BY DiscoveryKeeps
<1> QED
    BY <1>1, <1>2, PTL DEF Spec

(* When the sort is done it has seen every schema of the document. *)
LEMMA AllSorted ==
    ASSUME DiscoveryInv, Generated
    PROVE  /\ doc = Document /\ doc.schemas = keys /\ visited = keys
           /\ doc.refs \subseteq keys
<1>1. stage = "writing" /\ todo = {} /\ stack = <<>>
    BY DEF Generated, Sorted
<1>2. doc = Document /\ doc.schemas = keys /\ RegistryInv
    BY <1>1 DEF DiscoveryInv, DocumentInv, DocInv, PhaseInv
<1>3. visiting = {}
    BY <1>1 DEF DiscoveryInv, SortInv, StackOf
<1>4. visited = keys
    BY <1>1, <1>3 DEF DiscoveryInv, SortInv
<1> QED
    BY <1>2, <1>4, SchemasClosed DEF Document

(* A sequence that holds each element of a set once is as long as the set. *)
LEMMA EachOnce ==
    ASSUME NEW S, NEW n \in Nat, NEW f \in [1..n -> S],
           \A x \in S : \E i \in 1..n : f[i] = x,
           \A i, j \in 1..n : f[i] = f[j] => i = j
    PROVE  Cardinality(S) = n
<1>1. f \in Surjection(1..n, S)
    BY DEF Surjection
<1>2. f \in Injection(1..n, S)
    BY DEF Injection, IsInjective
<1>3. IsFiniteSet(1..n) /\ Cardinality(1..n) = n
    BY FS_Interval
<1> QED
    BY <1>1, <1>2, <1>3, FS_Surjection

(* A visit of the sort is on the stack for each key that is being visited, so *)
(* the stack is never deeper than there are keys, whatever cycles they form;  *)
(* and the scan never leaves the lines of the output.                         *)
THEOREM DiscoveryTyping == Spec => []TypeOK
<1>1. DiscoveryInv => TypeOK
    <2> SUFFICES ASSUME DiscoveryInv PROVE TypeOK
        OBVIOUS
    <2>1. RegistryTypes /\ ScanInv /\ SortInv
        BY DEF DiscoveryInv, DocumentInv, RegistryInv
    <2>2. StackOf(stack, visiting, visited \cup visiting) /\ ResultInv
        BY <2>1 DEF SortInv
    <2>3. {stack[i].key : i \in 1..Len(stack)} = visiting
        BY <2>2 DEF StackOf
    <2>4. Len(stack) = Cardinality(visiting)
        <3> DEFINE f == [i \in 1..Len(stack) |-> stack[i].key]
        <3>1. Len(stack) \in Nat
            BY <2>2 DEF StackOf
        <3>2. f \in [1..Len(stack) -> visiting]
            BY <2>2 DEF StackOf
        <3>3. \A k \in visiting : \E i \in 1..Len(stack) : f[i] = k
            BY <2>2 DEF StackOf
        <3>4. \A i, j \in 1..Len(stack) : f[i] = f[j] => i = j
            <4>1. \A i, j \in 1..Len(stack) : i < j => f[i] # f[j]
                BY <2>2 DEF StackOf
            <4> HIDE DEF f
            <4> QED BY <3>1, <4>1
        <3> HIDE DEF f
        <3> QED BY <3>1, <3>2, <3>3, <3>4, EachOnce
    <2> QED
        BY <2>1, <2>2, <2>3, <2>4 DEF RegistryTypes, Entries, ScanInv, SortInv, ResultInv, TypeOK
<1> QED
    BY <1>1, DiscoveryStays, PTL

(* The generated module declares each schema of the document exactly once,    *)
(* and all that its interface mentions.                                       *)
THEOREM DeclaredOnce == Spec => []EachDeclaredOnce
<1>1. DiscoveryInv => EachDeclaredOnce
    <2> SUFFICES ASSUME DiscoveryInv, Generated
                 PROVE  /\ ToSet(Declarations) = doc.schemas
                        /\ Len(Declarations) = Cardinality(doc.schemas)
                        /\ Mentioned \subseteq ToSet(Declarations)
        BY DEF EachDeclaredOnce
    <2>1. /\ doc.schemas = keys /\ visited = keys /\ doc.refs \subseteq keys
        BY AllSorted
    <2>2. ResultInv
        BY DEF DiscoveryInv, SortInv
    <2>3. ToSet(result) = keys
        BY <2>1, <2>2 DEF ResultInv, ToSet
    <2>4. Len(result) = Cardinality(keys)
        <3>1. Len(result) \in Nat /\ result \in [1..Len(result) -> keys]
            BY <2>2 DEF ResultInv
        <3>2. /\ \A k \in keys : \E i \in 1..Len(result) : result[i] = k
              /\ \A i, j \in 1..Len(result) : result[i] = result[j] => i = j
            BY <2>1, <2>2 DEF ResultInv
        <3> QED BY <3>1, <3>2, EachOnce
    <2> QED BY <2>1, <2>3, <2>4 DEF Declarations, Mentioned
<1> QED
    BY <1>1, DiscoveryStays, PTL

(* A schema is declared after the ones it refers to, unless they lead back to *)
(* it: for every graph of references, whatever order the loops of topoSort    *)
(* take.                                                                      *)
THEOREM DependenciesComeFirst == Spec => []DependenciesFirst
<1>1. DiscoveryInv => DependenciesFirst
    <2> SUFFICES ASSUME DiscoveryInv, Generated, NEW t \in doc.schemas, NEW d \in Refers[t] \cap doc.schemas
                 PROVE  Before(d, t) \/ OnCycle(t, d)
        BY DEF DependenciesFirst
    <2>1. t \in visited /\ d \in Refers[t] \cap keys
        BY AllSorted
    <2> QED BY <2>1 DEF DiscoveryInv, SortInv, ResultInv
<1> QED
    BY <1>1, DiscoveryStays, PTL
=============================================================================
