--------------------------- MODULE SettingsProofs ---------------------------
(***************************************************************************)
(* Proofs about Settings, for any programs, any keys of .env and any       *)
(* number of commands and faults: SettingsInv is inductive, and from it    *)
(* come what a refused insert means and what a boot finds.                 *)
(***************************************************************************)
EXTENDS Settings, SequenceTheorems, TLAPS

Directions == {"up", "down"}

\* Which migrations there are, and which keys each of them has.
LEMMA MigrationFacts ==
  /\ Migrations = {"create", "populate", "limits", "regions", "remove"}
  /\ Idle \notin Migrations \X Directions /\ "none" \notin Migrations
<1>1. DOMAIN Order = 1 .. 5
  BY DEF Order
<1>2. Migrations = {Order[i] : i \in 1 .. 5}
  BY <1>1 DEF Migrations, Range
<1>3. Migrations = {Order[1], Order[2], Order[3], Order[4], Order[5]}
  BY <1>2
<1>4. QED
  BY <1>3 DEF Order, Idle

LEMMA KeyRanges ==
  /\ Range(KeysOf("create")) = {}
  /\ Range(KeysOf("populate")) = {"before", "spread", "after"}
  /\ Range(KeysOf("limits")) = {"limit", "frequency"}
  /\ Range(KeysOf("regions")) = {"regions"}
  /\ Range(KeysOf("remove")) = {"spread"}
  BY DEF KeysOf, Range

\* A migration that is before another one is a migration.
LEMMA OrderFacts ==
  /\ "remove" \in LaterThan("populate") /\ "populate" \in EarlierThan("remove")
  /\ \A m \in Migrations : \A n \in LaterThan(m) : m \in EarlierThan(n) /\ n \in Migrations
  /\ \A m \in Migrations : \A n \in EarlierThan(m) : m \in LaterThan(n)
<1>1. DOMAIN Order = 1 .. 5
  BY DEF Order
<1>2. Order[2] = "populate" /\ Order[5] = "remove"
  BY DEF Order
<1>3. "remove" \in LaterThan("populate")
  BY <1>1, <1>2 DEF LaterThan
<1>4. "populate" \in Migrations
  BY MigrationFacts
<1>5. \A m \in Migrations : \A n \in LaterThan(m) : n \in Migrations
  BY DEF LaterThan, Migrations, Range
<1>6. QED
  BY <1>3, <1>4, <1>5 DEF EarlierThan

\* A few elements of a set make a sequence over it.
LEMMA ShortSequences ==
  ASSUME NEW S
  PROVE  /\ <<>> \in Seq(S)
         /\ \A a \in S : <<a>> \in Seq(S)
         /\ \A a, b \in S : <<a, b>> \in Seq(S)
         /\ \A a, b, c \in S : <<a, b, c>> \in Seq(S)
  OBVIOUS

LEMMA ShortElements ==
  /\ DOMAIN <<>> = {}
  /\ \A a : DOMAIN <<a>> = {1} /\ Len(<<a>>) = 1 /\ <<a>>[1] = a
  /\ \A a, b : /\ DOMAIN <<a, b>> = {1, 2} /\ Len(<<a, b>>) = 2
              /\ <<a, b>>[1] = a /\ <<a, b>>[2] = b
  /\ 1 + 1 .. 1 = {} /\ 1 + 1 .. 2 = {2} /\ 2 + 1 .. 2 = {}
  OBVIOUS

\* Every key of a migration is a key, and no migration has one twice.
LEMMA KeysOfFacts ==
  ASSUME NEW m \in Migrations
  PROVE  /\ KeysOf(m) \in Seq(Keys)
         /\ \A i, j \in 1 .. Len(KeysOf(m)) : i # j => KeysOf(m)[i] # KeysOf(m)[j]
         /\ Range(KeysOf(m)) \subseteq Keys
         /\ Range(KeysOf(m)) = {KeysOf(m)[i] : i \in 1 .. Len(KeysOf(m))}
<1>1. KeysOf(m) \in Seq(Keys)
  BY ShortSequences, MigrationFacts DEF KeysOf, Keys
<1>2. \A i, j \in 1 .. Len(KeysOf(m)) : i # j => KeysOf(m)[i] # KeysOf(m)[j]
  BY MigrationFacts DEF KeysOf
<1>3. DOMAIN KeysOf(m) = 1 .. Len(KeysOf(m))
  BY <1>1, LenProperties
<1>4. QED
  BY <1>1, <1>2, <1>3, ElementOfSeq DEF Range

\* The migrations that decide each key.
LEMMA DeciderFacts ==
  /\ \A m \in Migrations, k \in Keys : m \in Deciders(k) <=> k \in Range(KeysOf(m))
  /\ \A k \in Keys : Deciders(k) \subseteq Migrations
  BY DEF Deciders, Range

LEMMA DecidersListed ==
  /\ Deciders("before") = {"populate"} /\ Deciders("after") = {"populate"}
  /\ Deciders("spread") = {"populate", "remove"}
  /\ Deciders("limit") = {"limits"} /\ Deciders("frequency") = {"limits"}
  /\ Deciders("regions") = {"regions"}
<1>1. \A k \in Keys : Deciders(k) = {m \in Migrations : k \in Range(KeysOf(m))}
  BY DEF Deciders, Range
<1>2. \A m \in Migrations : m \in {"create", "populate", "limits", "regions", "remove"}
  BY MigrationFacts
<1>3. QED
  BY <1>1, <1>2, KeyRanges, MigrationFacts DEF Keys

-----------------------------------------------------------------------------
\* The calls made for some keys.
LEMMA EachFacts ==
  ASSUME NEW op \in {"insert", "delete"}, NEW m \in Migrations
  PROVE  /\ Each(op, KeysOf(m)) \in Seq(Call)
         /\ Len(Each(op, KeysOf(m))) = Len(KeysOf(m))
         /\ \A i \in 1 .. Len(KeysOf(m)) : Each(op, KeysOf(m))[i] = <<op, KeysOf(m)[i]>>
<1> DEFINE ks == KeysOf(m)
<1>1. ks \in Seq(Keys) /\ Len(ks) \in Nat /\ DOMAIN ks = 1 .. Len(ks)
  BY KeysOfFacts, LenProperties
<1>2. \A i \in 1 .. Len(ks) : ks[i] \in Keys
  BY <1>1, ElementOfSeq
<1> HIDE DEF ks
<1>3. Each(op, ks) \in [1 .. Len(ks) -> Call]
  BY <1>1, <1>2 DEF Each, Call
<1>4. Each(op, ks) \in Seq(Call)
  BY <1>1, <1>3, SeqDef
<1>5. Len(Each(op, ks)) = Len(ks)
  BY <1>1, <1>3, <1>4, LenProperties
<1>6. QED
  BY <1>1, <1>4, <1>5 DEF Each, ks

\* Making the first call of a list leaves the others, in their order.
LEMMA TailFacts ==
  ASSUME todo \in Seq(Call), todo # <<>>, todo' = Tail(todo)
  PROVE  /\ todo' \in Seq(Call) /\ Head(todo) = todo[1] /\ Head(todo) \in Call
         /\ DOMAIN todo = 1 .. Len(todo) /\ DOMAIN todo' = 1 .. Len(todo')
         /\ Len(todo) \in Nat /\ Len(todo') \in Nat /\ Len(todo) = Len(todo') + 1
         /\ \A i \in DOMAIN todo' : todo'[i] = todo[i + 1]
<1>1. Head(todo) = todo[1] /\ Head(todo) \in Call /\ Tail(todo) \in Seq(Call)
      /\ Len(Tail(todo)) = Len(todo) - 1
      /\ \A i \in 1 .. Len(Tail(todo)) : Tail(todo)[i] = todo[i + 1]
  BY HeadTailProperties
<1>2. /\ Len(todo) \in Nat /\ DOMAIN todo = 1 .. Len(todo)
      /\ Len(todo') \in Nat /\ DOMAIN todo' = 1 .. Len(todo')
  BY <1>1, LenProperties
<1>3. QED
  BY <1>1, <1>2

\* What is ahead before a call is that call, or ahead after it.
LEMMA AheadFact ==
  ASSUME todo \in Seq(Call), todo # <<>>, todo' = Tail(todo), NEW op, NEW k
  PROVE  Ahead(op, k) <=> Head(todo) = <<op, k>> \/ Ahead(op, k)'
<1>1. Ahead(op, k) => Head(todo) = <<op, k>> \/ Ahead(op, k)'
  <2> SUFFICES ASSUME NEW i \in DOMAIN todo, todo[i] = <<op, k>>, Head(todo) # <<op, k>>
               PROVE  Ahead(op, k)'
    BY DEF Ahead
  <2>1. i - 1 \in DOMAIN todo' /\ todo'[i - 1] = todo[i]
    BY TailFacts
  <2>2. QED
    BY <2>1 DEF Ahead
<1>2. Head(todo) = <<op, k>> => Ahead(op, k)
  <2>1. 1 \in DOMAIN todo /\ Head(todo) = todo[1]
    BY TailFacts
  <2>2. QED
    BY <2>1 DEF Ahead
<1>3. Ahead(op, k)' => Ahead(op, k)
  <2> SUFFICES ASSUME NEW i \in DOMAIN todo', todo'[i] = <<op, k>>
               PROVE  Ahead(op, k)
    BY DEF Ahead
  <2>1. i + 1 \in DOMAIN todo /\ todo[i + 1] = <<op, k>>
    BY TailFacts
  <2>2. QED
    BY <2>1 DEF Ahead
<1>4. QED
  BY <1>1, <1>2, <1>3

\* A call is made once; and after the first insertion nothing is deleted.
LEMMA PreparedTail ==
  ASSUME TypeOK, Prepared, todo # <<>>, todo' = Tail(todo), UNCHANGED doing
  PROVE  /\ Prepared'
         /\ \A op, k : Head(todo) = <<op, k>> => ~Ahead(op, k)'
         /\ Head(todo)[1] = "insert" => \A k : ~Ahead("delete", k)
<1> USE DEF TypeOK
<1>1. \A i \in DOMAIN todo' : i + 1 \in DOMAIN todo /\ todo'[i] = todo[i + 1]
  BY TailFacts
<1>2. \A i \in DOMAIN todo' : todo'[i] # todo[1]
  <2>1. \A j \in 2 .. Len(todo) : todo[1] # todo[j]
    BY TailFacts DEF Prepared
  <2>2. QED
    BY <1>1, <2>1, TailFacts
<1>3. Head(todo)[1] = "insert" => \A k : ~Ahead("delete", k)
  <2> SUFFICES ASSUME Head(todo)[1] = "insert", NEW k, NEW i \in DOMAIN todo,
                      todo[i] = <<"delete", k>>
               PROVE  FALSE
    BY DEF Ahead
  <2>1. i \in 2 .. Len(todo)
    BY TailFacts
  <2>2. todo[1][1] = "insert" /\ 1 \in DOMAIN todo /\ i \in 1 + 1 .. Len(todo)
    BY <2>1, TailFacts
  <2>3. todo[i][1] = "insert"
    BY <2>2 DEF Prepared
  <2>4. QED
    BY <2>3
<1>4. Adds' = Adds
  BY DEF Adds
<1>5. ASSUME NEW i \in DOMAIN todo'
      PROVE  /\ todo'[i][1] \in {"insert", "delete"} => todo'[i][2] \in Range(KeysOf(doing'[1]))
             /\ todo'[i][1] = "insert" => Adds'
             /\ \A j \in i + 1 .. Len(todo') :
                   /\ todo'[i] # todo'[j]
                   /\ todo'[i][1] = "insert" => todo'[j][1] = "insert"
  <2>1. \A j \in i + 1 .. Len(todo') : j \in DOMAIN todo' /\ j + 1 \in (i + 1) + 1 .. Len(todo)
    BY TailFacts
  <2>2. QED
    BY <1>1, <1>4, <2>1 DEF Prepared
<1>6. ASSUME Adds', NEW k \in Range(KeysOf(doing'[1])), NEW j \in Range(KeysOf(doing'[1])),
             Ahead("delete", k)'
      PROVE  Ahead("insert", j)'
  <2>1. Ahead("delete", k)
    BY <1>6, AheadFact
  <2>2. Ahead("insert", j)
    BY <1>4, <1>6, <2>1 DEF Prepared
  <2>3. Head(todo) # <<"insert", j>>
    BY <1>3, <2>1
  <2>4. QED
    BY <2>2, <2>3, AheadFact
<1>7. Prepared'
  BY <1>5, <1>6 DEF Prepared
<1>8. QED
  BY <1>2, <1>3, <1>7, TailFacts DEF Ahead

-----------------------------------------------------------------------------
\* Before anything has run the invariant holds.
LEMMA InitInv == Init => SettingsInv
<1> SUFFICES ASSUME Init PROVE SettingsInv
  OBVIOUS
<1>1. doing = Idle /\ todo = <<>> /\ doing[1] = "none" /\ doing[2] = "none" /\ DOMAIN todo = {}
  BY DEF Init, Idle
<1>2. TypeOK
  <2>1. <<>> \in Seq(Call)
    BY EmptySeq
  <2>2. copies \in [Keys -> Nat]
    BY DEF Init
  <2>3. 0 \in 0 .. MaxCommands /\ 0 \in 0 .. MaxFaults
    BY SettingsAssumption
  <2>4. QED
    BY <2>1, <2>2, <2>3 DEF Init, TypeOK
<1>3. LedgerTrue
  BY DEF Init, LedgerTrue, Wanted
<1>4. Orderly /\ Explained /\ SpreadGone
  BY <1>1 DEF Init, Orderly, Explained, SpreadGone, Keys
<1>5. Prepared /\ Progress
  <2>1. Adds => \A k \in Range(KeysOf(doing[1])) : ~Ahead("delete", k)
    BY <1>1 DEF Ahead
  <2>2. QED
    BY <1>1, <2>1 DEF Prepared, Progress
<1>6. QED
  BY <1>2, <1>3, <1>4, <1>5 DEF SettingsInv

-----------------------------------------------------------------------------
\* The calls of a migration that begins.
LEMMA InsertsPrepared ==
  ASSUME NEW m \in Migrations, NEW d, doing' = <<m, d>>, todo' = Inserts(m), Adds'
  PROVE  /\ todo' \in Seq(Call) /\ Prepared'
         /\ \A k : ~Ahead("delete", k)'
         /\ \A k \in Range(KeysOf(m)) : Ahead("insert", k)'
<1>1. /\ todo' \in Seq(Call) /\ DOMAIN todo' = 1 .. Len(todo') /\ Len(todo') = Len(KeysOf(m))
      /\ \A i \in 1 .. Len(KeysOf(m)) : todo'[i] = <<"insert", KeysOf(m)[i]>>
  BY EachFacts, LenProperties DEF Inserts
<1>2. /\ \A i \in DOMAIN todo' : todo'[i][1] = "insert" /\ todo'[i][2] \in Range(KeysOf(m))
      /\ \A i \in DOMAIN todo' : \A j \in i + 1 .. Len(todo') :
            j \in DOMAIN todo' /\ todo'[i] # todo'[j]
  <2>1. \A i \in DOMAIN todo' : \A j \in i + 1 .. Len(todo') :
            j \in DOMAIN todo' /\ i # j
    BY <1>1, KeysOfFacts, LenProperties
  <2>2. \A i \in 1 .. Len(KeysOf(m)) : todo'[i][1] = "insert" /\ todo'[i][2] = KeysOf(m)[i]
    BY <1>1
  <2>3. \A i \in DOMAIN todo' : todo'[i][2] \in Range(KeysOf(m))
    BY <1>1, <2>2, KeysOfFacts
  <2>4. ASSUME NEW i \in DOMAIN todo', NEW j \in i + 1 .. Len(todo')
        PROVE  todo'[i] # todo'[j]
    <3>1. i \in 1 .. Len(KeysOf(m)) /\ j \in 1 .. Len(KeysOf(m)) /\ i # j
      BY <1>1, <2>1
    <3>2. KeysOf(m)[i] # KeysOf(m)[j]
      BY <3>1, KeysOfFacts
    <3>3. todo'[i][2] # todo'[j][2]
      BY <2>2, <3>1, <3>2
    <3>4. QED
      BY <3>3
  <2>5. QED
    BY <1>1, <2>1, <2>2, <2>3, <2>4
<1>3. \A k : ~Ahead("delete", k)'
  BY <1>2 DEF Ahead
<1>4. \A k \in Range(KeysOf(m)) : Ahead("insert", k)'
  BY <1>1, KeysOfFacts DEF Ahead
<1>5. QED
  BY <1>1, <1>2, <1>3, <1>4 DEF Prepared

LEMMA DeletesPrepared ==
  ASSUME NEW m \in Migrations, NEW d, doing' = <<m, d>>, todo' = Deletes(m), ~Adds'
  PROVE  /\ todo' \in Seq(Call) /\ Prepared'
         /\ \A k \in Range(KeysOf(m)) : Ahead("delete", k)'
<1>1. /\ todo' \in Seq(Call) /\ DOMAIN todo' = 1 .. Len(todo') /\ Len(todo') = Len(KeysOf(m))
      /\ \A i \in 1 .. Len(KeysOf(m)) : todo'[i] = <<"delete", KeysOf(m)[i]>>
  BY EachFacts, LenProperties DEF Deletes
<1>2. /\ \A i \in DOMAIN todo' : todo'[i][1] = "delete" /\ todo'[i][2] \in Range(KeysOf(m))
      /\ \A i \in DOMAIN todo' : \A j \in i + 1 .. Len(todo') :
            j \in DOMAIN todo' /\ todo'[i] # todo'[j]
  <2>1. \A i \in DOMAIN todo' : \A j \in i + 1 .. Len(todo') :
            j \in DOMAIN todo' /\ i # j
    BY <1>1, KeysOfFacts, LenProperties
  <2>2. \A i \in 1 .. Len(KeysOf(m)) : todo'[i][1] = "delete" /\ todo'[i][2] = KeysOf(m)[i]
    BY <1>1
  <2>3. \A i \in DOMAIN todo' : todo'[i][2] \in Range(KeysOf(m))
    BY <1>1, <2>2, KeysOfFacts
  <2>4. ASSUME NEW i \in DOMAIN todo', NEW j \in i + 1 .. Len(todo')
        PROVE  todo'[i] # todo'[j]
    <3>1. i \in 1 .. Len(KeysOf(m)) /\ j \in 1 .. Len(KeysOf(m)) /\ i # j
      BY <1>1, <2>1
    <3>2. KeysOf(m)[i] # KeysOf(m)[j]
      BY <3>1, KeysOfFacts
    <3>3. todo'[i][2] # todo'[j][2]
      BY <2>2, <3>1, <3>2
    <3>4. QED
      BY <3>3
  <2>5. QED
    BY <1>1, <2>1, <2>2, <2>3, <2>4
<1>3. \A k \in Range(KeysOf(m)) : Ahead("delete", k)'
  BY <1>1, KeysOfFacts DEF Ahead
<1>4. QED
  BY <1>1, <1>2, <1>3 DEF Prepared

LEMMA LimitsPrepared ==
  ASSUME doing' = <<"limits", "up">>, todo' = Deletes("limits") \o Inserts("limits")
  PROVE  /\ todo' \in Seq(Call) /\ Prepared'
         /\ \A k \in Range(KeysOf("limits")) : Ahead("delete", k)' /\ Ahead("insert", k)'
<1> DEFINE ks == KeysOf("limits")
           c == Deletes("limits") \o Inserts("limits")
<1>0. "limits" \in Migrations
  BY MigrationFacts
<1>1. ks = <<"limit", "frequency">> /\ Len(ks) = 2
  BY DEF KeysOf
<1>2. /\ c \in Seq(Call) /\ Len(c) = 4
      /\ c[1] = <<"delete", "limit">> /\ c[2] = <<"delete", "frequency">>
      /\ c[3] = <<"insert", "limit">> /\ c[4] = <<"insert", "frequency">>
  <2>1. /\ Deletes("limits") \in Seq(Call) /\ Len(Deletes("limits")) = 2
        /\ Deletes("limits")[1] = <<"delete", "limit">>
        /\ Deletes("limits")[2] = <<"delete", "frequency">>
    BY <1>0, <1>1, EachFacts DEF Deletes
  <2>2. /\ Inserts("limits") \in Seq(Call) /\ Len(Inserts("limits")) = 2
        /\ Inserts("limits")[1] = <<"insert", "limit">>
        /\ Inserts("limits")[2] = <<"insert", "frequency">>
    BY <1>0, <1>1, EachFacts DEF Inserts
  <2> DEFINE ds == Deletes("limits")
             is == Inserts("limits")
  <2>3. /\ c \in Seq(Call)
        /\ Len(c) = 2 + 2
        /\ \A i \in 1 .. 2 + 2 : c[i] = IF i <= 2 THEN ds[i] ELSE is[i - 2]
    <3>1. ds \in Seq(Call) /\ is \in Seq(Call) /\ Len(ds) = 2 /\ Len(is) = 2 /\ c = ds \o is
      BY <2>1, <2>2
    <3> HIDE DEF ds, is, c
    <3>2. /\ ds \o is \in Seq(Call)
          /\ Len(ds \o is) = Len(ds) + Len(is)
          /\ \A i \in 1 .. Len(ds) + Len(is) :
                (ds \o is)[i] = IF i <= Len(ds) THEN ds[i] ELSE is[i - Len(ds)]
      BY <3>1, ConcatProperties
    <3>3. QED
      BY <3>1, <3>2
  <2> HIDE DEF c
  <2>4. QED
    BY <2>1, <2>2, <2>3
<1>3. todo' = c
  OBVIOUS
<1> HIDE DEF c
<1>4. DOMAIN todo' = 1 .. 4 /\ todo' \in Seq(Call)
  BY <1>2, <1>3, LenProperties
<1>5. Range(KeysOf(doing'[1])) = {"limit", "frequency"} /\ Adds'
  BY KeyRanges DEF Adds
<1>6. \A k \in {"limit", "frequency"} : Ahead("delete", k)' /\ Ahead("insert", k)'
  <2>1. 1 \in 1 .. 4 /\ 2 \in 1 .. 4 /\ 3 \in 1 .. 4 /\ 4 \in 1 .. 4
    OBVIOUS
  <2>2. \A op, k : \A i \in 1 .. 4 : todo'[i] = <<op, k>> => Ahead(op, k)'
    BY <1>4 DEF Ahead
  <2>3. QED
    BY <1>2, <1>3, <2>1, <2>2
<1>7. Prepared'
  <2>1. \A i \in 1 .. 4 : i = 1 \/ i = 2 \/ i = 3 \/ i = 4
    OBVIOUS
  <2>2. \A i \in 1 .. 4 : \A j \in i + 1 .. 4 :
           /\ todo'[i] # todo'[j]
           /\ todo'[i][1] = "insert" => todo'[j][1] = "insert"
    <3>1. \A i \in 1 .. 4 : \A j \in i + 1 .. 4 : j \in 1 .. 4 /\ i < j
      OBVIOUS
    <3>2. \A i, j \in 1 .. 4 : i < j =>
             /\ todo'[i] # todo'[j]
             /\ todo'[i][1] = "insert" => todo'[j][1] = "insert"
      <4> SUFFICES ASSUME NEW i \in 1 .. 4, NEW j \in 1 .. 4, i < j
                   PROVE  /\ todo'[i] # todo'[j]
                          /\ todo'[i][1] = "insert" => todo'[j][1] = "insert"
        OBVIOUS
      <4>1. /\ c[1][2] = "limit" /\ c[2][2] = "frequency"
            /\ c[3][2] = "limit" /\ c[4][2] = "frequency"
        BY <1>2
      <4>2. todo'[1] # todo'[2] /\ todo'[3] # todo'[4]
        <5>1. c[1][2] # c[2][2] /\ c[3][2] # c[4][2]
          BY <4>1
        <5>2. c[1] # c[2] /\ c[3] # c[4]
          BY <5>1
        <5>3. QED
          BY <5>2, <1>3
      <4>3. /\ todo'[1][1] = "delete" /\ todo'[2][1] = "delete"
            /\ todo'[3][1] = "insert" /\ todo'[4][1] = "insert"
        <5>1. c[1][1] = "delete" /\ c[2][1] = "delete"
          BY <1>2
        <5>2. c[3][1] = "insert" /\ c[4][1] = "insert"
          BY <1>2
        <5>3. QED
          BY <5>1, <5>2, <1>3
      <4>4. CASE i = 1
        <5>1. j = 2 \/ j = 3 \/ j = 4
          BY <2>1, <4>4
        <5>2. QED
          BY <4>2, <4>3, <4>4, <5>1
      <4>5. CASE i = 2
        <5>1. j = 3 \/ j = 4
          BY <2>1, <4>5
        <5>2. QED
          BY <4>3, <4>5, <5>1
      <4>6. CASE i = 3
        <5>1. j = 4
          BY <2>1, <4>6
        <5>2. QED
          BY <4>2, <4>3, <4>6, <5>1
      <4>7. i # 4
        OBVIOUS
      <4>8. QED
        BY <2>1, <4>4, <4>5, <4>6, <4>7
    <3>3. QED
      BY <3>1, <3>2
  <2>3. \A i \in 1 .. 4 : todo'[i][2] \in {"limit", "frequency"}
    <3>1. /\ c[1][2] = "limit" /\ c[2][2] = "frequency"
          /\ c[3][2] = "limit" /\ c[4][2] = "frequency"
      BY <1>2
    <3>2. QED
      BY <1>3, <2>1, <3>1
  <2>4. QED
    BY <1>2, <1>3, <1>4, <1>5, <1>6, <2>2, <2>3 DEF Prepared
<1>8. QED
  BY <1>3, <1>4, <1>6, <1>7, KeyRanges

\* The create migration touches no key.
LEMMA CreatePrepared ==
  ASSUME NEW d, doing' = <<"create", d>>,
         todo' \in {<<>>, <<<<"create", "">>, <<"index", "">>>>, <<<<"drop", "">>>>}
  PROVE  todo' \in Seq(Call) /\ Prepared' /\ Progress'
<1>1. Range(KeysOf(doing'[1])) = {} /\ ~Adds'
  BY KeyRanges DEF Adds
<1>2. \A op \in {"create", "index", "drop"} : <<op, "">> \in Call
  BY DEF Call
<1>3. todo' \in Seq(Call)
  BY <1>2, ShortSequences
<1>4. /\ \A i \in DOMAIN todo' : todo'[i][1] \in {"create", "index", "drop"}
      /\ \A i \in DOMAIN todo' : \A j \in i + 1 .. Len(todo') : todo'[i] # todo'[j]
  <2>1. PICK x, y, z \in Call :
           /\ x[1] = "create" /\ y[1] = "index" /\ z[1] = "drop"
           /\ todo' \in {<<>>, <<x, y>>, <<z>>}
    BY <1>2
  <2>2. x # y
    BY <2>1
  <2>3. CASE todo' = <<>>
    BY <2>3, ShortElements
  <2>4. CASE todo' = <<z>>
    <3>1. DOMAIN todo' = {1} /\ Len(todo') = 1 /\ todo'[1] = z
      BY <2>4, ShortElements
    <3>2. QED
      BY <2>1, <3>1, ShortElements
  <2>5. CASE todo' = <<x, y>>
    <3>1. DOMAIN todo' = {1, 2} /\ Len(todo') = 2 /\ todo'[1] = x /\ todo'[2] = y
      BY <2>5, ShortElements
    <3>2. QED
      BY <2>1, <2>2, <3>1, ShortElements
  <2>6. QED
    BY <2>1, <2>3, <2>4, <2>5
<1>5. QED
  BY <1>1, <1>3, <1>4 DEF Prepared, Progress

-----------------------------------------------------------------------------
\* What a command leaves of the invariant, whatever the calls it prepares.
LEMMA CommandInv ==
  ASSUME SettingsInv, NEW m \in Migrations, NEW d \in Directions, NEW calls,
         Command(m, d, calls), d = "up" <=> m \notin ledger,
         disorder' \in BOOLEAN, disorder => disorder',
         ~disorder' => /\ LaterThan(m) \cap ledger = {}
                       /\ d = "up" => EarlierThan(m) \subseteq ledger
  PROVE  /\ doing = Idle /\ doing' = <<m, d>> /\ doing'[1] = m /\ doing'[2] = d
         /\ todo' = calls /\ UNCHANGED <<database, ledger, cut>>
         /\ calls \in Seq(Call) => TypeOK'
         /\ LedgerTrue' /\ Orderly' /\ Explained' /\ SpreadGone'
<1> USE DEF SettingsInv
<1>1. /\ doing = Idle /\ doing' = <<m, d>> /\ doing'[1] = m /\ doing'[2] = d
      /\ doing[1] = "none" /\ doing[2] = "none" /\ doing' # Idle
      /\ todo' = calls /\ UNCHANGED <<database, ledger, cut>>
      /\ undone' \subseteq undone /\ undone \subseteq undone' \cup {m}
      /\ m \in undone' => d = "down"
  BY MigrationFacts DEF Command, Idle, Directions
<1>2. UNCHANGED copies
  BY <1>1 DEF database
<1>3. calls \in Seq(Call) => TypeOK'
  <2>1. commands' \in 0 .. MaxCommands
    BY SettingsAssumption DEF Command, TypeOK
  <2>2. UNCHANGED <<present, unique, copies, ledger, up, env, firm, faults, cut>>
    BY DEF Command, database, programs
  <2>3. QED
    BY <1>1, <2>1, <2>2 DEF TypeOK, Directions
<1>4. LedgerTrue'
  <2> SUFFICES ASSUME ~disorder', NEW k \in Keys, Deciders(k) \cap Unsettled' = {}
               PROVE  copies[k] > 0 <=> Wanted(k)
    BY <1>1, <1>2 DEF LedgerTrue, Wanted
  <2>1. Unsettled \subseteq Unsettled' \cup {"none"}
    BY <1>1 DEF Unsettled
  <2>2. Deciders(k) \cap Unsettled = {}
    BY <2>1, DeciderFacts, MigrationFacts
  <2>3. QED
    BY <2>2 DEF LedgerTrue
<1>5. Orderly'
  BY <1>1 DEF Orderly
<1>6. Explained'
  <2>1. undone \subseteq ledger \cup cut
    BY <1>1, MigrationFacts DEF Explained, TypeOK
  <2>2. QED
    BY <1>1, <2>1 DEF Explained, Directions
<1>7. SpreadGone'
  BY <1>1, <1>2 DEF SpreadGone, Explained
<1>8. QED
  BY <1>1, <1>3, <1>4, <1>5, <1>6, <1>7

\* What is known of the keys of a migration that may begin.
LEMMA FreshKeys ==
  ASSUME SettingsInv, doing = Idle, ~disorder
  PROVE  /\ \A m \in {"populate", "limits", "regions"} : \A k \in Range(KeysOf(m)) :
               m \notin ledger /\ m \notin cut => copies[k] = 0
         /\ "remove" \in ledger \ undone => copies["spread"] = 0
<1> USE DEF SettingsInv
<1>1. doing[1] = "none"
  BY DEF Idle
<1>2. \A m \in Migrations : m \notin ledger /\ m \notin cut => m \notin Unsettled
  BY <1>1, MigrationFacts DEF Explained, Unsettled
<1>3. \A k \in Keys : copies[k] \in Nat
  BY DEF TypeOK
<1>4. \A k \in Keys : \A m \in Migrations :
         Deciders(k) = {m} /\ m \notin ledger /\ m \notin cut => copies[k] = 0
  BY <1>2, <1>3 DEF LedgerTrue, Wanted
<1>5. "populate" \notin ledger \cup cut => copies["spread"] = 0
  BY <1>1 DEF SpreadGone
<1>6. "remove" \in ledger \ undone => copies["spread"] = 0
  BY <1>1 DEF SpreadGone
<1>7. QED
  BY <1>4, <1>5, <1>6, DecidersListed, KeyRanges, MigrationFacts DEF Keys

\* A migration may begin.
LEMMA UpInv == ASSUME SettingsInv, NEW m \in Migrations, Up(m) PROVE SettingsInv'
<1>1. /\ Command(m, "up", UpCalls(m)) /\ m \notin ledger
      /\ disorder' \in BOOLEAN /\ (disorder => disorder')
      /\ ~disorder' => LaterThan(m) \cap ledger = {} /\ EarlierThan(m) \subseteq ledger
  BY DEF Up, SettingsInv, TypeOK
<1>2. /\ doing = Idle /\ doing' = <<m, "up">> /\ doing'[1] = m /\ doing'[2] = "up"
      /\ todo' = UpCalls(m) /\ UNCHANGED <<database, ledger, cut>>
      /\ UpCalls(m) \in Seq(Call) => TypeOK'
      /\ LedgerTrue' /\ Orderly' /\ Explained' /\ SpreadGone'
  BY <1>1, CommandInv DEF Directions
<1>3. todo' \in Seq(Call) /\ Prepared' /\ Progress'
  <2>1. CASE m = "create"
    <3>1. todo' \in {<<>>, <<<<"create", "">>, <<"index", "">>>>}
      BY <1>2, <2>1 DEF UpCalls, CreateCalls
    <3>2. QED
      BY <1>2, <2>1, <3>1, CreatePrepared
  <2>2. CASE m = "limits"
    <3>1. todo' = Deletes("limits") \o Inserts("limits")
      BY <1>2, <2>2 DEF UpCalls
    <3>2. /\ todo' \in Seq(Call) /\ Prepared'
          /\ \A k \in Range(KeysOf(m)) : Ahead("delete", k)' /\ Ahead("insert", k)'
      BY <1>2, <2>2, <3>1, LimitsPrepared
    <3>3. QED
      BY <1>2, <3>2 DEF Progress
  <2>3. CASE m = "remove"
    <3>1. todo' = Deletes(m) /\ ~Adds'
      BY <1>2, <2>3 DEF UpCalls, Adds
    <3>2. QED
      BY <1>2, <3>1, DeletesPrepared DEF Progress
  <2>4. CASE m \in {"populate", "regions"}
    <3>1. todo' = Inserts(m) /\ Adds'
      BY <1>2, <2>4 DEF UpCalls, Adds
    <3>2. todo' \in Seq(Call) /\ Prepared' /\ \A k \in Range(KeysOf(m)) : Ahead("insert", k)'
      BY <1>2, <3>1, InsertsPrepared
    <3>3. Repeatable' => \A k \in Range(KeysOf(m)) : copies[k] = 0
      BY <1>1, <1>2, <2>4, FreshKeys DEF Repeatable
    <3>4. copies' = copies
      BY <1>2 DEF database
    <3>5. QED
      BY <1>2, <3>1, <3>2, <3>3, <3>4 DEF Progress
  <2>5. QED
    BY <2>1, <2>2, <2>3, <2>4, MigrationFacts
<1>4. QED
  BY <1>2, <1>3 DEF SettingsInv

\* A noted migration may be rolled back.
LEMMA DownInv == ASSUME SettingsInv, NEW m \in Migrations, Down(m) PROVE SettingsInv'
<1>1. /\ Command(m, "down", DownCalls(m)) /\ m \in ledger
      /\ disorder' \in BOOLEAN /\ (disorder => disorder')
      /\ ~disorder' => LaterThan(m) \cap ledger = {}
  BY DEF Down, SettingsInv, TypeOK
<1>2. /\ doing = Idle /\ doing' = <<m, "down">> /\ doing'[1] = m /\ doing'[2] = "down"
      /\ todo' = DownCalls(m) /\ UNCHANGED <<database, ledger, cut>>
      /\ DownCalls(m) \in Seq(Call) => TypeOK'
      /\ LedgerTrue' /\ Orderly' /\ Explained' /\ SpreadGone'
  BY <1>1, CommandInv DEF Directions
<1>3. todo' \in Seq(Call) /\ Prepared' /\ Progress'
  <2>1. CASE m = "create"
    <3>1. todo' = <<<<"drop", "">>>>
      BY <1>2, <2>1 DEF DownCalls
    <3>2. QED
      BY <1>2, <2>1, <3>1, CreatePrepared
  <2>2. CASE m = "remove"
    <3>1. todo' = Inserts(m) /\ Adds'
      BY <1>2, <2>2 DEF DownCalls, Adds
    <3>2. todo' \in Seq(Call) /\ Prepared' /\ \A k \in Range(KeysOf(m)) : Ahead("insert", k)'
      BY <1>2, <3>1, InsertsPrepared
    <3>3. undone' = undone /\ copies' = copies
      BY <1>1, <1>2 DEF Command, database
    <3>4. Repeatable' => \A k \in Range(KeysOf(m)) : copies[k] = 0
      BY <1>1, <1>2, <2>2, <3>3, FreshKeys, KeyRanges DEF Repeatable
    <3>5. QED
      BY <1>2, <3>1, <3>2, <3>3, <3>4 DEF Progress
  <2>3. CASE m \notin {"create", "remove"}
    <3>1. todo' = Deletes(m) /\ ~Adds'
      BY <1>2, <2>3 DEF DownCalls, Adds
    <3>2. QED
      BY <1>2, <3>1, DeletesPrepared DEF Progress
  <2>4. QED
    BY <2>1, <2>2, <2>3
<1>4. QED
  BY <1>2, <1>3 DEF SettingsInv

-----------------------------------------------------------------------------
\* A migration that has calls to make is at work.
LEMMA AtWork ==
  ASSUME SettingsInv
  PROVE  /\ todo # <<>> => doing # Idle
         /\ doing # Idle => /\ doing = <<doing[1], doing[2]>>
                            /\ doing[1] \in Migrations /\ doing[2] \in Directions
                            /\ doing[2] = "up" <=> doing[1] \notin ledger
         /\ doing = Idle => doing[1] = "none" /\ doing[2] = "none"
  BY DEF SettingsInv, TypeOK, Explained, Directions, Idle

LEMMA PairFact == ASSUME NEW A, NEW B, NEW c \in A \X B PROVE c = <<c[1], c[2]>>
  OBVIOUS

LEMMA CallIsPair == ASSUME NEW c \in Call PROVE c = <<c[1], c[2]>>
<1>1. PICK A, B : Call = A \X B
  BY DEF Call
<1>2. QED
  BY <1>1, PairFact

\* The call to be made next.
LEMMA HeadFacts ==
  ASSUME TypeOK, Prepared, todo # <<>>
  PROVE  /\ Head(todo) \in Call /\ Head(todo) = <<Head(todo)[1], Head(todo)[2]>>
         /\ Ahead(Head(todo)[1], Head(todo)[2])
         /\ Head(todo)[1] \in {"insert", "delete"} =>
               Head(todo)[2] \in Range(KeysOf(doing[1]))
         /\ Head(todo)[1] = "insert" => Adds /\ \A k : ~Ahead("delete", k)
<1>1. /\ Head(todo) \in Call /\ todo \in Seq(Call) /\ DOMAIN todo = 1 .. Len(todo)
      /\ Len(todo) \in Nat /\ Len(Tail(todo)) = Len(todo) - 1 /\ Len(Tail(todo)) \in Nat
  BY HeadTailProperties, LenProperties DEF TypeOK
<1>2. 1 \in DOMAIN todo /\ Head(todo) = todo[1]
  BY <1>1
<1>3. Head(todo) = <<Head(todo)[1], Head(todo)[2]>>
  BY <1>1, CallIsPair
<1>4. Ahead(Head(todo)[1], Head(todo)[2])
  BY <1>2, <1>3 DEF Ahead
<1>5. Head(todo)[1] \in {"insert", "delete"} => Head(todo)[2] \in Range(KeysOf(doing[1]))
  BY <1>2 DEF Prepared
<1>6. Head(todo)[1] = "insert" => Adds /\ \A k : ~Ahead("delete", k)
  <2> SUFFICES ASSUME Head(todo)[1] = "insert" PROVE Adds /\ \A k : ~Ahead("delete", k)
    OBVIOUS
  <2>1. \A j \in 1 + 1 .. Len(todo) : todo[j][1] = "insert"
    BY <1>2 DEF Prepared
  <2>2. \A j \in DOMAIN todo : j = 1 \/ j \in 1 + 1 .. Len(todo)
    BY <1>1
  <2>3. \A j \in DOMAIN todo : todo[j][1] = "insert"
    BY <1>2, <2>1, <2>2
  <2>4. Adds
    BY <1>2 DEF Prepared
  <2>5. QED
    BY <2>3, <2>4 DEF Ahead
<1>7. QED
  BY <1>1, <1>3, <1>4, <1>5, <1>6

\* What a call that is made leaves of the invariant, whatever it does to the keys.
LEMMA CallInv ==
  ASSUME SettingsInv, todo # <<>>, CallDone, undone' = undone,
         present' \in BOOLEAN, unique' \in BOOLEAN, copies' \in [Keys -> Nat]
  PROVE  /\ TypeOK' /\ Orderly' /\ Explained' /\ Prepared' /\ (Adds' = Adds)
         /\ UNCHANGED <<ledger, doing, cut, disorder>> /\ todo' = Tail(todo)
<1> USE DEF SettingsInv
<1>1. UNCHANGED <<ledger, doing, cut, disorder, undone>> /\ todo' = Tail(todo)
  BY DEF CallDone
<1>2. todo' \in Seq(Call) /\ doing # Idle
  BY <1>1, TailFacts, AtWork DEF TypeOK
<1>3. UNCHANGED <<up, env, firm, commands, faults>>
  BY DEF CallDone, programs
<1>4. TypeOK'
  BY <1>1, <1>2, <1>3 DEF TypeOK
<1>5. Orderly' /\ Explained'
  BY <1>1 DEF Orderly, Explained
<1>6. Prepared' /\ Adds' = Adds
  BY <1>1, PreparedTail DEF Adds
<1>7. QED
  BY <1>1, <1>4, <1>5, <1>6

\* Making the collection or its index.
LEMMA CreateInv == ASSUME SettingsInv, Create \/ Index PROVE SettingsInv'
<1>1. /\ todo # <<>> /\ Head(todo)[1] \in {"create", "index"} /\ CallDone
      /\ undone' = undone /\ copies' = copies /\ present' \in BOOLEAN /\ unique' \in BOOLEAN
  BY DEF Create, Index, Calling, SettingsInv, TypeOK
<1>2. /\ TypeOK' /\ Orderly' /\ Explained' /\ Prepared' /\ (Adds' = Adds)
      /\ UNCHANGED <<ledger, doing, cut, disorder>> /\ todo' = Tail(todo)
  BY <1>1, CallInv DEF SettingsInv, TypeOK
<1>3. \A op \in {"insert", "delete"} : \A k : Ahead(op, k)' <=> Ahead(op, k)
  BY <1>1, <1>2, AheadFact DEF SettingsInv, TypeOK
<1>4. Progress'
  BY <1>1, <1>2, <1>3 DEF SettingsInv, Progress, Undisturbed, Repeatable
<1>5. LedgerTrue' /\ SpreadGone'
  BY <1>1, <1>2 DEF SettingsInv, LedgerTrue, SpreadGone, Unsettled, Wanted
<1>6. QED
  BY <1>2, <1>4, <1>5 DEF SettingsInv

\* A call that changes one key of the migration at work is no one else's business.
LEMMA OwnKey ==
  ASSUME SettingsInv, doing # Idle, NEW k \in Range(KeysOf(doing[1])),
         \A j \in Keys \ {k} : copies'[j] = copies[j],
         UNCHANGED <<ledger, doing, cut, undone, disorder>>
  PROVE  LedgerTrue' /\ k \in Keys
<1>1. doing[1] \in Migrations /\ k \in Keys
  BY AtWork, KeysOfFacts
<1>2. doing[1] \in Deciders(k) \cap Unsettled'
  BY <1>1, DeciderFacts DEF Unsettled
<1>3. QED
  BY <1>1, <1>2 DEF SettingsInv, LedgerTrue, Unsettled, Wanted

\* Inserting a setting.
LEMMA InsertInv == ASSUME SettingsInv, Insert PROVE SettingsInv'
<1> DEFINE k == Head(todo)[2]
           m == doing[1]
<1>1. /\ todo # <<>> /\ Head(todo)[1] = "insert" /\ CallDone /\ undone' = undone
      /\ copies' = [copies EXCEPT ![k] = @ + 1] /\ present' \in BOOLEAN /\ unique' \in BOOLEAN
  BY DEF Insert, Calling, SettingsInv, TypeOK
<1>2. /\ Head(todo) = <<"insert", k>> /\ k \in Range(KeysOf(m)) /\ Adds
      /\ \A j : ~Ahead("delete", j)
  BY <1>1, HeadFacts DEF SettingsInv
<1>3. doing # Idle /\ m \in Migrations /\ k \in Keys
  BY <1>1, <1>2, AtWork, KeysOfFacts
<1> HIDE DEF k, m
<1>4. /\ copies' \in [Keys -> Nat] /\ copies'[k] > 0
      /\ \A j \in Keys \ {k} : copies'[j] = copies[j]
  BY <1>1, <1>3 DEF SettingsInv, TypeOK
<1>5. /\ TypeOK' /\ Orderly' /\ Explained' /\ Prepared' /\ (Adds' = Adds)
      /\ UNCHANGED <<ledger, doing, cut, disorder>> /\ todo' = Tail(todo)
  BY <1>1, <1>4, CallInv
<1>6. LedgerTrue'
  BY <1>1, <1>2, <1>3, <1>4, <1>5, OwnKey DEF m
<1>7. Progress'
  <2> SUFFICES ASSUME NEW j \in Range(KeysOf(m))
               PROVE  /\ Undisturbed' /\ ~Ahead("insert", j)' => copies'[j] > 0
                      /\ Repeatable' /\ Ahead("insert", j)' /\ ~Ahead("delete", j)'
                            => copies'[j] = 0
    BY <1>2, <1>5 DEF Progress, m
  <2>1. todo \in Seq(Call)
    BY DEF SettingsInv, TypeOK
  <2>2. CASE j = k
    <3>1. /\ TypeOK /\ Prepared /\ todo # <<>> /\ todo' = Tail(todo) /\ doing' = doing
          /\ Head(todo) = <<"insert", j>> /\ copies'[j] > 0
      BY <1>1, <1>2, <1>4, <1>5, <2>2 DEF SettingsInv
    <3>2. ~Ahead("insert", j)'
      BY <3>1, PreparedTail
    <3>3. QED
      BY <3>1, <3>2
  <2>3. CASE j # k
    <3>1. j \in Keys /\ copies'[j] = copies[j]
      BY <1>3, <1>4, <2>3, KeysOfFacts
    <3>2. Ahead("insert", j)' <=> Ahead("insert", j)
      BY <1>1, <1>2, <1>5, <2>1, <2>3, AheadFact
    <3>3. (Undisturbed' <=> Undisturbed) /\ (Repeatable' <=> Repeatable)
      BY <1>1, <1>5 DEF Undisturbed, Repeatable
    <3>4. QED
      BY <1>2, <1>3, <3>1, <3>2, <3>3 DEF SettingsInv, Progress, m
  <2>4. QED
    BY <2>2, <2>3
<1>8. SpreadGone'
  <2>1. CASE k # "spread"
    BY <1>1, <1>4, <1>5, <2>1 DEF SettingsInv, SpreadGone, Keys
  <2>2. CASE k = "spread"
    <3>1. m \in {"populate", "remove"}
      BY <1>2, <1>3, <2>2, KeyRanges, MigrationFacts
    <3>2. CASE m = "populate" /\ ~disorder
      <4>1. doing[2] = "up"
        BY <1>2, <3>2 DEF Adds, m
      <4>2. "remove" \notin ledger
        BY <1>3, <3>2, OrderFacts DEF SettingsInv, Orderly, m
      <4>3. QED
        BY <1>5, <3>2, <4>2 DEF SpreadGone, m
    <3>3. CASE m = "remove" /\ ~disorder
      <4>1. "remove" \in ledger
        BY <1>2, <1>3, <3>3, AtWork DEF Adds, m
      <4>2. "populate" \in ledger
        BY <3>3, <4>1, OrderFacts DEF SettingsInv, Orderly
      <4>3. QED
        BY <1>5, <3>3, <4>2 DEF SpreadGone, m
    <3>4. QED
      BY <1>5, <3>1, <3>2, <3>3 DEF SpreadGone
  <2>3. QED
    BY <2>1, <2>2
<1>9. QED
  BY <1>5, <1>6, <1>7, <1>8 DEF SettingsInv

\* Deleting one.
LEMMA DeleteInv == ASSUME SettingsInv, Delete PROVE SettingsInv'
<1> DEFINE k == Head(todo)[2]
           m == doing[1]
<1>1. /\ todo # <<>> /\ Head(todo)[1] = "delete" /\ CallDone /\ undone' = undone
      /\ copies' = [copies EXCEPT ![k] = 0] /\ present' \in BOOLEAN /\ unique' \in BOOLEAN
  BY DEF Delete, Calling, SettingsInv, TypeOK
<1>2. /\ Head(todo) = <<"delete", k>> /\ k \in Range(KeysOf(m)) /\ Ahead("delete", k)
  BY <1>1, HeadFacts DEF SettingsInv
<1>3. doing # Idle /\ m \in Migrations /\ k \in Keys
  BY <1>1, <1>2, AtWork, KeysOfFacts
<1> HIDE DEF k, m
<1>4. /\ copies' \in [Keys -> Nat] /\ copies'[k] = 0
      /\ \A j \in Keys \ {k} : copies'[j] = copies[j]
  BY <1>1, <1>3 DEF SettingsInv, TypeOK
<1>5. /\ TypeOK' /\ Orderly' /\ Explained' /\ Prepared' /\ (Adds' = Adds)
      /\ UNCHANGED <<ledger, doing, cut, disorder>> /\ todo' = Tail(todo)
  BY <1>1, <1>4, CallInv
<1>6. LedgerTrue'
  BY <1>1, <1>2, <1>3, <1>4, <1>5, OwnKey DEF m
<1>7. Progress'
  <2> SUFFICES ASSUME NEW j \in Range(KeysOf(m))
               PROVE  IF Adds
                      THEN /\ Undisturbed' /\ ~Ahead("insert", j)' => copies'[j] > 0
                           /\ Repeatable' /\ Ahead("insert", j)' /\ ~Ahead("delete", j)'
                                 => copies'[j] = 0
                      ELSE ~Ahead("delete", j)' => copies'[j] = 0
    BY <1>5 DEF Progress, m
  <2>1. todo \in Seq(Call)
    BY DEF SettingsInv, TypeOK
  <2>2. \A i : Ahead("insert", i)' <=> Ahead("insert", i)
    BY <1>1, <1>2, <1>5, <2>1, AheadFact
  <2>3. CASE j = k
    <3>1. Adds => Ahead("insert", k)
      BY <1>2 DEF SettingsInv, Prepared, m
    <3>2. QED
      BY <1>4, <2>2, <2>3, <3>1
  <2>4. CASE j # k
    <3>1. j \in Keys /\ copies'[j] = copies[j]
      BY <1>3, <1>4, <2>4, KeysOfFacts
    <3>2. Ahead("delete", j)' <=> Ahead("delete", j)
      BY <1>1, <1>2, <1>5, <2>1, <2>4, AheadFact
    <3>3. (Undisturbed' <=> Undisturbed) /\ (Repeatable' <=> Repeatable)
      BY <1>1, <1>5 DEF Undisturbed, Repeatable
    <3>4. QED
      BY <1>3, <2>2, <3>1, <3>2, <3>3 DEF SettingsInv, Progress, m
  <2>5. QED
    BY <2>3, <2>4
<1>8. SpreadGone'
  BY <1>1, <1>4, <1>5 DEF SettingsInv, SpreadGone, Keys
<1>9. QED
  BY <1>5, <1>6, <1>7, <1>8 DEF SettingsInv

-----------------------------------------------------------------------------
\* Whatever is left of the collection's records, their loss is on record.
LEMMA EmptiedInv ==
  ASSUME SettingsInv, Emptied, UNCHANGED <<ledger, doing, cut, disorder>>
  PROVE  /\ copies' \in [Keys -> Nat] /\ undone' \subseteq Migrations
         /\ LedgerTrue' /\ Orderly' /\ Explained' /\ Progress' /\ SpreadGone'
<1> USE DEF SettingsInv
<1>1. /\ copies' \in [Keys -> Nat] /\ \A k \in Keys : copies'[k] = 0
      /\ undone' = undone \cup ledger \cup ({doing[1]} \cap Migrations)
  BY DEF Emptied
<1>2. ledger \subseteq Migrations /\ undone' \subseteq Migrations
  BY <1>1 DEF TypeOK
<1>3. LedgerTrue'
  <2> SUFFICES ASSUME NEW k \in Keys, Deciders(k) \cap Unsettled' = {}
               PROVE  ~Wanted(k)'
    BY <1>1 DEF LedgerTrue
  <2>1. Deciders(k) \cap ledger' = {}
    BY <1>1 DEF Unsettled
  <2>2. QED
    BY <2>1 DEF Wanted
<1>4. Orderly' /\ SpreadGone'
  BY <1>1 DEF Orderly, SpreadGone, Keys
<1>5. Explained'
  BY <1>1 DEF Explained
<1>6. Progress'
  <2> SUFFICES ASSUME doing # Idle, NEW k \in Range(KeysOf(doing[1]))
               PROVE  copies'[k] = 0 /\ (Adds => ~Undisturbed')
    BY DEF Progress, Adds
  <2>1. doing[1] \in Migrations /\ k \in Keys
    BY AtWork, KeysOfFacts
  <2>2. CASE doing[1] # "remove"
    BY <1>1, <2>1, <2>2 DEF Undisturbed
  <2>3. CASE doing[1] = "remove" /\ Adds
    <3>1. "remove" \in ledger
      BY <2>3, AtWork DEF Adds
    <3>2. ~disorder => "populate" \in ledger
      BY <3>1, OrderFacts DEF Orderly
    <3>3. QED
      BY <1>1, <2>1, <2>3, <3>2 DEF Undisturbed
  <2>4. QED
    BY <1>1, <2>1, <2>2, <2>3
<1>7. QED
  BY <1>1, <1>2, <1>3, <1>4, <1>5, <1>6

\* Dropping the collection, as a migration or from the menu.
LEMMA DropInv == ASSUME SettingsInv, Drop \/ AdminEmpties PROVE SettingsInv'
<1>1. /\ Emptied /\ UNCHANGED <<ledger, doing, cut, disorder, up, env, firm, commands>>
      /\ present' \in BOOLEAN /\ unique' \in BOOLEAN /\ faults' \in 0 .. MaxFaults
      /\ todo' = todo \/ (todo # <<>> /\ Head(todo)[1] = "drop" /\ todo' = Tail(todo))
  <2>1. CASE Drop
    BY <2>1 DEF Drop, CallDone, Calling, programs, SettingsInv, TypeOK
  <2>2. CASE AdminEmpties
    <3>1. /\ Emptied /\ UNCHANGED <<ledger, doing, todo, cut, disorder, up, env, firm, commands>>
          /\ faults' = faults + 1 /\ faults < MaxFaults
          /\ present' \in BOOLEAN /\ unique' = present'
      BY <2>2 DEF AdminEmpties, programs, work
    <3>2. faults' \in 0 .. MaxFaults
      BY <3>1, SettingsAssumption DEF SettingsInv, TypeOK
    <3>3. QED
      BY <3>1, <3>2
  <2>3. QED
    BY <2>1, <2>2
<1>2. /\ copies' \in [Keys -> Nat] /\ undone' \subseteq Migrations
      /\ LedgerTrue' /\ Orderly' /\ Explained' /\ Progress' /\ SpreadGone'
  BY <1>1, EmptiedInv
<1>3. Prepared' /\ todo' \in Seq(Call) /\ (doing' = Idle => todo' = <<>>)
  <2>1. CASE todo' = todo
    BY <1>1, <2>1 DEF SettingsInv, TypeOK, Prepared, Ahead, Adds
  <2>2. CASE todo # <<>> /\ todo' = Tail(todo)
    BY <1>1, <2>2, PreparedTail, TailFacts, AtWork DEF SettingsInv, TypeOK
  <2>3. QED
    BY <1>1, <2>1, <2>2
<1>4. TypeOK'
  BY <1>1, <1>2, <1>3 DEF SettingsInv, TypeOK
<1>5. QED
  BY <1>2, <1>3, <1>4 DEF SettingsInv

\* A migration that ends with an error is remembered as pending or as touched.
LEMMA FailInv ==
  ASSUME SettingsInv, doing # Idle, Fail, faults' \in 0 .. MaxFaults
  PROVE  SettingsInv'
<1> DEFINE m == doing[1]
<1> USE DEF SettingsInv
<1>1. /\ doing' = Idle /\ todo' = <<>> /\ doing'[1] = "none" /\ doing'[2] = "none"
      /\ UNCHANGED <<present, unique, copies, ledger, up, env, firm, commands, disorder>>
  BY DEF Fail, database, programs, Idle
<1>2. m \in Migrations /\ doing[2] \in {"up", "down"} /\ (doing[2] = "up" <=> m \notin ledger)
  BY AtWork DEF Directions
<1>3. IF m \notin ledger THEN cut' = cut \cup {m} /\ undone' = undone
                         ELSE undone' = undone \cup {m} /\ cut' = cut
  BY <1>2 DEF Fail
<1> HIDE DEF m
<1>4. TypeOK'
  <2>1. <<>> \in Seq(Call)
    BY EmptySeq
  <2>2. QED
    BY <1>1, <1>2, <1>3, <2>1 DEF TypeOK
<1>5. LedgerTrue'
  <2> SUFFICES ASSUME ~disorder, NEW k \in Keys, Deciders(k) \cap Unsettled' = {}
               PROVE  copies[k] > 0 <=> Wanted(k)
    BY <1>1 DEF LedgerTrue, Wanted
  <2>1. Unsettled \subseteq Unsettled'
    BY <1>3 DEF Unsettled, m
  <2>2. QED
    BY <2>1 DEF LedgerTrue
<1>6. Orderly'
  BY <1>1 DEF Orderly
<1>7. Explained'
  BY <1>1, <1>2, <1>3 DEF Explained, m
<1>8. Prepared' /\ Progress'
  <2>1. DOMAIN todo' = {}
    BY <1>1
  <2>2. QED
    BY <1>1, <2>1 DEF Prepared, Progress, Ahead
<1>9. SpreadGone'
  BY <1>1, <1>2, <1>3 DEF SpreadGone, m
<1>10. QED
  BY <1>4, <1>5, <1>6, <1>7, <1>8, <1>9

\* The engine notes a migration whose calls have all succeeded.
LEMMA NotedInv == ASSUME SettingsInv, Noted PROVE SettingsInv'
<1> DEFINE m == doing[1]
<1> USE DEF SettingsInv
<1>1. /\ doing # Idle /\ doing' = Idle /\ doing'[1] = "none" /\ doing'[2] = "none"
      /\ todo = <<>> /\ todo' = <<>> /\ cut' = cut \ {m}
      /\ UNCHANGED <<present, unique, copies, up, env, firm, commands, faults, disorder>>
  BY DEF Noted, database, programs, Idle
<1>2. m \in Migrations /\ doing[2] \in {"up", "down"} /\ (doing[2] = "up" <=> m \notin ledger)
  BY AtWork, <1>1 DEF Directions
<1>3. IF m \notin ledger THEN ledger' = ledger \cup {m} /\ undone' = undone
                         ELSE ledger' = ledger \ {m} /\ undone' = undone \ {m}
  BY <1>2 DEF Noted
<1>4. \A op, k : ~Ahead(op, k)
  <2>1. DOMAIN todo = {}
    BY <1>1
  <2>2. QED
    BY <2>1 DEF Ahead
<1>5. /\ m \notin ledger => (Adds <=> m \notin {"create", "remove"})
      /\ m \in ledger => (Adds <=> m = "remove")
  BY <1>2 DEF Adds
<1>6. \A k \in Range(KeysOf(m)) :
         /\ Adds /\ Undisturbed => copies[k] > 0
         /\ ~Adds => copies[k] = 0
  BY <1>1, <1>4 DEF Progress
<1>7. ~disorder => /\ LaterThan(m) \cap ledger = {}
                   /\ m \notin ledger => EarlierThan(m) \subseteq ledger
                   /\ \A n \in ledger : EarlierThan(n) \subseteq ledger
  BY <1>1, <1>2 DEF Orderly
<1>8. Undisturbed <=> IF m = "remove" THEN ~disorder /\ "populate" \notin undone
                                      ELSE m \notin undone
  BY DEF Undisturbed
<1> HIDE DEF m
<1>9. TypeOK'
  <2>1. ledger' \subseteq Migrations /\ undone' \subseteq Migrations
    BY <1>2, <1>3 DEF TypeOK
  <2>2. doing' \in Migrations \X {"up", "down"} \cup {Idle} /\ todo' \in Seq(Call)
    BY <1>1 DEF TypeOK
  <2>3. cut' \subseteq Migrations /\ (doing' = Idle => todo' = <<>>)
    BY <1>1, <1>2 DEF TypeOK
  <2>4. QED
    BY <1>1, <2>1, <2>2, <2>3 DEF TypeOK
<1>10. Prepared' /\ Progress'
  <2>1. DOMAIN todo' = {}
    BY <1>1
  <2>2. QED
    BY <1>1, <2>1 DEF Prepared, Progress, Ahead
<1>11. Explained'
  BY <1>1, <1>2, <1>3 DEF Explained, m
<1>12. Orderly'
  <2>1. \A n \in ledger : n \notin LaterThan(m) => m \notin EarlierThan(n)
    BY <1>9, OrderFacts DEF TypeOK
  <2>2. QED
    BY <1>1, <1>2, <1>3, <1>7, <2>1 DEF Orderly
<1>13. SpreadGone'
  <2>1. "spread" \in Range(KeysOf("populate")) /\ "spread" \in Range(KeysOf("remove"))
    BY KeyRanges
  <2>2. CASE m = "populate"
    BY <1>1, <1>2, <1>3, <1>5, <1>6, <1>7, <2>1, <2>2, OrderFacts DEF SpreadGone, m
  <2>3. CASE m = "remove"
    BY <1>1, <1>2, <1>3, <1>5, <1>6, <2>1, <2>3 DEF SpreadGone, m
  <2>4. CASE m \notin {"populate", "remove"}
    BY <1>1, <1>2, <1>3, <2>4 DEF SpreadGone, m
  <2>5. QED
    BY <2>2, <2>3, <2>4
<1>14. LedgerTrue'
  <2> SUFFICES ASSUME ~disorder, NEW k \in Keys, Deciders(k) \cap Unsettled' = {}
               PROVE  copies[k] > 0 <=> Wanted(k)'
    BY <1>1 DEF LedgerTrue
  <2>0. copies[k] \in Nat
    BY DEF TypeOK
  <2>1. CASE m \notin Deciders(k)
    <3>1. Unsettled \subseteq Unsettled' \cup {m}
      BY <1>1, <1>2, <1>3 DEF Unsettled, m
    <3>2. Deciders(k) \cap Unsettled = {} /\ Deciders(k) \cap ledger' = Deciders(k) \cap ledger
      BY <1>3, <2>1, <3>1
    <3>3. QED
      BY <3>2 DEF LedgerTrue, Wanted
  <2>2. CASE m \in Deciders(k) /\ k # "spread"
    <3>1. k \in Range(KeysOf(m)) /\ Deciders(k) = {m} /\ m \notin {"create", "remove"}
      BY <1>2, <2>2, DeciderFacts, DecidersListed DEF Keys
    <3>2. m \notin undone'
      BY <3>1 DEF Unsettled
    <3>3. QED
      BY <1>3, <1>5, <1>6, <1>8, <2>0, <3>1, <3>2 DEF Wanted
  <2>3. CASE m \in Deciders(k) /\ k = "spread"
    <3>1. Deciders(k) = {"populate", "remove"} /\ k \in Range(KeysOf(m))
      BY <1>2, <2>3, DeciderFacts, DecidersListed
    <3>2. "populate" \notin undone' /\ "remove" \notin undone'
      BY <3>1 DEF Unsettled
    <3>3. CASE m = "populate"
      <4>1. "remove" \notin ledger /\ "remove" \notin ledger'
        BY <1>3, <1>7, <3>3, OrderFacts
      <4>2. QED
        BY <1>3, <1>5, <1>6, <1>8, <2>0, <3>1, <3>2, <3>3, <4>1 DEF Wanted
    <3>4. CASE m = "remove"
      <4>1. "populate" \in ledger /\ "populate" \in ledger'
        BY <1>3, <1>7, <3>4, OrderFacts
      <4>2. "populate" \notin undone
        BY <1>3, <3>2, <3>4
      <4>3. QED
        BY <1>3, <1>5, <1>6, <1>8, <2>0, <3>1, <3>4, <4>1, <4>2 DEF Wanted
    <3>5. QED
      BY <2>3, <3>1, <3>3, <3>4
  <2>4. QED
    BY <2>1, <2>2, <2>3
<1>15. QED
  BY <1>9, <1>10, <1>11, <1>12, <1>13, <1>14

\* Programs change nothing but themselves.
LEMMA ProgramInv ==
  ASSUME SettingsInv, UNCHANGED <<database, ledger, work, commands, faults, cut, undone, disorder>>,
         up' \in [Programs -> BOOLEAN], env' \in [Programs -> SUBSET Keys],
         firm' \in [Programs -> BOOLEAN]
  PROVE  SettingsInv'
<1>1. UNCHANGED <<present, unique, copies, ledger, doing, todo, commands, faults,
                  cut, undone, disorder>>
  BY DEF database, work
<1>2. TypeOK'
  BY <1>1 DEF SettingsInv, TypeOK
<1>3. LedgerTrue' /\ Orderly' /\ Explained'
  BY <1>1 DEF SettingsInv, LedgerTrue, Wanted, Unsettled, Orderly, Explained
<1>4. Prepared' /\ Progress' /\ SpreadGone'
  BY <1>1 DEF SettingsInv, Prepared, Progress, SpreadGone, Adds, Ahead, Undisturbed, Repeatable
<1>5. QED
  BY <1>2, <1>3, <1>4 DEF SettingsInv

-----------------------------------------------------------------------------
\* Every step keeps the invariant.
LEMMA NextInv == SettingsInv /\ [Next]_vars => SettingsInv'
<1> SUFFICES ASSUME SettingsInv, [Next]_vars PROVE SettingsInv'
  OBVIOUS
<1>1. ASSUME NEW m \in Migrations, Up(m) \/ Down(m) PROVE SettingsInv'
  BY <1>1, UpInv, DownInv
<1>2. CASE Create \/ Index
  BY <1>2, CreateInv
<1>3. CASE Insert
  BY <1>3, InsertInv
<1>4. CASE Delete
  BY <1>4, DeleteInv
<1>5. CASE Drop \/ AdminEmpties
  BY <1>5, DropInv
<1>6. CASE Refused
  BY <1>6, FailInv, AtWork DEF Refused, Calling, SettingsInv, TypeOK
<1>7. CASE CallFails
  <2>1. faults' \in 0 .. MaxFaults
    BY <1>7, SettingsAssumption DEF CallFails, SettingsInv, TypeOK
  <2>2. QED
    BY <1>7, <2>1, FailInv DEF CallFails
<1>8. CASE Noted
  BY <1>8, NotedInv
<1>9. ASSUME NEW p \in Programs, Boot(p) \/ End(p) \/ ReadMissing(p) PROVE SettingsInv'
  <2>1. Imported \subseteq Keys /\ Complete \in BOOLEAN
    BY SettingsAssumption DEF Imported, Complete
  <2>2. up' \in [Programs -> BOOLEAN] /\ env' \in [Programs -> SUBSET Keys]
    BY <1>9, <2>1 DEF Boot, End, ReadMissing, SettingsInv, TypeOK
  <2>3. firm' \in [Programs -> BOOLEAN]
    BY <1>9, <2>1, Zenon DEF Boot, End, ReadMissing, SettingsInv, TypeOK
  <2>4. QED
    BY <1>9, <2>2, <2>3, ProgramInv DEF Boot, End, ReadMissing
<1>10. CASE UNCHANGED vars
  BY <1>10, ProgramInv DEF vars, programs, SettingsInv, TypeOK
<1>11. QED
  BY <1>1, <1>2, <1>3, <1>4, <1>5, <1>6, <1>7, <1>8, <1>9, <1>10 DEF Next

\* The ledger of migrations tells the truth about the settings collection, and the
\* parts that explain why hold as well, for any number of commands and faults.
THEOREM SettingsInvariant == Spec => []SettingsInv
<1>1. QED
  BY InitInv, NextInv, PTL DEF Spec

\* A migration is refused only if a run of itself stopped half-way, its records
\* were touched, or migrations were run out of order; the limits, which delete
\* what they insert, never are.  (SaveNewSett, SaveManyRecords)
THEOREM RefusalsExplained == Spec => RefusalExplained
<1>1. SettingsInv /\ [Next]_vars =>
        [Refused => doing[1] # "limits" /\ (doing[1] \in cut \cup undone \/ disorder)]_vars
  <2> SUFFICES ASSUME SettingsInv, Refused
               PROVE  doing[1] # "limits" /\ (doing[1] \in cut \cup undone \/ disorder)
    OBVIOUS
  <2> DEFINE k == Head(todo)[2]
  <2>1. todo # <<>> /\ Head(todo)[1] = "insert" /\ copies[k] > 0
    BY DEF Refused, Calling
  <2>2. /\ k \in Range(KeysOf(doing[1])) /\ Adds
        /\ Ahead("insert", k) /\ ~Ahead("delete", k) /\ doing # Idle
    BY <2>1, HeadFacts, AtWork DEF SettingsInv
  <2> HIDE DEF k
  <2>3. Repeatable => copies[k] = 0
    BY <2>2 DEF SettingsInv, Progress
  <2>4. QED
    BY <2>1, <2>3 DEF Repeatable
<1>2. QED
  BY <1>1, SettingsInvariant, PTL DEF Spec, RefusalExplained

\* On a complete database every setting that programs look for is there.
LEMMA CompleteHasAll == SettingsInv /\ Complete => \A k \in Needed : copies[k] > 0
<1> SUFFICES ASSUME SettingsInv, Complete, NEW k \in Needed PROVE copies[k] > 0
  OBVIOUS
<1>1. Unsettled = {"none"} /\ ~disorder /\ ledger = Migrations
  BY DEF Complete, Unsettled, Idle
<1>2. k \in Keys /\ k # "spread"
  BY DEF Needed
<1>3. Deciders(k) \cap Unsettled = {} /\ Deciders(k) \subseteq Migrations
  BY <1>1, <1>2, DeciderFacts, MigrationFacts
<1>4. Deciders(k) # {} /\ "remove" \notin Deciders(k)
  BY <1>2, DecidersListed DEF Keys
<1>5. QED
  BY <1>1, <1>2, <1>3, <1>4 DEF SettingsInv, LedgerTrue, Wanted

\* A program that boots on a complete database finds every setting it ever looks
\* for, whatever becomes of the collection while it runs.  (importSettings, GetEnv)
THEOREM BootFindsAllSettings == Spec => []BootFindsAll
<1>1. Init => BootFindsAll
  BY DEF Init, BootFindsAll
<1>2. SettingsInv /\ BootFindsAll /\ [Next]_vars => BootFindsAll'
  <2> SUFFICES ASSUME SettingsInv, BootFindsAll, [Next]_vars,
                      NEW p \in Programs, up'[p], firm'[p]
               PROVE  Missing(p)' = {}
    BY DEF BootFindsAll
  <2>1. CASE up'[p] = up[p] /\ firm'[p] = firm[p] /\ env'[p] = env[p]
    BY <2>1 DEF BootFindsAll, Missing
  <2>2. CASE Boot(p)
    <3>1. Complete /\ env'[p] = Imported
      BY <2>2, Zenon DEF Boot, SettingsInv, TypeOK
    <3>2. Needed \subseteq Imported
      BY <3>1, CompleteHasAll DEF Imported, Needed
    <3>3. QED
      BY <3>1, <3>2 DEF Missing
  <2>3. CASE End(p)
    BY <2>3 DEF End, SettingsInv, TypeOK
  <2>4. ASSUME NEW q \in Programs \ {p}, Boot(q) \/ End(q)
        PROVE  up'[p] = up[p] /\ firm'[p] = firm[p] /\ env'[p] = env[p]
    BY <2>4 DEF Boot, End, SettingsInv, TypeOK
  <2>5. CASE UNCHANGED programs
    BY <2>1, <2>5 DEF programs
  <2>6. QED
    BY <2>1, <2>2, <2>3, <2>4, <2>5
       DEF Next, ReadMissing, Up, Down, Command, Create, Index, Insert, Delete, Drop, Refused,
           CallFails, Noted, AdminEmpties, CallDone, Fail, vars
<1>3. QED
  BY <1>1, <1>2, SettingsInvariant, PTL DEF Spec
=============================================================================
