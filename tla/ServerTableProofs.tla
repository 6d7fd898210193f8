-------------------------- MODULE ServerTableProofs --------------------------
(***************************************************************************)
(* Theorems about the server table, for any pages, applications,           *)
(* environments and configurations, and any number of submits and changes  *)
(* of the applications.                                                    *)
(***************************************************************************)
EXTENDS ServerTable, SequenceTheorems, WellFoundedInduction, TLAPS

-----------------------------------------------------------------------------
(* Lists put together *)

Less == {p \in Nat \X Nat : p[1] < p[2]}

\* A set of numbers has a least one: induction, as a fact about sets.
LEMMA Least ==
  ASSUME NEW T \in SUBSET Nat, T # {}
  PROVE  \E x \in T : \A y \in T : x <= y
<1>1. IsWellFoundedOn(Less, Nat)
  BY NatLessThanWellFounded DEF OpToRel, Less
<1>2. PICK x \in T : \A y \in T : <<y, x>> \notin Less
  BY <1>1, WFMin
<1>3. ASSUME NEW y \in T
      PROVE  x <= y
  <2>1. <<y, x>> \in Nat \X Nat /\ <<y, x>>[1] = y /\ <<y, x>>[2] = x
    OBVIOUS
  <2>2. ~ (<<y, x>>[1] < <<y, x>>[2])
    BY <1>2, <2>1 DEF Less
  <2> QED
    BY <2>1, <2>2
<1> QED
  BY <1>3

\* f puts the first n lists of s together, one after the other.
Joined(f, s, n) == \A i \in 1..n : f[i] = IF i = 1 THEN s[i] ELSE f[i - 1] \o s[i]

LEMMA JoinedExists ==
  ASSUME NEW S, NEW s \in Seq(Seq(S))
  PROVE  \E f \in [1..Len(s) -> Seq(S)] : Joined(f, s, Len(s))
<1> DEFINE Some(n) == \E f \in [1..n -> Seq(S)] : Joined(f, s, n)
           T == {n \in 0..Len(s) : ~ Some(n)}
<1>0. Len(s) \in Nat /\ \A i \in 1..Len(s) : s[i] \in Seq(S)
  OBVIOUS
<1> SUFFICES ASSUME T # {}
             PROVE  FALSE
  BY <1>0
<1>1. T \in SUBSET Nat
  BY <1>0
<1>2. PICK n \in T : \A m \in T : n <= m
  <2> HIDE DEF T
  <2> QED
    BY <1>1, Least
<1>3. n \in 0..Len(s) /\ n \in Nat /\ ~ Some(n)
  BY <1>1
<1>4. CASE n = 0
  <2>1. [i \in 1..0 |-> <<>>] \in [1..0 -> Seq(S)]
    OBVIOUS
  <2>2. Joined([i \in 1..0 |-> <<>>], s, 0)
    BY DEF Joined
  <2> QED
    BY <1>3, <1>4, <2>1, <2>2
<1>5. CASE n # 0
  <2>0. n - 1 \in 0..Len(s) /\ ~ (n <= n - 1) /\ n \in 1..Len(s)
    BY <1>0, <1>3, <1>5
  <2>1. n - 1 \in 0..Len(s) /\ n - 1 \notin T /\ n \in 1..Len(s)
    <3> HIDE DEF T
    <3> QED
      BY <1>2, <2>0
  <2>2. PICK g \in [1..(n - 1) -> Seq(S)] : Joined(g, s, n - 1)
    BY <2>1
  <2> DEFINE new == IF n = 1 THEN s[n] ELSE g[n - 1] \o s[n]
             f == [i \in 1..n |-> IF i = n THEN new ELSE g[i]]
  <2>3. new \in Seq(S)
    <3>1. s[n] \in Seq(S)
      BY <1>0, <2>1
    <3>2. n # 1 => g[n - 1] \in Seq(S)
      BY <1>3, <1>5
    <3> QED
      BY <3>1, <3>2, ConcatProperties
  <2>4. f[n] = new /\ \A i \in 1..(n - 1) : f[i] = g[i]
    <3> HIDE DEF new
    <3>1. n \in 1..n /\ \A i \in 1..(n - 1) : i \in 1..n /\ i # n
      BY <1>3, <1>5
    <3> QED
      BY <3>1
  <2>5. f \in [1..n -> Seq(S)]
    <3> HIDE DEF new
    <3> QED
      BY <1>3, <2>3
  <2>6. Joined(f, s, n)
    <3> SUFFICES ASSUME NEW i \in 1..n
                 PROVE  f[i] = IF i = 1 THEN s[i] ELSE f[i - 1] \o s[i]
      BY DEF Joined
    <3> HIDE DEF f
    <3>1. CASE i = n
      <4>1. n # 1 => f[n - 1] = g[n - 1]
        BY <1>3, <1>5, <2>4
      <4> QED
        BY <2>4, <3>1, <4>1
    <3>2. CASE i # n
      <4>1. i \in 1..(n - 1) /\ (i # 1 => i - 1 \in 1..(n - 1))
        BY <1>3, <3>2
      <4>2. g[i] = IF i = 1 THEN s[i] ELSE g[i - 1] \o s[i]
        BY <2>2, <4>1 DEF Joined
      <4> QED
        BY <2>4, <4>1, <4>2
    <3> QED
      BY <3>1, <3>2
  <2> HIDE DEF f
  <2> QED
    BY <1>3, <2>5, <2>6
<1> QED
  BY <1>4, <1>5

LEMMA JoinedTyped ==
  ASSUME NEW S, NEW s \in Seq(Seq(S)), NEW f, Joined(f, s, Len(s))
  PROVE  \A i \in 1..Len(s) : f[i] \in Seq(S)
<1> DEFINE T == {i \in 1..Len(s) : f[i] \notin Seq(S)}
<1>0. Len(s) \in Nat /\ \A i \in 1..Len(s) : s[i] \in Seq(S)
  OBVIOUS
<1> SUFFICES ASSUME T # {}
             PROVE  FALSE
  OBVIOUS
<1>1. T \in SUBSET Nat
  BY <1>0
<1>2. PICK n \in T : \A m \in T : n <= m
  <2> HIDE DEF T
  <2> QED
    BY <1>1, Least
<1>3. n \in 1..Len(s) /\ f[n] \notin Seq(S) /\ s[n] \in Seq(S)
  BY <1>0
<1>4. f[n] = IF n = 1 THEN s[n] ELSE f[n - 1] \o s[n]
  BY <1>3 DEF Joined
<1>5. n # 1 => f[n - 1] \in Seq(S)
  <2> SUFFICES ASSUME n # 1
               PROVE  f[n - 1] \in Seq(S)
    OBVIOUS
  <2>1. n - 1 \in 1..Len(s) /\ ~ (n <= n - 1)
    BY <1>0, <1>3
  <2>2. n - 1 \notin T
    BY <1>2, <2>1
  <2> QED
    BY <2>1, <2>2
<1> QED
  BY <1>3, <1>4, <1>5, ConcatProperties

\* What FlattenSeq computes.
LEMMA Flattened ==
  ASSUME NEW S, NEW s \in Seq(Seq(S)), s # <<>>
  PROVE  \E f : Joined(f, s, Len(s)) /\ FlattenSeq(s) = f[Len(s)]
<1> DEFINE Rec(f) == f = [i \in 1..Len(s) |-> IF i = 1 THEN s[i] ELSE f[i - 1] \o s[i]]
           c == CHOOSE f : Rec(f)
<1>1. FlattenSeq(s) = c[Len(s)]
  BY DEF FlattenSeq
<1>2. PICK f \in [1..Len(s) -> Seq(S)] : Joined(f, s, Len(s))
  BY JoinedExists
<1>3. Rec(f)
  <2>1. f = [i \in 1..Len(s) |-> f[i]]
    OBVIOUS
  <2> QED
    BY <1>2, <2>1 DEF Joined
<1>4. Rec(c)
  BY <1>3
<1> HIDE DEF c
<1>5. Joined(c, s, Len(s))
  BY <1>4 DEF Joined
<1> QED
  BY <1>1, <1>5

LEMMA FlattenTyped ==
  ASSUME NEW S, NEW s \in Seq(Seq(S))
  PROVE  FlattenSeq(s) \in Seq(S) /\ (s = <<>> => FlattenSeq(s) = <<>>)
<1>1. CASE s = <<>>
  BY <1>1 DEF FlattenSeq
<1>2. CASE s # <<>>
  <2>1. PICK f : Joined(f, s, Len(s)) /\ FlattenSeq(s) = f[Len(s)]
    BY <1>2, Flattened
  <2>2. Len(s) \in 1..Len(s)
    BY <1>2
  <2> QED
    BY <1>2, <2>1, <2>2, JoinedTyped
<1> QED
  BY <1>1, <1>2

\* The lists put together are the first one and then the others put together.
LEMMA FlattenFirst ==
  ASSUME NEW S, NEW s \in Seq(Seq(S)), s # <<>>
  PROVE  FlattenSeq(s) = Head(s) \o FlattenSeq(Tail(s))
<1> DEFINE t == Tail(s)
<1>0. /\ Len(s) \in Nat /\ Len(s) # 0 /\ Head(s) = s[1] /\ s[1] \in Seq(S)
      /\ t \in Seq(Seq(S)) /\ Len(t) = Len(s) - 1 /\ \A i \in 1..Len(t) : t[i] = s[i + 1] /\ t[i] \in Seq(S)
  OBVIOUS
<1>1. PICK f : Joined(f, s, Len(s)) /\ FlattenSeq(s) = f[Len(s)]
  BY Flattened
<1> HIDE DEF t
<1>2. 1 \in 1..Len(s) /\ f[1] = s[1]
  BY <1>0, <1>1 DEF Joined
<1>9. \A x, y, z \in Seq(S) : (x \o y) \o z = x \o (y \o z)
  BY ConcatAssociative, SMTT(30)
<1>3. CASE t = <<>>
  <2>1. FlattenSeq(t) = <<>>
    BY <1>0, <1>3, FlattenTyped
  <2>2. Len(t) = 0
    BY <1>3
  <2>3. Len(s) = 1
    BY <1>0, <2>2
  <2> QED
    BY <1>0, <1>1, <1>2, <2>1, <2>3, ConcatEmptySeq DEF t
<1>4. CASE t # <<>>
  <2>1. PICK g : Joined(g, t, Len(t)) /\ FlattenSeq(t) = g[Len(t)]
    BY <1>0, <1>4, Flattened
  <2>2. \A i \in 1..Len(t) : g[i] \in Seq(S)
    BY <1>0, <2>1, JoinedTyped
  <2> DEFINE T == {i \in 1..Len(t) : f[i + 1] # Head(s) \o g[i]}
  <2>3. T = {}
    <3> SUFFICES ASSUME T # {}
                 PROVE  FALSE
      OBVIOUS
    <3>1. T \in SUBSET Nat
      <4>1. \A i \in 1..Len(t) : i \in Nat
        BY <1>0
      <4> QED
        BY <4>1
    <3>2. PICK n \in T : \A m \in T : n <= m
      <4> HIDE DEF T
      <4> QED
        BY <3>1, Least
    <3>3. n \in 1..Len(t) /\ n \in Nat /\ f[n + 1] # Head(s) \o g[n]
      BY <3>1
    <3>4. f[n + 1] = f[n] \o t[n]
      <4>1. n + 1 \in 1..Len(s) /\ n + 1 # 1 /\ (n + 1) - 1 = n
        BY <1>0, <3>3
      <4>2. f[n + 1] = f[(n + 1) - 1] \o s[n + 1]
        BY <1>1, <4>1 DEF Joined
      <4> QED
        BY <1>0, <3>3, <4>1, <4>2
    <3>5. CASE n = 1
      <4>1. g[n] = t[n]
        BY <2>1, <3>3, <3>5 DEF Joined
      <4> QED
        BY <1>0, <1>2, <3>3, <3>4, <3>5, <4>1
    <3>6. CASE n # 1
      <4>1. n - 1 \in 1..Len(t) /\ ~ (n <= n - 1) /\ (n - 1) + 1 = n
        BY <3>3, <3>6
      <4>2. n - 1 \notin T
        BY <3>2, <4>1
      <4>3. f[n] = Head(s) \o g[n - 1]
        BY <4>1, <4>2
      <4>4. g[n] = g[n - 1] \o t[n]
        BY <2>1, <3>3, <3>6 DEF Joined
      <4>5. (Head(s) \o g[n - 1]) \o t[n] = Head(s) \o (g[n - 1] \o t[n])
        <5>1. Head(s) \in Seq(S) /\ g[n - 1] \in Seq(S) /\ t[n] \in Seq(S)
          BY <1>0, <2>2, <3>3, <4>1
        <5> QED
          BY <1>9, <5>1
      <4> QED
        BY <3>3, <3>4, <4>3, <4>4, <4>5
    <3> QED
      BY <3>5, <3>6
  <2>4. Len(t) \in 1..Len(t) /\ Len(t) + 1 = Len(s)
    BY <1>0, <1>4
  <2>5. f[Len(t) + 1] = Head(s) \o g[Len(t)]
    BY <2>3, <2>4
  <2> QED
    BY <1>1, <2>1, <2>4, <2>5 DEF t
<1> QED
  BY <1>3, <1>4

-----------------------------------------------------------------------------
(* The inductive invariant *)

Places   == {"new", "header", "row", "health", "metrics", "shown"}
Columns  == Seq(Envs \cup {Blank})
Probing(p) == pc[p] \in {"health", "metrics"}

\* The details a finished cell may have.
Complete == {d \in Detail : d.state = "running" => d.version # None /\ d.upTime # None}
TableRow == [app : Apps, cells : Seq(Complete)]

\* Where each page keeps what: a cell in a list or in the table is complete.
PagesTyped ==
  /\ pc \in [Pages -> Places]
  /\ header \in [Pages -> Columns] /\ cols \in [Pages -> Columns]
  /\ rows \in [Pages -> Seq(Rows)] /\ apps \in [Pages -> Seq(Names)]
  /\ cells \in [Pages -> Seq(Complete)] /\ detail \in [Pages -> Detail]
  /\ table \in [Pages -> Seq(TableRow)]

WorldTyped ==
  /\ environments \in Configs /\ submits \in 0..MaxSubmits /\ changes \in 0..MaxChanges
  /\ hosts \in [Hosts -> SUBSET Droplet]

\* What is in force and what runs now is among what a page may have seen.
SeenTyped ==
  /\ inForce \in [Pages -> SUBSET Configs] /\ ran \in [Pages -> [Hosts -> SUBSET Bits]]
  /\ \A p \in Pages : /\ environments \in inForce[p]
                      /\ \A h \in Hosts : \A d \in hosts[h] : d.bits \in ran[p][h]

\* What is in work while a page asks.
InWork(p) ==
  /\ Probing(p) => rows[p] # <<>> /\ apps[p] # <<>> /\ Len(cells[p]) < Len(cols[p])
  /\ pc[p] = "metrics" => Host(p) \in Hosts /\ detail[p].version # None /\ detail[p].upTime = None
  /\ pc[p] \in {"new", "header", "row"} => cells[p] = <<>>
  /\ pc[p] \in {"new", "header"} => rows[p] = <<>> /\ table[p] = <<>>

TableInv == PagesTyped /\ WorldTyped /\ SeenTyped /\ \A p \in Pages : InWork(p)

-----------------------------------------------------------------------------
(* Types *)

LEMMA Numbers ==
  /\ MaxSubmits \in Nat /\ MaxChanges \in Nat /\ None \notin Bits /\ None \in Nat
  /\ NoDetail \in Complete /\ Complete \subseteq Detail /\ 0 \in Bits
<1>1. MaxSubmits \in Nat /\ MaxChanges \in Nat
  BY ServerTableAssumption
<1>2. None \notin Bits /\ None \in Nat /\ 0 \in Bits
  BY <1>1 DEF None, Bits
<1>3. NoDetail \in Complete
  BY DEF NoDetail, Complete, Detail
<1> QED
  BY <1>1, <1>2, <1>3 DEF Complete

LEMMA ConfigTyped ==
  ASSUME NEW config \in Configs
  PROVE  config \in Seq(Rows) /\ EnvList(config) \in Columns
<1> DEFINE types == [i \in DOMAIN config |-> config[i].types]
<1>1. config \in Seq(Rows)
  BY ServerTableAssumption
<1>2. types \in Seq(Columns)
  <2>1. \A i \in 1..Len(config) : config[i].types \in Columns
    <3>1. \A i \in 1..Len(config) : config[i] \in Rows
      BY <1>1
    <3> QED
      BY <3>1 DEF Rows, Columns
  <2>2. DOMAIN config = 1..Len(config) /\ Len(config) \in Nat
    BY <1>1
  <2> QED
    BY <2>1, <2>2
<1>3. FlattenSeq(types) \in Columns
  <2> HIDE DEF types
  <2> QED
    BY <1>2, FlattenTyped DEF Columns
<1> QED
  BY <1>1, <1>3 DEF EnvList

LEMMA RowTyped ==
  ASSUME NEW list \in Seq(Rows), list # <<>>
  PROVE  Head(list).names \in Seq(Names) /\ Tail(list) \in Seq(Rows)
<1>1. Head(list) \in Rows /\ Tail(list) \in Seq(Rows)
  OBVIOUS
<1> QED
  BY <1>1 DEF Rows

LEMMA Lists ==
  ASSUME NEW S, NEW list \in Seq(S)
  PROVE  /\ Len(list) \in Nat
         /\ list # <<>> => Head(list) \in S /\ Tail(list) \in Seq(S) /\ Len(Tail(list)) = Len(list) - 1
         /\ list = <<>> <=> Len(list) = 0
         /\ \A d \in S : Append(list, d) \in Seq(S) /\ Len(Append(list, d)) = Len(list) + 1
  OBVIOUS

LEMMA TableStart ==
  ASSUME Init
  PROVE  TableInv
<1>1. hosts \in [Hosts -> SUBSET Droplet] /\ \A h \in Hosts : \A d \in hosts[h] : d.bits = 0
  BY Numbers DEF Init, Droplet, Answers
<1>2. WorldTyped
  BY <1>1, Numbers DEF Init, WorldTyped
<1>3. PagesTyped
  <2>1. NoDetail \in Detail
    BY Numbers
  <2> QED
    BY <2>1 DEF Init, PagesTyped, Places, Columns
<1>4. \A p \in Pages : InWork(p)
  BY DEF Init, InWork, Probing
<1>5. SeenTyped
  BY <1>1, Numbers DEF Init, SeenTyped
<1> QED
  BY <1>2, <1>3, <1>4, <1>5 DEF TableInv

\* A finished cell keeps the lists typed; so does a finished row.
LEMMA AddCellTyped ==
  ASSUME TableInv, NEW p \in Pages, NEW d \in Complete, Probing(p), Host(p) \in Hosts, AddCell(p, d)
  PROVE  PagesTyped' /\ InWork(p)' /\ UNCHANGED <<header, cols, seen>>
<1> DEFINE done == Append(cells[p], d)
           full == Len(done) = Len(cols[p])
           last == full /\ Len(apps[p]) = 1
<1>0. /\ PagesTyped /\ InWork(p) /\ rows[p] \in Seq(Rows) /\ apps[p] \in Seq(Names)
      /\ cells[p] \in Seq(Complete) /\ cols[p] \in Columns /\ table[p] \in Seq(TableRow)
      /\ rows[p] # <<>> /\ apps[p] # <<>> /\ Len(cells[p]) < Len(cols[p])
  BY DEF TableInv, PagesTyped, InWork
<1>1. /\ done \in Seq(Complete) /\ Tail(rows[p]) \in Seq(Rows) /\ Tail(apps[p]) \in Seq(Names)
      /\ Head(apps[p]) \in Apps /\ Len(done) = Len(cells[p]) + 1
      /\ Len(apps[p]) # 1 => Tail(apps[p]) # <<>>
  <2>1. done \in Seq(Complete) /\ Len(done) = Len(cells[p]) + 1
    BY <1>0, Lists
  <2>2. Tail(rows[p]) \in Seq(Rows)
    BY <1>0, Lists
  <2>3. Tail(apps[p]) \in Seq(Names) /\ Len(Tail(apps[p])) = Len(apps[p]) - 1
    BY <1>0, Lists
  <2>5. Head(apps[p]) \in Apps
    BY DEF Host, Hosts
  <2>4. Len(apps[p]) # 1 => Tail(apps[p]) # <<>>
    <3>1. Tail(apps[p]) = <<>> => Len(Tail(apps[p])) = 0
      BY <2>3, Lists
    <3>2. Len(apps[p]) \in Nat
      BY <1>0
    <3> QED
      BY <2>3, <3>1, <3>2
  <2> QED
    BY <2>1, <2>2, <2>3, <2>4, <2>5
<1>2. [app |-> Head(apps[p]), cells |-> done] \in TableRow
  BY <1>1 DEF TableRow
<1>3. Append(table[p], [app |-> Head(apps[p]), cells |-> done]) \in Seq(TableRow)
  BY <1>0, <1>2
<1>4. Len(cells[p]) \in Nat /\ Len(cols[p]) \in Nat
  BY <1>0 DEF Columns
<1>5. /\ cells' = [cells EXCEPT ![p] = IF full THEN <<>> ELSE done]
      /\ table' = IF full THEN [table EXCEPT ![p] = Append(@, [app |-> Head(apps[p]), cells |-> done])] ELSE table
      /\ apps' = IF full THEN [apps EXCEPT ![p] = Tail(@)] ELSE apps
      /\ rows' = IF last THEN [rows EXCEPT ![p] = Tail(@)] ELSE rows
      /\ pc' = [pc EXCEPT ![p] = IF last THEN "row" ELSE "health"]
      /\ detail' = [detail EXCEPT ![p] = NoDetail]
      /\ UNCHANGED <<header, cols, seen>>
  BY DEF AddCell
<1> HIDE DEF done
<1>6. /\ pc' \in [Pages -> Places] /\ rows' \in [Pages -> Seq(Rows)] /\ apps' \in [Pages -> Seq(Names)]
      /\ detail' \in [Pages -> Detail]
  BY <1>0, <1>1, <1>5, Numbers DEF PagesTyped, Places
<1>7. cells' \in [Pages -> Seq(Complete)]
  BY <1>0, <1>1, <1>5 DEF PagesTyped
<1>8. table' \in [Pages -> Seq(TableRow)]
  BY <1>0, <1>3, <1>5 DEF PagesTyped
<1>9. PagesTyped'
  BY <1>0, <1>5, <1>6, <1>7, <1>8 DEF PagesTyped
<1>10. CASE last
  <2>1. pc'[p] = "row" /\ cells'[p] = <<>>
    BY <1>0, <1>5, <1>10 DEF PagesTyped
  <2> QED
    BY <1>5, <1>9, <2>1 DEF InWork, Probing
<1>11. CASE ~ last
  <2>1. pc'[p] = "health" /\ rows'[p] # <<>>
    BY <1>0, <1>5, <1>11 DEF PagesTyped
  <2>2. apps'[p] # <<>> /\ Len(cells'[p]) < Len(cols'[p])
    <3>1. CASE full
      <4>1. cells'[p] = <<>> /\ apps'[p] = Tail(apps[p])
        BY <1>0, <1>5, <3>1 DEF PagesTyped
      <4>2. Len(cols[p]) > 0
        BY <1>0, <1>4
      <4> QED
        BY <1>1, <1>5, <1>11, <3>1, <4>1, <4>2
    <3>2. CASE ~ full
      <4>1. cells'[p] = done /\ apps'[p] = apps[p]
        BY <1>0, <1>5, <3>2 DEF PagesTyped
      <4> QED
        BY <1>0, <1>1, <1>4, <1>5, <3>2, <4>1
    <3> QED
      BY <3>1, <3>2
  <2> QED
    BY <1>5, <1>9, <2>1, <2>2 DEF InWork, Probing
<1> QED
  BY <1>5, <1>9, <1>10, <1>11

\* Whom a page asks, unless something is odd about the configuration.
LEMMA HostProbed ==
  ASSUME TableInv, NEW p \in Pages, Probing(p), ~ Throws(p)
  PROVE  Host(p) \in Hosts
<1>1. /\ apps[p] \in Seq(Names) /\ apps[p] # <<>> /\ cells[p] \in Seq(Complete)
      /\ cols[p] \in Columns /\ Len(cells[p]) < Len(cols[p])
  BY DEF TableInv, PagesTyped, InWork
<1>2. Column(p) \in Envs
  <2>1. Len(cells[p]) + 1 \in 1..Len(cols[p])
    BY <1>1, Lists DEF Columns
  <2> QED
    BY <1>1, <2>1 DEF Column, Columns, Throws
<1>3. Head(apps[p]) \in Apps
  BY <1>1, Lists DEF Throws, Names
<1> QED
  BY <1>2, <1>3 DEF Host, Hosts

\* Who answers a page runs there while the page is rendered.
LEMMA AnswerTyped ==
  ASSUME TableInv, NEW p \in Pages, Host(p) \in Hosts, NEW d \in Answering(p)
  PROVE  d.bits \in Bits /\ d.bits # None /\ d.bits \in ran[p][Host(p)]
<1>1. d \in hosts[Host(p)] /\ d \in Droplet
  BY DEF Answering, TableInv, WorldTyped
<1> QED
  BY <1>1, Numbers DEF Droplet, TableInv, SeenTyped

\* The detail of a cell whose health was answered.
Started(d) == [state |-> IF d.answer = "up" THEN "running" ELSE "stopped", version |-> d.bits, upTime |-> None]

\* What asking for health may do to a page.
LEMMA HealthCases ==
  ASSUME NEW p, Health(p)
  PROVE  \/ /\ Throws(p) /\ pc' = [pc EXCEPT ![p] = "shown"] /\ table' = [table EXCEPT ![p] = <<>>]
            /\ UNCHANGED <<header, rows, cols, apps, cells, detail, seen>>
         \/ ~ Throws(p) /\ AddCell(p, NoDetail)
         \/ /\ ~ Throws(p)
            /\ \E d \in Answering(p) :
                 /\ pc' = [pc EXCEPT ![p] = "metrics"] /\ detail' = [detail EXCEPT ![p] = Started(d)]
                 /\ UNCHANGED <<header, rows, cols, apps, cells, table, seen>>
  BY Zenon DEF Health, AskHealth, Started

\* A cell is done when its metrics are.
LEMMA MetricsCell ==
  ASSUME TableInv, NEW p \in Pages, Metrics(p)
  PROVE  \E d \in Complete :
           /\ AddCell(p, d) /\ d.version = detail[p].version
           /\ d.upTime = None \/ d.upTime \in ran[p][Host(p)]
<1>0. /\ pc[p] = "metrics" /\ Host(p) \in Hosts /\ detail[p] \in Detail
      /\ detail[p].version # None /\ detail[p].upTime = None
  BY DEF Metrics, TableInv, InWork, PagesTyped
<1>1. CASE AddCell(p, [detail[p] EXCEPT !.state = "stopped"])
  <2> DEFINE new == [detail[p] EXCEPT !.state = "stopped"]
  <2>1. new \in Complete /\ new.version = detail[p].version /\ new.upTime = None
    BY <1>0 DEF Complete, Detail
  <2> HIDE DEF new
  <2> QED
    BY <1>1, <2>1 DEF new
<1>2. CASE \E d \in Answering(p) : AddCell(p, UpTime(p, d))
  <2>1. PICK d \in Answering(p) : AddCell(p, UpTime(p, d))
    BY <1>2
  <2>2. d.bits \in Bits /\ d.bits # None /\ d.bits \in ran[p][Host(p)]
    BY <1>0, AnswerTyped
  <2>3. /\ UpTime(p, d) \in Complete /\ UpTime(p, d).version = detail[p].version
        /\ UpTime(p, d).upTime = d.bits
    BY <1>0, <2>2 DEF UpTime, Complete, Detail
  <2> QED
    BY <2>1, <2>2, <2>3
<1> QED
  BY <1>1, <1>2 DEF Metrics

\* What the page p does keeps its types; another page is not touched by it.
LEMMA RenderTyped ==
  ASSUME TableInv, NEW p \in Pages, Render(p)
  PROVE  PagesTyped' /\ InWork(p)'
<1>0. /\ PagesTyped /\ WorldTyped /\ InWork(p)
      /\ rows[p] \in Seq(Rows) /\ detail[p] \in Detail
      /\ environments \in Seq(Rows) /\ EnvList(environments) \in Columns
  BY ConfigTyped DEF TableInv, PagesTyped, WorldTyped
<1>1. CASE Load(p)
  <2>1. /\ header' \in [Pages -> Columns] /\ pc' \in [Pages -> Places]
        /\ pc[p] = "new" /\ pc'[p] = "header"
    BY <1>0, <1>1 DEF Load, PagesTyped, Places
  <2> QED
    BY <1>0, <1>1, <2>1 DEF Load, progress, PagesTyped, InWork, Probing
<1>2. CASE StartTable(p)
  <2>1. /\ pc' \in [Pages -> Places] /\ rows' \in [Pages -> Seq(Rows)]
        /\ pc[p] = "header" /\ pc'[p] = "row"
    BY <1>0, <1>2 DEF StartTable, PagesTyped, Places
  <2> QED
    BY <1>0, <1>2, <2>1 DEF StartTable, PagesTyped, InWork, Probing
<1>3. CASE NextRow(p)
  <2>0. /\ pc[p] = "row" /\ rows[p] # <<>> /\ cells[p] = <<>>
        /\ UNCHANGED <<header, cells, detail, table>>
        /\ cols' = [cols EXCEPT ![p] = EnvList(environments)]
    BY <1>0, <1>3 DEF NextRow, InWork
  <2>1. cols' \in [Pages -> Columns] /\ cols'[p] = EnvList(environments)
    BY <1>0, <2>0 DEF PagesTyped
  <2>2. CASE cols'[p] = <<>> \/ Head(rows[p]).names = <<>>
    <3>1. rows' = [rows EXCEPT ![p] = Tail(@)] /\ UNCHANGED <<pc, apps>>
      BY <1>3, <2>2 DEF NextRow
    <3>2. rows' \in [Pages -> Seq(Rows)]
      BY <1>0, <2>0, <3>1, RowTyped DEF PagesTyped
    <3> QED
      BY <1>0, <2>0, <2>1, <3>1, <3>2 DEF PagesTyped, InWork, Probing
  <2>3. CASE ~ (cols'[p] = <<>> \/ Head(rows[p]).names = <<>>)
    <3>1. pc' = [pc EXCEPT ![p] = "health"] /\ apps' = [apps EXCEPT ![p] = Head(rows[p]).names] /\ rows' = rows
      BY <1>3, <2>3 DEF NextRow
    <3>2. /\ pc' \in [Pages -> Places] /\ pc'[p] = "health"
          /\ apps' \in [Pages -> Seq(Names)] /\ apps'[p] # <<>>
      BY <1>0, <2>0, <2>3, <3>1, RowTyped DEF PagesTyped, Places
    <3>3. Len(cells'[p]) < Len(cols'[p])
      BY <1>0, <2>0, <2>1, <2>3, Lists DEF Columns
    <3> QED
      BY <1>0, <2>0, <2>1, <3>1, <3>2, <3>3 DEF PagesTyped, InWork, Probing
  <2> QED
    BY <2>2, <2>3
<1>4. CASE EndTable(p)
  <2>1. pc' \in [Pages -> Places] /\ pc'[p] = "shown"
    BY <1>0, <1>4 DEF EndTable, PagesTyped, Places
  <2> QED
    BY <1>0, <1>4, <2>1 DEF EndTable, progress, PagesTyped, InWork, Probing
<1>5. CASE Health(p)
  <2>0. pc[p] = "health" /\ Probing(p)
    BY <1>5 DEF Health, Probing
  <2>1. CASE /\ pc' = [pc EXCEPT ![p] = "shown"] /\ table' = [table EXCEPT ![p] = <<>>]
             /\ UNCHANGED <<header, rows, cols, apps, cells, detail>>
    <3>1. pc' \in [Pages -> Places] /\ pc'[p] = "shown" /\ table' \in [Pages -> Seq(TableRow)]
      BY <1>0, <2>1 DEF PagesTyped, Places
    <3> QED
      BY <1>0, <2>1, <3>1 DEF PagesTyped, InWork, Probing
  <2>2. CASE ~ Throws(p) /\ AddCell(p, NoDetail)
    BY <2>0, <2>2, HostProbed, AddCellTyped, Numbers
  <2>3. CASE /\ ~ Throws(p)
             /\ \E d \in Answering(p) :
                  /\ pc' = [pc EXCEPT ![p] = "metrics"] /\ detail' = [detail EXCEPT ![p] = Started(d)]
                  /\ UNCHANGED <<header, rows, cols, apps, cells, table, seen>>
    <3>0. PICK d \in Answering(p) :
            /\ pc' = [pc EXCEPT ![p] = "metrics"] /\ detail' = [detail EXCEPT ![p] = Started(d)]
            /\ UNCHANGED <<header, rows, cols, apps, cells, table>>
      BY <2>3
    <3>1. Host(p) \in Hosts /\ d.bits \in Bits /\ d.bits # None
      BY <2>0, <2>3, HostProbed, AnswerTyped
    <3>2. Started(d) \in Detail /\ Started(d).version # None /\ Started(d).upTime = None
      BY <3>1, Numbers DEF Started, Detail
    <3>3. /\ pc' \in [Pages -> Places] /\ pc'[p] = "metrics"
          /\ detail' \in [Pages -> Detail] /\ detail'[p] = Started(d)
      BY <1>0, <3>0, <3>2 DEF PagesTyped, Places
    <3>4. Host(p)' = Host(p)
      BY <3>0 DEF Host, Column
    <3>5. Host(p)' \in Hosts
      BY <3>1, <3>4
    <3> QED
      BY <1>0, <2>0, <3>0, <3>2, <3>3, <3>5 DEF PagesTyped, InWork, Probing
  <2> QED
    BY <1>5, <2>1, <2>2, <2>3, HealthCases
<1>6. CASE Metrics(p)
  <2>1. PICK d \in Complete : AddCell(p, d)
    BY <1>6, MetricsCell
  <2>2. Probing(p) /\ Host(p) \in Hosts
    BY <1>0, <1>6 DEF Metrics, Probing, InWork
  <2> QED
    BY <2>1, <2>2, AddCellTyped
<1> QED
  BY <1>1, <1>2, <1>3, <1>4, <1>5, <1>6 DEF Render

\* What a page has seen is the world it begins in, and then grows only from outside.
LEMMA RenderSeen ==
  ASSUME TableInv, NEW p \in Pages, Render(p)
  PROVE  UNCHANGED world /\ SeenTyped' /\ (~ Load(p) => UNCHANGED <<header, seen>>)
<1>0. WorldTyped /\ SeenTyped
  BY DEF TableInv
<1>1. CASE Load(p)
  <2>1. /\ UNCHANGED <<environments, submits, hosts, changes>>
        /\ inForce' = [inForce EXCEPT ![p] = {environments}]
        /\ ran' = [ran EXCEPT ![p] = [h \in Hosts |-> {d.bits : d \in hosts[h]}]]
    BY <1>1 DEF Load, world
  <2> DEFINE here == [h \in Hosts |-> {d.bits : d \in hosts[h]}]
  <2>2. here \in [Hosts -> SUBSET Bits]
    BY <1>0 DEF WorldTyped, Droplet
  <2>3. \A h \in Hosts : \A d \in hosts[h] : d.bits \in here[h]
    OBVIOUS
  <2> HIDE DEF here
  <2>4. ran' = [ran EXCEPT ![p] = here]
    BY <2>1 DEF here
  <2>5. inForce' \in [Pages -> SUBSET Configs] /\ ran' \in [Pages -> [Hosts -> SUBSET Bits]]
    BY <1>0, <2>1, <2>2, <2>4 DEF SeenTyped, WorldTyped
  <2>6. ASSUME NEW q \in Pages
        PROVE  /\ environments \in inForce'[q]
               /\ \A h \in Hosts : \A d \in hosts[h] : d.bits \in ran'[q][h]
    BY <1>0, <2>1, <2>3, <2>4 DEF SeenTyped
  <2>7. SeenTyped'
    BY <2>1, <2>5, <2>6 DEF SeenTyped
  <2> QED
    BY <1>1, <2>1, <2>7 DEF world
<1>2. CASE ~ Load(p)
  <2>1. UNCHANGED world /\ UNCHANGED <<header, seen>>
    BY <1>2 DEF Render, StartTable, NextRow, EndTable, Health, AskHealth, Metrics, AddCell
  <2>2. /\ environments' = environments /\ hosts' = hosts /\ inForce' = inForce /\ ran' = ran
    BY <2>1 DEF world, seen
  <2>3. SeenTyped'
    BY <1>0, <2>2 DEF SeenTyped
  <2> QED
    BY <2>1, <2>3
<1> QED
  BY <1>1, <1>2

\* A page no step of the rendering is about.
LEMMA OthersKept ==
  ASSUME NEW p \in Pages, NEW q \in Pages \ {p}, PagesTyped, SeenTyped, Render(p)
  PROVE  /\ pc'[q] = pc[q] /\ header'[q] = header[q] /\ rows'[q] = rows[q] /\ cols'[q] = cols[q]
         /\ apps'[q] = apps[q] /\ cells'[q] = cells[q] /\ detail'[q] = detail[q]
         /\ table'[q] = table[q] /\ inForce'[q] = inForce[q] /\ ran'[q] = ran[q]
<1>1. CASE \E d : AddCell(p, d)
  <2>1. PICK d : AddCell(p, d)
    BY <1>1
  <2>2. /\ pc'[q] = pc[q] /\ cells'[q] = cells[q] /\ detail'[q] = detail[q]
        /\ UNCHANGED <<header, cols, inForce, ran>>
    BY <2>1 DEF AddCell, PagesTyped, seen
  <2>3. table'[q] = table[q] /\ apps'[q] = apps[q] /\ rows'[q] = rows[q]
    BY <2>1 DEF AddCell, PagesTyped
  <2> QED
    BY <2>2, <2>3
<1>2. CASE Load(p) \/ StartTable(p) \/ NextRow(p) \/ EndTable(p)
  BY <1>2 DEF Load, StartTable, NextRow, EndTable, PagesTyped, SeenTyped, progress, seen
<1>3. CASE Health(p) /\ ~ \E d : AddCell(p, d)
  <2>1. CASE /\ pc' = [pc EXCEPT ![p] = "shown"] /\ table' = [table EXCEPT ![p] = <<>>]
             /\ UNCHANGED <<header, rows, cols, apps, cells, detail, seen>>
    BY <2>1 DEF PagesTyped, seen
  <2>2. CASE \E d \in Answering(p) :
               /\ pc' = [pc EXCEPT ![p] = "metrics"] /\ detail' = [detail EXCEPT ![p] = Started(d)]
               /\ UNCHANGED <<header, rows, cols, apps, cells, table, seen>>
    BY <2>2 DEF PagesTyped, seen
  <2> QED
    BY <1>3, <2>1, <2>2, HealthCases
<1> QED
  BY <1>1, <1>2, <1>3 DEF Render, Metrics

\* The administrator and the applications leave the pages alone, and a page has seen more.
LEMMA OutsideTyped ==
  ASSUME TableInv, Submit \/ \E h \in Hosts : ChangeHost(h)
  PROVE  /\ WorldTyped' /\ SeenTyped' /\ UNCHANGED <<pc, header, progress>>
         /\ \A p \in Pages : /\ inForce[p] \subseteq inForce'[p]
                             /\ \A h \in Hosts : ran[p][h] \subseteq ran'[p][h]
<1>0. WorldTyped /\ SeenTyped /\ MaxChanges \in Nat /\ MaxSubmits \in Nat
  BY Numbers DEF TableInv
<1>1. CASE Submit
  <2>1. /\ submits' = submits + 1 /\ submits < MaxSubmits /\ environments' \in Configs
        /\ inForce' = [p \in Pages |-> inForce[p] \cup {environments'}]
        /\ UNCHANGED <<hosts, changes, pc, header, progress, ran>>
    BY <1>1 DEF Submit
  <2>2. WorldTyped'
    BY <1>0, <2>1 DEF WorldTyped
  <2>3. SeenTyped'
    BY <1>0, <2>1 DEF SeenTyped
  <2> QED
    BY <2>1, <2>2, <2>3
<1>2. ASSUME NEW h \in Hosts, ChangeHost(h)
      PROVE  /\ WorldTyped' /\ SeenTyped' /\ UNCHANGED <<pc, header, progress>>
             /\ \A p \in Pages : /\ inForce[p] \subseteq inForce'[p]
                                 /\ \A g \in Hosts : ran[p][g] \subseteq ran'[p][g]
  <2>0. /\ changes' = changes + 1 /\ changes < MaxChanges
        /\ UNCHANGED <<environments, submits, pc, header, progress, inForce>>
    BY <1>2 DEF ChangeHost
  <2>1. changes' \in 0..MaxChanges
    BY <1>0, <2>0 DEF WorldTyped
  <2>2. ASSUME NEW new \in SUBSET Droplet, hosts' = [hosts EXCEPT ![h] = new], ran' = ran,
               \A d \in new : \E e \in hosts[h] : d.bits = e.bits
        PROVE  WorldTyped' /\ SeenTyped'
    <3>1. WorldTyped'
      BY <1>0, <2>0, <2>1, <2>2 DEF WorldTyped
    <3>2. \A g \in Hosts : hosts'[g] = IF g = h THEN new ELSE hosts[g]
      BY <1>0, <2>2 DEF WorldTyped
    <3>3. SeenTyped'
      BY <1>0, <2>0, <2>2, <3>2 DEF SeenTyped
    <3> QED
      BY <3>1, <3>3
  <2>9. hosts[h] \in SUBSET Droplet
    BY <1>0 DEF WorldTyped
  <2>3. CASE \E d \in hosts[h] : \E s \in Answers \ {d.answer} :
               hosts' = [hosts EXCEPT ![h] = (@ \ {d}) \cup {[d EXCEPT !.answer = s]}] /\ ran' = ran
    <3>1. PICK d \in hosts[h], s \in Answers :
               hosts' = [hosts EXCEPT ![h] = (@ \ {d}) \cup {[d EXCEPT !.answer = s]}] /\ ran' = ran
      BY <2>3
    <3> DEFINE e == [d EXCEPT !.answer = s]
               new == (hosts[h] \ {d}) \cup {e}
    <3>2. e \in Droplet /\ e.bits = d.bits
      BY <2>9 DEF Droplet
    <3>3. hosts' = [hosts EXCEPT ![h] = new]
      BY <3>1
    <3> HIDE DEF e
    <3>4. new \in SUBSET Droplet /\ \A x \in new : \E y \in hosts[h] : x.bits = y.bits
      BY <2>9, <3>2
    <3> HIDE DEF new
    <3> QED
      BY <2>0, <2>2, <3>1, <3>3, <3>4
  <2>4. CASE \E d \in hosts[h] : hosts' = [hosts EXCEPT ![h] = @ \ {d}] /\ ran' = ran
    <3>1. PICK d \in hosts[h] : hosts' = [hosts EXCEPT ![h] = hosts[h] \ {d}] /\ ran' = ran
      BY <2>4
    <3>2. hosts[h] \ {d} \in SUBSET Droplet
      BY <2>9
    <3> QED
      BY <2>0, <2>2, <3>1, <3>2
  <2>5. CASE /\ hosts' = [hosts EXCEPT ![h] = @ \cup {[answer |-> "up", bits |-> changes']}]
             /\ ran' = [p \in Pages |-> [ran[p] EXCEPT ![h] = @ \cup {changes'}]]
    <3> DEFINE new == [answer |-> "up", bits |-> changes']
    <3>1. new \in Droplet /\ new.bits = changes' /\ changes' \in Bits
      BY <2>1 DEF Droplet, Answers, Bits
    <3>2. hosts' = [hosts EXCEPT ![h] = @ \cup {new}]
      BY <2>5
    <3> HIDE DEF new
    <3>3. WorldTyped'
      BY <1>0, <2>0, <2>1, <3>1, <3>2 DEF WorldTyped
    <3>4. /\ ran' \in [Pages -> [Hosts -> SUBSET Bits]]
          /\ \A p \in Pages : \A g \in Hosts : /\ ran[p][g] \subseteq ran'[p][g]
                                               /\ g = h => changes' \in ran'[p][g]
      BY <1>0, <2>5, <3>1 DEF SeenTyped
    <3>5. \A g \in Hosts : \A d \in hosts'[g] : d \in hosts[g] \/ (g = h /\ d = new)
      BY <1>0, <3>2 DEF WorldTyped
    <3>6. ASSUME NEW p \in Pages, NEW g \in Hosts
          PROVE  \A d \in hosts'[g] : d.bits \in ran'[p][g]
      <4>1. ran[p][g] \subseteq ran'[p][g] /\ (g = h => changes' \in ran'[p][g])
        BY <3>4
      <4>2. \A d \in hosts[g] : d.bits \in ran[p][g]
        BY <1>0 DEF SeenTyped
      <4>3. \A d \in hosts'[g] : d \in hosts[g] \/ (g = h /\ d = new)
        BY <3>5
      <4> QED
        BY <3>1, <4>1, <4>2, <4>3, Zenon
    <3>7. SeenTyped'
      BY <1>0, <2>0, <3>4, <3>6 DEF SeenTyped
    <3> QED
      BY <2>0, <3>3, <3>4, <3>7
  <2> QED
    BY <1>2, <2>3, <2>4, <2>5 DEF ChangeHost
<1> QED
  BY <1>1, <1>2

LEMMA TableKept ==
  ASSUME TableInv, [Next]_vars
  PROVE  TableInv'
<1>1. CASE UNCHANGED vars
  <2>1. /\ PagesTyped' /\ WorldTyped' /\ SeenTyped'
    BY <1>1 DEF vars, world, progress, seen, TableInv, PagesTyped, WorldTyped, SeenTyped
  <2>2. \A p \in Pages : InWork(p)'
    BY <1>1 DEF vars, progress, TableInv, InWork, Probing, Host, Column
  <2> QED
    BY <2>1, <2>2 DEF TableInv
<1>2. CASE Submit \/ \E h \in Hosts : ChangeHost(h)
  <2>1. WorldTyped' /\ SeenTyped' /\ UNCHANGED <<pc, header, progress>>
    BY <1>2, OutsideTyped
  <2>2. PagesTyped'
    BY <2>1 DEF progress, TableInv, PagesTyped
  <2>3. \A p \in Pages : InWork(p)'
    BY <2>1 DEF progress, TableInv, InWork, Probing, Host, Column
  <2> QED
    BY <2>1, <2>2, <2>3 DEF TableInv
<1>3. ASSUME NEW p \in Pages, Render(p)
      PROVE  TableInv'
  <2>0. PagesTyped /\ WorldTyped /\ SeenTyped /\ UNCHANGED world /\ SeenTyped'
    BY <1>3, RenderSeen DEF TableInv
  <2>1. PagesTyped' /\ InWork(p)'
    BY <1>3, RenderTyped
  <2>2. ASSUME NEW q \in Pages \ {p}
        PROVE  InWork(q)'
    <3>1. InWork(q)
      BY DEF TableInv
    <3> QED
      BY <1>3, <2>0, <3>1, OthersKept DEF InWork, Probing, Host, Column
  <2>3. WorldTyped'
    BY <2>0 DEF world, WorldTyped
  <2> QED
    BY <2>0, <2>1, <2>2, <2>3 DEF TableInv
<1> QED
  BY <1>1, <1>2, <1>3 DEF Next

\* At any moment of any renderings: the invariant above.
THEOREM TableInvariant == Spec => []TableInv
<1>1. Init => TableInv
  BY TableStart
<1>2. TableInv /\ [Next]_vars => TableInv'
  BY TableKept
<1> QED
  BY <1>1, <1>2, PTL DEF Spec

\* Every reachable state of the renderings is well typed.
THEOREM TableTypeCorrect == Spec => []TypeOK
<1>1. TableInv => TypeOK
  <2> SUFFICES ASSUME TableInv
               PROVE  TypeOK
    OBVIOUS
  <2>1. /\ environments \in Configs /\ submits \in 0..MaxSubmits /\ changes \in 0..MaxChanges
        /\ hosts \in [Hosts -> SUBSET Droplet] /\ ran \in [Pages -> [Hosts -> SUBSET Bits]]
        /\ pc \in [Pages -> Places] /\ \A p \in Pages : inForce[p] \subseteq Configs
    BY DEF TableInv, WorldTyped, SeenTyped, PagesTyped
  <2>2. ASSUME NEW p \in Pages
        PROVE  /\ header[p] \in Seq(Envs \cup {Blank}) /\ cols[p] \in Seq(Envs \cup {Blank})
               /\ rows[p] \in Seq(Rows) /\ apps[p] \in Seq(Names)
               /\ cells[p] \in Seq(Detail) /\ detail[p] \in Detail
               /\ pc[p] = "health" => apps[p] # <<>> /\ Len(cells[p]) < Len(cols[p])
               /\ \A i \in DOMAIN table[p] : table[p][i].cells \in Seq(Detail)
    <3>1. /\ cells[p] \in Seq(Complete) /\ table[p] \in Seq(TableRow) /\ InWork(p)
      BY DEF TableInv, PagesTyped
    <3>2. \A s \in Seq(Complete) : s \in Seq(Detail)
      BY Numbers
    <3>3. \A i \in DOMAIN table[p] : table[p][i].cells \in Seq(Complete)
      <4>1. \A i \in DOMAIN table[p] : table[p][i] \in TableRow
        BY <3>1
      <4> QED
        BY <4>1 DEF TableRow
    <3>4. header[p] \in Columns /\ cols[p] \in Columns
      BY DEF TableInv, PagesTyped
    <3>5. rows[p] \in Seq(Rows) /\ apps[p] \in Seq(Names) /\ detail[p] \in Detail
      BY DEF TableInv, PagesTyped
    <3> QED
      BY <3>1, <3>2, <3>3, <3>4, <3>5 DEF Columns, InWork, Probing
  <2> QED
    BY <2>1, <2>2 DEF TypeOK, Places
<1> QED
  BY <1>1, TableInvariant, PTL

\* A cell shown as running has a version and an uptime, whichever of the two
\* requests failed.
THEOREM TableRunningIsComplete == Spec => []RunningIsComplete
<1>1. TableInv => RunningIsComplete
  <2> SUFFICES ASSUME TableInv, NEW p \in Pages, NEW i \in DOMAIN table[p],
                      NEW k \in DOMAIN table[p][i].cells
               PROVE  table[p][i].cells[k] \in Complete
    BY DEF RunningIsComplete, Complete
  <2>1. table[p] \in Seq(TableRow)
    BY DEF TableInv, PagesTyped
  <2>2. table[p][i].cells \in Seq(Complete)
    <3>1. table[p][i] \in TableRow
      BY <2>1
    <3> QED
      BY <3>1 DEF TableRow
  <2> QED
    BY <2>2
<1> QED
  BY <1>1, TableInvariant, PTL

-----------------------------------------------------------------------------
(* Recent cells *)

\* Detail d is that of droplets host h has run since page p began.
Recent(p, d, h) == h \in Hosts /\ {d.version, d.upTime} \ {None} \subseteq ran[p][h]

\* Cells of application a, each below its column of the list columns.
CellsRecent(p, list, a, columns) == \A k \in DOMAIN list : Recent(p, list[k], <<a, columns[k]>>)

\* A row of the table has the columns of one configuration the page has seen.
Whole(p, row) ==
  \E c \in inForce[p] : /\ Len(row.cells) = Len(EnvList(c))
                        /\ CellsRecent(p, row.cells, row.app, EnvList(c))

\* What a page has collected.
Fits(p) ==
  /\ pc[p] # "new" => \E c \in inForce[p] : header[p] = EnvList(c)
  /\ Probing(p) => /\ \E c \in inForce[p] : cols[p] = EnvList(c)
                   /\ CellsRecent(p, cells[p], Head(apps[p]), cols[p])
  /\ pc[p] = "metrics" => Recent(p, detail[p], Host(p))
  /\ \A i \in DOMAIN table[p] : Whole(p, table[p][i])

\* While a page does nothing itself it sees no less.
SeesMore(p) ==
  /\ pc'[p] = pc[p] /\ header'[p] = header[p] /\ rows'[p] = rows[p] /\ cols'[p] = cols[p]
  /\ apps'[p] = apps[p] /\ cells'[p] = cells[p] /\ detail'[p] = detail[p] /\ table'[p] = table[p]
  /\ inForce[p] \subseteq inForce'[p] /\ \A h \in Hosts : ran[p][h] \subseteq ran'[p][h]

LEMMA FitsGrows ==
  ASSUME NEW p, Fits(p), SeesMore(p)
  PROVE  Fits(p)'
<1>1. \A d, h : Recent(p, d, h) => Recent(p, d, h)'
  BY DEF Recent, SeesMore
<1>2. ASSUME NEW list, NEW a, NEW columns, CellsRecent(p, list, a, columns)
      PROVE  CellsRecent(p, list, a, columns)'
  BY <1>1, <1>2, Zenon DEF CellsRecent
<1>3. ASSUME NEW row, Whole(p, row)
      PROVE  Whole(p, row)'
  <2>1. PICK c \in inForce[p] : /\ Len(row.cells) = Len(EnvList(c))
                                /\ CellsRecent(p, row.cells, row.app, EnvList(c))
    BY <1>3, Zenon DEF Whole
  <2>2. c \in inForce'[p]
    BY DEF SeesMore
  <2>3. CellsRecent(p, row.cells, row.app, EnvList(c))'
    BY <1>2, <2>1
  <2> QED
    BY <2>1, <2>2, <2>3 DEF Whole
<1>4. (pc[p] # "new" => \E c \in inForce[p] : header[p] = EnvList(c))'
  BY Zenon DEF Fits, SeesMore
<1>5. (Probing(p) => \E c \in inForce[p] : cols[p] = EnvList(c))'
  BY Zenon DEF Fits, SeesMore, Probing
<1>6. (Probing(p) => CellsRecent(p, cells[p], Head(apps[p]), cols[p]))'
  <2>1. Probing(p)' => CellsRecent(p, cells[p], Head(apps[p]), cols[p])
    BY DEF Fits, SeesMore, Probing
  <2>2. PICK list, a, columns : list = cells[p] /\ a = Head(apps[p]) /\ columns = cols[p]
    OBVIOUS
  <2>3. list = cells'[p] /\ a = Head(apps'[p]) /\ columns = cols'[p]
    BY <2>2 DEF SeesMore
  <2>4. Probing(p)' => CellsRecent(p, list, a, columns)'
    BY <1>2, <2>1, <2>2
  <2> QED
    BY <2>3, <2>4
<1>7. (pc[p] = "metrics" => Recent(p, detail[p], Host(p)))'
  <2>1. Host(p)' = Host(p)
    BY DEF SeesMore, Host, Column
  <2>2. PICK d, h : d = detail[p] /\ h = Host(p)
    OBVIOUS
  <2>3. d = detail'[p] /\ h = Host(p)'
    BY <2>1, <2>2 DEF SeesMore
  <2>4. pc'[p] = "metrics" => Recent(p, d, h)'
    BY <1>1, <2>2 DEF Fits, SeesMore
  <2> QED
    BY <2>3, <2>4
<1>8. (\A i \in DOMAIN table[p] : Whole(p, table[p][i]))'
  <2>1. PICK list : list = table[p]
    OBVIOUS
  <2>2. list = table'[p]
    BY <2>1 DEF SeesMore
  <2>3. \A i \in DOMAIN list : Whole(p, list[i])
    BY <2>1 DEF Fits
  <2>4. ASSUME NEW i \in DOMAIN list
        PROVE  Whole(p, list[i])'
    <3>1. PICK row : row = list[i]
      OBVIOUS
    <3>2. Whole(p, row)
      BY <2>3, <3>1
    <3>3. Whole(p, row)'
      BY <1>3, <3>2
    <3> QED
      BY <3>1, <3>3
  <2> QED
    BY <2>2, <2>4
<1> QED
  BY <1>4, <1>5, <1>6, <1>7, <1>8 DEF Fits

\* A recent cell is added below its column.
LEMMA AddCellRecent ==
  ASSUME TableInv, NEW p \in Pages, NEW d \in Complete, Probing(p), AddCell(p, d),
         Fits(p), Recent(p, d, Host(p))
  PROVE  Fits(p)'
<1> DEFINE done == Append(cells[p], d)
           full == Len(done) = Len(cols[p])
           a    == Head(apps[p])
<1>0. /\ PagesTyped /\ cells[p] \in Seq(Complete) /\ table[p] \in Seq(TableRow) /\ cols[p] \in Columns
      /\ apps[p] \in Seq(Names) /\ Len(cells[p]) < Len(cols[p]) /\ Len(cells[p]) \in Nat
  BY DEF TableInv, PagesTyped, InWork
<1>1. done \in Seq(Complete) /\ Len(done) = Len(cells[p]) + 1
  BY <1>0, Lists
<1>2. /\ done[Len(cells[p]) + 1] = d
      /\ \A k \in DOMAIN done : k # Len(cells[p]) + 1 => k \in DOMAIN cells[p] /\ done[k] = cells[p][k]
  BY <1>0
<1>3. PICK c \in inForce[p] : cols[p] = EnvList(c)
  BY Zenon DEF Fits
<1>4. CellsRecent(p, done, a, cols[p])
  <2> SUFFICES ASSUME NEW k \in DOMAIN done
               PROVE  Recent(p, done[k], <<a, cols[p][k]>>)
    BY DEF CellsRecent
  <2>1. CASE k = Len(cells[p]) + 1
    BY <1>2, <2>1 DEF Host, Column
  <2>2. CASE k # Len(cells[p]) + 1
    BY <1>2, <2>2 DEF Fits, CellsRecent
  <2> QED
    BY <2>1, <2>2
<1>5. /\ cells' = [cells EXCEPT ![p] = IF full THEN <<>> ELSE done]
      /\ table' = IF full THEN [table EXCEPT ![p] = Append(@, [app |-> a, cells |-> done])] ELSE table
      /\ apps' = IF full THEN [apps EXCEPT ![p] = Tail(@)] ELSE apps
      /\ pc' = [pc EXCEPT ![p] = IF full /\ Len(apps[p]) = 1 THEN "row" ELSE "health"]
      /\ UNCHANGED <<header, cols, inForce, ran>>
  BY DEF AddCell, seen
<1>6. /\ pc'[p] \in {"row", "health"} /\ pc[p] # "new"
      /\ cells'[p] = IF full THEN <<>> ELSE done
      /\ apps'[p] = IF full THEN Tail(apps[p]) ELSE apps[p]
      /\ table'[p] = IF full THEN Append(table[p], [app |-> a, cells |-> done]) ELSE table[p]
  BY <1>0, <1>5 DEF PagesTyped, Probing
<1>7. \A list, b, columns : CellsRecent(p, list, b, columns) => CellsRecent(p, list, b, columns)'
  BY <1>5 DEF CellsRecent, Recent
<1>8. \A row : Whole(p, row) => Whole(p, row)'
  BY <1>5, <1>7, Zenon DEF Whole
<1> HIDE DEF done
<1>9. CellsRecent(p, cells[p], Head(apps[p]), cols[p])'
  <2>1. CASE full
    <3>1. cells'[p] = <<>>
      BY <1>6, <2>1
    <3>2. DOMAIN cells'[p] = {}
      BY <3>1
    <3> QED
      BY <3>2 DEF CellsRecent
  <2>2. CASE ~ full
    <3>1. cells'[p] = done /\ apps'[p] = apps[p] /\ cols'[p] = cols[p]
      BY <1>5, <1>6, <2>2
    <3>2. PICK b, columns : b = a /\ columns = cols[p]
      OBVIOUS
    <3>3. CellsRecent(p, done, b, columns)
      BY <1>4, <3>2
    <3> QED
      BY <1>5, <3>1, <3>2, <3>3 DEF CellsRecent, Recent
  <2> QED
    BY <2>1, <2>2
<1>10. (\A i \in DOMAIN table[p] : Whole(p, table[p][i]))'
  <2>1. PICK row : row = [app |-> a, cells |-> done]
    OBVIOUS
  <2>2. full => Whole(p, row)
    <3>1. row.app = a /\ row.cells = done
      BY <2>1
    <3> QED
      BY <1>3, <1>4, <3>1, Zenon DEF Whole
  <2>3. PICK list : list = table'[p]
    OBVIOUS
  <2>4. \A i \in DOMAIN list : (i \in DOMAIN table[p] /\ list[i] = table[p][i]) \/ (full /\ list[i] = row)
    <3>1. CASE full
      BY <1>0, <1>6, <2>1, <2>3, <3>1
    <3>2. CASE ~ full
      BY <1>6, <2>3, <3>2
    <3> QED
      BY <3>1, <3>2
  <2>5. \A i \in DOMAIN table[p] : Whole(p, table[p][i])
    BY DEF Fits
  <2>6. ASSUME NEW i \in DOMAIN list
        PROVE  Whole(p, list[i])'
    <3>1. PICK r : r = list[i]
      OBVIOUS
    <3>2. Whole(p, r)
      BY <2>2, <2>4, <2>5, <3>1, Zenon
    <3>3. Whole(p, r)'
      BY <1>8, <3>2
    <3> QED
      BY <3>1, <3>3
  <2> QED
    BY <2>3, <2>6
<1>11. (\E c1 \in inForce[p] : header[p] = EnvList(c1))' /\ (\E c1 \in inForce[p] : cols[p] = EnvList(c1))'
  BY <1>3, <1>5, <1>6, Zenon DEF Fits
<1>12. pc'[p] # "metrics"
  BY <1>6
<1> QED
  BY <1>9, <1>10, <1>11, <1>12 DEF Fits

\* What the page p does, other than to begin, keeps what it has collected.
LEMMA FitsRender ==
  ASSUME TableInv, NEW p \in Pages, Render(p), ~ Load(p), Fits(p)
  PROVE  Fits(p)'
<1>0. /\ PagesTyped /\ InWork(p) /\ environments \in inForce[p] /\ pc[p] # "new"
      /\ header' = header /\ inForce' = inForce /\ ran' = ran
  <2>1. UNCHANGED <<header, seen>>
    BY RenderSeen
  <2>2. pc[p] # "new"
    BY DEF Render, StartTable, NextRow, EndTable, Health, Metrics
  <2> QED
    BY <2>1, <2>2 DEF TableInv, SeenTyped, seen
<1>1. (\E c \in inForce[p] : header[p] = EnvList(c))'
  BY <1>0, Zenon DEF Fits
<1>2. \A list, a, columns : CellsRecent(p, list, a, columns) => CellsRecent(p, list, a, columns)'
  BY <1>0 DEF CellsRecent, Recent
<1>3. \A row : Whole(p, row) => Whole(p, row)'
  BY <1>0, <1>2, Zenon DEF Whole
<1>4. ASSUME table'[p] = table[p] \/ table'[p] = <<>>
      PROVE  (\A i \in DOMAIN table[p] : Whole(p, table[p][i]))'
  <2>1. CASE table'[p] = <<>>
    <3>1. DOMAIN table'[p] = {}
      BY <2>1
    <3> QED
      BY <3>1
  <2>2. CASE table'[p] = table[p]
    <3>1. PICK list : list = table[p]
      OBVIOUS
    <3>2. \A i \in DOMAIN list : Whole(p, list[i])
      BY <3>1 DEF Fits
    <3>3. ASSUME NEW i \in DOMAIN list
          PROVE  Whole(p, list[i])'
      <4>1. PICK r : r = list[i]
        OBVIOUS
      <4>2. Whole(p, r)'
        BY <1>3, <3>2, <4>1
      <4> QED
        BY <4>1, <4>2
    <3> QED
      BY <2>2, <3>1, <3>3
  <2> QED
    BY <1>4, <2>1, <2>2
<1>5. CASE StartTable(p) \/ EndTable(p)
  <2>1. pc'[p] \in {"row", "shown"} /\ table' = table
    BY <1>0, <1>5 DEF StartTable, EndTable, PagesTyped, progress
  <2> QED
    BY <1>1, <1>4, <2>1 DEF Fits, Probing
<1>6. CASE NextRow(p)
  <2>1. /\ pc'[p] \in {"row", "health"} /\ table' = table /\ cells'[p] = <<>>
        /\ cols'[p] = EnvList(environments)
    BY <1>0, <1>6 DEF NextRow, PagesTyped, InWork
  <2>2. (\E c \in inForce[p] : cols[p] = EnvList(c))'
    BY <1>0, <2>1
  <2>3. DOMAIN cells'[p] = {}
    BY <2>1
  <2>4. CellsRecent(p, cells[p], Head(apps[p]), cols[p])'
    BY <2>3 DEF CellsRecent
  <2> QED
    BY <1>1, <1>4, <2>1, <2>2, <2>4 DEF Fits
<1>7. CASE Health(p)
  <2>0. pc[p] = "health" /\ Probing(p)
    BY <1>7 DEF Health, Probing
  <2>1. CASE /\ pc' = [pc EXCEPT ![p] = "shown"] /\ table' = [table EXCEPT ![p] = <<>>]
             /\ UNCHANGED <<header, rows, cols, apps, cells, detail>>
    <3>1. pc'[p] = "shown" /\ table'[p] = <<>>
      BY <1>0, <2>1 DEF PagesTyped
    <3> QED
      BY <1>1, <1>4, <3>1 DEF Fits, Probing
  <2>2. CASE ~ Throws(p) /\ AddCell(p, NoDetail)
    <3>1. Recent(p, NoDetail, Host(p))
      BY <2>0, <2>2, HostProbed DEF Recent, NoDetail
    <3> QED
      BY <2>0, <2>2, <3>1, AddCellRecent, Numbers
  <2>3. CASE /\ ~ Throws(p)
             /\ \E d \in Answering(p) :
                  /\ pc' = [pc EXCEPT ![p] = "metrics"] /\ detail' = [detail EXCEPT ![p] = Started(d)]
                  /\ UNCHANGED <<header, rows, cols, apps, cells, table, seen>>
    <3>0. PICK d \in Answering(p) :
            /\ pc' = [pc EXCEPT ![p] = "metrics"] /\ detail' = [detail EXCEPT ![p] = Started(d)]
            /\ UNCHANGED <<header, rows, cols, apps, cells, table>>
      BY <2>3
    <3>1. Host(p) \in Hosts /\ d.bits \in ran[p][Host(p)]
      BY <2>0, <2>3, HostProbed, AnswerTyped
    <3>2. pc'[p] = "metrics" /\ detail'[p] = Started(d)
      BY <1>0, <3>0 DEF PagesTyped
    <3>3. Host(p)' = Host(p)
      BY <3>0 DEF Host, Column
    <3>4. Recent(p, Started(d), Host(p))
      BY <3>1 DEF Recent, Started
    <3>5. Recent(p, detail[p], Host(p))'
      <4>1. PICK x, h : x = Started(d) /\ h = Host(p)
        OBVIOUS
      <4>2. x = detail'[p] /\ h = Host(p)'
        BY <3>2, <3>3, <4>1
      <4>3. Recent(p, x, h)'
        BY <1>0, <3>4, <4>1 DEF Recent
      <4> QED
        BY <4>2, <4>3
    <3>6. (\E c \in inForce[p] : cols[p] = EnvList(c))'
      BY <1>0, <2>0, <3>0, Zenon DEF Fits
    <3>7. CellsRecent(p, cells[p], Head(apps[p]), cols[p])'
      BY <1>0, <2>0, <3>0 DEF Fits, CellsRecent, Recent
    <3>8. table'[p] = table[p]
      BY <3>0
    <3> QED
      BY <1>1, <1>4, <3>5, <3>6, <3>7, <3>8 DEF Fits
  <2> QED
    BY <1>7, <2>1, <2>2, <2>3, HealthCases
<1>8. CASE Metrics(p)
  <2>0. pc[p] = "metrics" /\ Probing(p) /\ Recent(p, detail[p], Host(p))
    BY <1>8 DEF Metrics, Probing, Fits
  <2>1. PICK d \in Complete : /\ AddCell(p, d) /\ d.version = detail[p].version
                              /\ d.upTime = None \/ d.upTime \in ran[p][Host(p)]
    BY <1>8, MetricsCell
  <2>2. Recent(p, d, Host(p))
    BY <2>0, <2>1 DEF Recent
  <2> QED
    BY <2>0, <2>1, <2>2, AddCellRecent
<1> QED
  BY <1>5, <1>6, <1>7, <1>8 DEF Render

\* A page that is not the one that takes a step.
LEMMA SeesNoLess ==
  ASSUME TableInv, [Next]_vars, NEW p \in Pages, ~ Render(p)
  PROVE  SeesMore(p)
<1>1. CASE UNCHANGED vars
  BY <1>1 DEF vars, world, progress, seen, SeesMore
<1>2. CASE Submit \/ \E h \in Hosts : ChangeHost(h)
  BY <1>2, OutsideTyped DEF progress, SeesMore
<1>3. ASSUME NEW q \in Pages, Render(q)
      PROVE  SeesMore(p)
  <2>1. p \in Pages \ {q}
    BY <1>3
  <2> QED
    BY <1>3, <2>1, OthersKept DEF TableInv, SeesMore
<1> QED
  BY <1>1, <1>2, <1>3 DEF Next

\* A page that begins has seen one configuration, and collected nothing.
LEMMA Begun ==
  ASSUME TableInv, NEW p \in Pages, Load(p)
  PROVE  /\ pc'[p] = "header" /\ table'[p] = <<>> /\ rows'[p] = <<>> /\ environments \in inForce'[p]
         /\ header'[p] = EnvList(environments)
<1>1. PagesTyped /\ SeenTyped /\ InWork(p)
  BY DEF TableInv
<1> QED
  BY <1>1 DEF Load, progress, PagesTyped, SeenTyped, InWork

\* At any moment of any renderings: what a page has collected.
THEOREM TableIsRecent == Spec => [](\A p \in Pages : Fits(p))
<1>1. Init => \A p \in Pages : Fits(p)
  <2> SUFFICES ASSUME Init, NEW p \in Pages
               PROVE  Fits(p)
    OBVIOUS
  <2>1. pc[p] = "new" /\ DOMAIN table[p] = {}
    BY DEF Init
  <2> QED
    BY <2>1 DEF Fits, Probing
<1>2. TableInv /\ (\A p \in Pages : Fits(p)) /\ [Next]_vars => (\A p \in Pages : Fits(p))'
  <2> SUFFICES ASSUME TableInv, [Next]_vars, NEW p \in Pages, Fits(p)
               PROVE  Fits(p)'
    OBVIOUS
  <2>1. CASE Load(p)
    <3>1. pc'[p] = "header" /\ DOMAIN table'[p] = {} /\ \E c \in inForce'[p] : header'[p] = EnvList(c)
      BY <2>1, Begun
    <3> QED
      BY <3>1 DEF Fits, Probing
  <2>2. CASE Render(p) /\ ~ Load(p)
    BY <2>2, FitsRender
  <2>3. CASE ~ Render(p)
    BY <2>3, SeesNoLess, FitsGrows
  <2> QED
    BY <2>1, <2>2, <2>3
<1> QED
  BY <1>1, <1>2, TableInvariant, PTL DEF Spec

\* A row has the cells of one configuration in force since its page began, and a cell
\* shows droplets that answered there since then, whatever is submitted or deployed.
THEOREM TableCellsAreRecent == Spec => []CellsAreRecent
<1>1. (\A p \in Pages : Fits(p)) => CellsAreRecent
  BY Zenon DEF Fits, Whole, CellsRecent, Recent, CellsAreRecent
<1> QED
  BY <1>1, TableIsRecent, PTL

-----------------------------------------------------------------------------
(* The table and the configuration *)

LEMMA AppsOfTyped ==
  ASSUME NEW list \in Seq(TableRow)
  PROVE  AppsOf(list) \in Seq(Names) /\ (list = <<>> => AppsOf(list) = <<>>)
<1>1. DOMAIN list = 1..Len(list) /\ Len(list) \in Nat /\ \A i \in 1..Len(list) : list[i] \in TableRow
  OBVIOUS
<1>2. \A i \in 1..Len(list) : list[i].app \in Names
  BY <1>1 DEF TableRow, Names
<1> QED
  BY <1>1, <1>2 DEF AppsOf

LEMMA AppsOfAppend ==
  ASSUME NEW list \in Seq(TableRow), NEW row \in TableRow
  PROVE  AppsOf(Append(list, row)) = Append(AppsOf(list), row.app)
<1>1. /\ Append(list, row) \in Seq(TableRow) /\ Len(Append(list, row)) = Len(list) + 1 /\ Len(list) \in Nat
      /\ Append(list, row)[Len(list) + 1] = row /\ \A i \in 1..Len(list) : Append(list, row)[i] = list[i]
  OBVIOUS
<1>2. AppsOf(list) \in Seq(Names) /\ row.app \in Names /\ AppsOf(Append(list, row)) \in Seq(Names)
  BY <1>1, AppsOfTyped DEF TableRow, Names
<1>3. Len(AppsOf(list)) = Len(list) /\ \A i \in 1..Len(list) : AppsOf(list)[i] = list[i].app
  BY <1>2 DEF AppsOf
<1> DEFINE longer == Append(list, row)
           want == Append(AppsOf(list), row.app)
<1>4. /\ want \in Seq(Names) /\ Len(want) = Len(list) + 1
      /\ want[Len(list) + 1] = row.app /\ \A i \in 1..Len(list) : want[i] = list[i].app
  BY <1>1, <1>2, <1>3, AppendProperties
<1>5. AppsOf(longer) = [i \in 1..(Len(list) + 1) |-> longer[i].app]
  <2>1. DOMAIN longer = 1..(Len(list) + 1)
    BY <1>1
  <2> QED
    BY <2>1 DEF AppsOf
<1> HIDE DEF longer, want
<1>6. Len(AppsOf(longer)) = Len(list) + 1 /\ AppsOf(longer) \in Seq(Names)
  BY <1>1, <1>2, <1>5 DEF longer
<1>7. ASSUME NEW i \in 1..(Len(list) + 1)
      PROVE  AppsOf(longer)[i] = want[i]
  <2>1. i = Len(list) + 1 \/ i \in 1..Len(list)
    BY <1>1
  <2> QED
    BY <1>1, <1>4, <1>5, <2>1 DEF longer
<1>8. AppsOf(longer) = want
  BY <1>4, <1>6, <1>7, SeqEqual
<1> QED
  BY <1>8 DEF longer, want

LEMMA AskedFirst ==
  ASSUME NEW list \in Seq(Rows)
  PROVE  /\ Asked(list) \in Seq(Names) /\ (list = <<>> => Asked(list) = <<>>)
         /\ list # <<>> => Asked(list) = Head(list).names \o Asked(Tail(list))
<1> DEFINE names == [i \in DOMAIN list |-> list[i].names]
<1>1. /\ DOMAIN list = 1..Len(list) /\ Len(list) \in Nat /\ \A i \in 1..Len(list) : list[i] \in Rows
      /\ list = <<>> <=> Len(list) = 0
  OBVIOUS
<1>2. \A i \in 1..Len(list) : list[i].names \in Seq(Names)
  BY <1>1 DEF Rows
<1>3. names \in Seq(Seq(Names)) /\ Len(names) = Len(list) /\ \A i \in 1..Len(list) : names[i] = list[i].names
  BY <1>1, <1>2
<1>4. Asked(list) = FlattenSeq(names)
  BY DEF Asked
<1>5. list # <<>> => Asked(Tail(list)) = FlattenSeq(Tail(names)) /\ Head(names) = Head(list).names
  <2> SUFFICES ASSUME list # <<>>
               PROVE  Asked(Tail(list)) = FlattenSeq(Tail(names)) /\ Head(names) = Head(list).names
    OBVIOUS
  <2>1. /\ Tail(list) \in Seq(Rows) /\ Len(Tail(list)) = Len(list) - 1 /\ Head(list) = list[1] /\ Len(list) # 0
        /\ \A i \in 1..(Len(list) - 1) : Tail(list)[i] = list[i + 1]
        /\ DOMAIN Tail(list) = 1..(Len(list) - 1)
    BY <1>1
  <2> HIDE DEF names
  <2>2. /\ Tail(names) \in Seq(Seq(Names)) /\ Len(Tail(names)) = Len(list) - 1 /\ Head(names) = names[1]
        /\ \A i \in 1..(Len(list) - 1) : Tail(names)[i] = names[i + 1]
        /\ Tail(names) = [i \in 1..(Len(list) - 1) |-> Tail(names)[i]]
    <3>1. names \in Seq(Seq(Names)) /\ Len(names) = Len(list) /\ Len(list) # 0 /\ names # <<>>
      BY <1>1, <1>3, <2>1
    <3>2. /\ Tail(names) \in Seq(Seq(Names)) /\ Len(Tail(names)) = Len(list) - 1 /\ Head(names) = names[1]
          /\ \A i \in 1..(Len(list) - 1) : Tail(names)[i] = names[i + 1]
      BY <1>1, <3>1, HeadTailProperties
    <3>3. \A t \in Seq(Seq(Names)) : t = [i \in 1..Len(t) |-> t[i]]
      OBVIOUS
    <3>4. Tail(names) = [i \in 1..Len(Tail(names)) |-> Tail(names)[i]]
      BY <3>2, <3>3
    <3> QED
      BY <3>2, <3>4
  <2>3. \A i \in 1..(Len(list) - 1) : Tail(names)[i] = Tail(list)[i].names
    BY <1>1, <1>3, <2>1, <2>2
  <2>4. Tail(names) = [i \in DOMAIN Tail(list) |-> Tail(list)[i].names]
    BY <2>1, <2>2, <2>3
  <2>5. Head(names) = Head(list).names
    BY <1>1, <1>3, <2>1, <2>2
  <2> QED
    BY <2>4, <2>5 DEF Asked
<1> HIDE DEF names
<1>6. list = <<>> <=> names = <<>>
  BY <1>1, <1>3
<1> QED
  BY <1>3, <1>4, <1>5, <1>6, FlattenTyped, FlattenFirst

\* The next of some applications goes to the end of those that are done.
LEMMA MovedOver ==
  ASSUME NEW S, NEW x \in Seq(S), NEW a \in Seq(S), NEW y \in Seq(S), a # <<>>
  PROVE  Append(x, Head(a)) \o (Tail(a) \o y) = x \o (a \o y)
<1>1. Head(a) \in S /\ Tail(a) \in Seq(S) /\ <<Head(a)>> \in Seq(S)
  OBVIOUS
<1>2. Append(x, Head(a)) = x \o <<Head(a)>>
  BY <1>1, AppendIsConcat
<1>3. a = <<Head(a)>> \o Tail(a)
  OBVIOUS
<1>4. \A u, v, w \in Seq(S) : (u \o v) \o w = u \o (v \o w)
  BY ConcatAssociative
<1>5. Tail(a) \o y \in Seq(S)
  BY <1>1, ConcatProperties
<1>6. (x \o <<Head(a)>>) \o (Tail(a) \o y) = x \o (<<Head(a)>> \o (Tail(a) \o y))
  BY <1>1, <1>4, <1>5
<1>7. <<Head(a)>> \o (Tail(a) \o y) = (<<Head(a)>> \o Tail(a)) \o y
  BY <1>1, <1>4
<1> QED
  BY <1>2, <1>3, <1>6, <1>7

\* The rows a page asks are of a configuration it has seen, and so are their names.
Seen(p, row) == \E c \in inForce[p] : \E j \in DOMAIN c : row = c[j]
Known(p) ==
  /\ \A i \in DOMAIN rows[p] : Seen(p, rows[p][i])
  /\ Probing(p) => \A i \in DOMAIN apps[p] : apps[p][i] \in Range(Head(rows[p]).names)

\* The applications in the table, in work and to be asked are those of one
\* configuration, unless one without environments came in between.
Lined(p) ==
  /\ Known(p)
  /\ (\A c \in inForce[p] : EnvList(c) # <<>>) =>
       /\ pc[p] = "row" => \E c \in inForce[p] : AppsOf(table[p]) \o Asked(rows[p]) = Asked(c)
       /\ Probing(p) =>
            \E c \in inForce[p] : AppsOf(table[p]) \o (apps[p] \o Asked(Tail(rows[p]))) = Asked(c)
       /\ pc[p] = "shown" => \/ \E c \in inForce[p] : AppsOf(table[p]) = Asked(c)
                             \/ table[p] = <<>> /\ \E c \in inForce[p] : Odd(c)

\* What a page has seen once, also in a list that has lost its head or in another state.
LEMMA SeenGrows ==
  ASSUME NEW p, inForce[p] \subseteq inForce'[p],
         \A i \in DOMAIN rows'[p] : \E k \in DOMAIN rows[p] : rows'[p][i] = rows[p][k],
         \A i \in DOMAIN rows[p] : Seen(p, rows[p][i])
  PROVE  (\A i \in DOMAIN rows[p] : Seen(p, rows[p][i]))'
<1>1. \A row : Seen(p, row) => Seen(p, row)'
  BY DEF Seen
<1>2. PICK list : list = rows'[p]
  OBVIOUS
<1>3. ASSUME NEW i \in DOMAIN list
      PROVE  Seen(p, list[i])'
  <2>1. PICK k \in DOMAIN rows[p] : list[i] = rows[p][k]
    BY <1>2
  <2>2. PICK row : row = list[i]
    OBVIOUS
  <2>3. Seen(p, row)'
    BY <1>1, <2>1, <2>2
  <2> QED
    BY <2>2, <2>3
<1> QED
  BY <1>2, <1>3

LEMMA LinedGrows ==
  ASSUME NEW p, Lined(p), SeesMore(p)
  PROVE  Lined(p)'
<1>1. Known(p)'
  <2>1. (\A i \in DOMAIN rows[p] : Seen(p, rows[p][i]))'
    BY SeenGrows DEF Lined, Known, SeesMore
  <2>2. (Probing(p) => \A i \in DOMAIN apps[p] : apps[p][i] \in Range(Head(rows[p]).names))'
    <3>1. rows'[p] = rows[p] /\ apps'[p] = apps[p] /\ Probing(p)' = Probing(p)
      BY DEF SeesMore, Probing
    <3>2. Probing(p) => \A i \in DOMAIN apps[p] : apps[p][i] \in Range(Head(rows[p]).names)
      BY DEF Lined, Known
    <3> QED
      BY <3>1, <3>2
  <2> QED
    BY <2>1, <2>2 DEF Known
<1>2. (\A c \in inForce'[p] : EnvList(c) # <<>>) => (\A c \in inForce[p] : EnvList(c) # <<>>)
  BY DEF SeesMore
<1>3. pc'[p] = pc[p] /\ Probing(p)' = Probing(p) /\ table'[p] = table[p] /\ rows'[p] = rows[p]
      /\ apps'[p] = apps[p] /\ inForce[p] \subseteq inForce'[p]
  BY DEF SeesMore, Probing
<1> QED
  BY <1>1, <1>2, <1>3, Zenon DEF Lined

\* A page whose request cannot be made has seen an odd configuration.
LEMMA ThrowsIsOdd ==
  ASSUME TableInv, NEW p \in Pages, Probing(p), Throws(p), Fits(p), Known(p)
  PROVE  \E c \in inForce[p] : Odd(c)
<1>0. /\ cells[p] \in Seq(Complete) /\ cols[p] \in Columns /\ Len(cells[p]) < Len(cols[p])
      /\ apps[p] \in Seq(Names) /\ apps[p] # <<>> /\ rows[p] \in Seq(Rows) /\ rows[p] # <<>>
  BY DEF TableInv, PagesTyped, InWork
<1>1. CASE Column(p) = Blank
  <2>1. PICK c \in inForce[p] : cols[p] = EnvList(c)
    BY <1>1, Zenon DEF Fits
  <2>2. Len(cells[p]) + 1 \in DOMAIN cols[p]
    BY <1>0, Lists DEF Columns
  <2>3. Blank \in Range(EnvList(c))
    BY <1>1, <2>1, <2>2 DEF Column, Range
  <2> QED
    BY <2>3 DEF Odd
<1>2. 1 \in DOMAIN rows[p] /\ Head(rows[p]) = rows[p][1]
  BY <1>0
<1>6. PICK c \in inForce[p] : \E j \in DOMAIN c : Head(rows[p]) = c[j]
  BY <1>2 DEF Known, Seen
<1>3. PICK j \in DOMAIN c : Head(rows[p]) = c[j]
  BY <1>6
<1>4. CASE ~ Head(rows[p]).hasCom
  BY <1>3, <1>4 DEF Odd
<1>5. CASE Head(apps[p]) = Blank
  <2>1. 1 \in DOMAIN apps[p] /\ Head(apps[p]) = apps[p][1]
    BY <1>0
  <2>2. Blank \in Range(c[j].names)
    BY <1>3, <1>5, <2>1 DEF Known
  <2> QED
    BY <2>2 DEF Odd
<1> QED
  BY <1>1, <1>4, <1>5 DEF Throws

\* A cell, and perhaps a row, is added to the table, or none.
LEMMA AddCellLined ==
  ASSUME TableInv, NEW p \in Pages, NEW d \in Complete, Probing(p), Host(p) \in Hosts,
         AddCell(p, d), Lined(p)
  PROVE  Lined(p)'
<1> DEFINE done == Append(cells[p], d)
           full == Len(done) = Len(cols[p])
           last == full /\ Len(apps[p]) = 1
           row  == [app |-> Head(apps[p]), cells |-> done]
<1>0. /\ PagesTyped /\ cells[p] \in Seq(Complete) /\ table[p] \in Seq(TableRow)
      /\ apps[p] \in Seq(Names) /\ apps[p] # <<>> /\ rows[p] \in Seq(Rows) /\ rows[p] # <<>>
  BY DEF TableInv, PagesTyped, InWork
<1>1. /\ done \in Seq(Complete) /\ Head(apps[p]) \in Apps /\ Tail(apps[p]) \in Seq(Names)
      /\ Len(Tail(apps[p])) = Len(apps[p]) - 1 /\ Tail(rows[p]) \in Seq(Rows)
  <2>1. Head(apps[p]) \in Apps
    BY DEF Host, Hosts
  <2> QED
    BY <1>0, <2>1, Lists
<1>2. /\ table' = IF full THEN [table EXCEPT ![p] = Append(@, row)] ELSE table
      /\ apps' = IF full THEN [apps EXCEPT ![p] = Tail(@)] ELSE apps
      /\ rows' = IF last THEN [rows EXCEPT ![p] = Tail(@)] ELSE rows
      /\ pc' = [pc EXCEPT ![p] = IF last THEN "row" ELSE "health"]
      /\ inForce' = inForce
  BY DEF AddCell, seen
<1>3. row \in TableRow /\ row.app = Head(apps[p])
  BY <1>1 DEF TableRow
<1> DEFINE A == AppsOf(table[p])
           R == Asked(Tail(rows[p]))
<1>4. A \in Seq(Names) /\ R \in Seq(Names)
  BY <1>0, <1>1, AppsOfTyped, AskedFirst
<1> HIDE DEF done, row
<1>5. /\ table'[p] = IF full THEN Append(table[p], row) ELSE table[p]
      /\ apps'[p] = IF full THEN Tail(apps[p]) ELSE apps[p]
      /\ rows'[p] = IF last THEN Tail(rows[p]) ELSE rows[p]
      /\ pc'[p] = IF last THEN "row" ELSE "health"
  BY <1>0, <1>2 DEF PagesTyped
<1>6. Known(p)'
  <2>1. \A i \in DOMAIN rows'[p] : \E k \in DOMAIN rows[p] : rows'[p][i] = rows[p][k]
    <3>1. \A i \in DOMAIN Tail(rows[p]) : i + 1 \in DOMAIN rows[p] /\ Tail(rows[p])[i] = rows[p][i + 1]
      BY <1>0
    <3>2. CASE last
      <4>1. rows'[p] = Tail(rows[p])
        BY <1>5, <3>2
      <4> QED
        BY <3>1, <4>1
    <3>3. CASE ~ last
      <4>1. rows'[p] = rows[p]
        BY <1>5, <3>3
      <4> QED
        BY <4>1
    <3> QED
      BY <3>2, <3>3
  <2>2. (\A i \in DOMAIN rows[p] : Seen(p, rows[p][i]))'
    BY <1>2, <2>1, SeenGrows DEF Lined, Known
  <2>3. Probing(p)' => rows'[p] = rows[p]
    BY <1>5 DEF Probing
  <2>4. \A i \in DOMAIN apps'[p] : \E k \in DOMAIN apps[p] : apps'[p][i] = apps[p][k]
    <3>1. \A i \in DOMAIN Tail(apps[p]) : i + 1 \in DOMAIN apps[p] /\ Tail(apps[p])[i] = apps[p][i + 1]
      BY <1>0
    <3>2. CASE full
      <4>1. apps'[p] = Tail(apps[p])
        BY <1>5, <3>2
      <4> QED
        BY <3>1, <4>1
    <3>3. CASE ~ full
      <4>1. apps'[p] = apps[p]
        BY <1>5, <3>3
      <4> QED
        BY <4>1
    <3> QED
      BY <3>2, <3>3
  <2>5. (Probing(p) => \A i \in DOMAIN apps[p] : apps[p][i] \in Range(Head(rows[p]).names))'
    BY <2>3, <2>4, Zenon DEF Lined, Known
  <2> QED
    BY <2>2, <2>5 DEF Known
<1> SUFFICES ASSUME \A c \in inForce[p] : EnvList(c) # <<>>
             PROVE  /\ (pc[p] = "row" => \E c \in inForce[p] : AppsOf(table[p]) \o Asked(rows[p]) = Asked(c))'
                    /\ (Probing(p) =>
                         \E c \in inForce[p] : AppsOf(table[p]) \o (apps[p] \o Asked(Tail(rows[p]))) = Asked(c))'
  <2>1. pc'[p] # "shown" /\ ((\A c \in inForce[p] : EnvList(c) # <<>>)' <=> \A c \in inForce[p] : EnvList(c) # <<>>)
    BY <1>2, <1>5
  <2> QED
    BY <1>6, <2>1, Zenon DEF Lined
<1>7. PICK c \in inForce[p] : A \o (apps[p] \o R) = Asked(c)
  BY Zenon DEF Lined
<1>8. c \in inForce'[p]
  BY <1>2
<1>9. CASE ~ full
  <2>1. table'[p] = table[p] /\ apps'[p] = apps[p] /\ rows'[p] = rows[p] /\ pc'[p] = "health"
    BY <1>5, <1>9
  <2> QED
    BY <1>7, <1>8, <2>1, Zenon
<1>10. CASE full
  <2>1. table'[p] = Append(table[p], row) /\ apps'[p] = Tail(apps[p])
    BY <1>5, <1>10
  <2>2. AppsOf(table'[p]) = Append(A, Head(apps[p])) /\ AppsOf(table'[p]) \in Seq(Names)
    <3>1. AppsOf(Append(table[p], row)) = Append(A, Head(apps[p]))
      BY <1>0, <1>3, AppsOfAppend
    <3> HIDE DEF A
    <3>2. Append(A, Head(apps[p])) \in Seq(Names)
      BY <1>1, <1>4, AppendProperties DEF Names
    <3> QED
      BY <2>1, <3>1, <3>2
  <2> HIDE DEF A, R
  <2>3. AppsOf(table'[p]) \o (apps'[p] \o R) = Asked(c)
    <3>1. Append(A, Head(apps[p])) \o (Tail(apps[p]) \o R) = A \o (apps[p] \o R)
      <4>1. \A x, a, y \in Seq(Names) : a # <<>> => Append(x, Head(a)) \o (Tail(a) \o y) = x \o (a \o y)
        BY MovedOver
      <4> QED
        BY <1>0, <1>4, <4>1
    <3> QED
      BY <1>7, <2>1, <2>2, <3>1
  <2>4. CASE last
    <3>1. pc'[p] = "row" /\ rows'[p] = Tail(rows[p])
      BY <1>5, <2>4
    <3>2. apps'[p] = <<>>
      <4>1. Tail(apps[p]) \in Seq(Names) /\ Len(Tail(apps[p])) = 0
        BY <1>1, <2>4
      <4>2. \A list \in Seq(Names) : Len(list) = 0 => list = <<>>
        BY Lists
      <4> QED
        BY <2>1, <4>1, <4>2
    <3>3. apps'[p] \o R = R
      BY <1>4, <3>2, ConcatEmptySeq
    <3>4. AppsOf(table'[p]) \o Asked(rows'[p]) = Asked(c)
      BY <2>3, <3>1, <3>3 DEF R
    <3> QED
      BY <1>8, <3>1, <3>4 DEF Probing
  <2>5. CASE ~ last
    <3>1. pc'[p] = "health" /\ rows'[p] = rows[p]
      BY <1>5, <2>5
    <3>2. AppsOf(table'[p]) \o (apps'[p] \o Asked(Tail(rows'[p]))) = Asked(c)
      BY <2>3, <3>1 DEF R
    <3> QED
      BY <1>8, <3>1, <3>2
  <2> QED
    BY <2>4, <2>5
<1> QED
  BY <1>9, <1>10

\* The rows follow one configuration, or are taken away together.
LEMMA LinedRender ==
  ASSUME TableInv, NEW p \in Pages, Render(p), ~ Load(p), Fits(p), Lined(p)
  PROVE  Lined(p)'
<1>0. /\ PagesTyped /\ InWork(p) /\ rows[p] \in Seq(Rows) /\ table[p] \in Seq(TableRow)
      /\ environments \in Seq(Rows) /\ environments \in inForce[p] /\ inForce' = inForce /\ Known(p)
  <2>1. UNCHANGED <<header, seen>>
    BY RenderSeen
  <2> QED
    BY <2>1, ConfigTyped DEF TableInv, PagesTyped, WorldTyped, SeenTyped, seen, Lined
<1>1. CASE StartTable(p)
  <2>1. /\ pc[p] = "header" /\ pc'[p] = "row" /\ table' = table /\ rows'[p] = environments
    BY <1>0, <1>1 DEF StartTable, PagesTyped
  <2>2. AppsOf(table'[p]) = <<>>
    <3>1. table'[p] = <<>>
      BY <1>0, <2>1 DEF InWork
    <3> QED
      BY <1>0, <2>1, <3>1, AppsOfTyped
  <2>3. AppsOf(table'[p]) \o Asked(rows'[p]) = Asked(environments)
    BY <1>0, <2>1, <2>2, AskedFirst, ConcatEmptySeq
  <2>4. Known(p)'
    BY <1>0, <2>1 DEF Known, Probing, Seen
  <2> QED
    BY <1>0, <2>1, <2>3, <2>4 DEF Lined, Probing
<1>2. CASE NextRow(p)
  <2>0. /\ pc[p] = "row" /\ rows[p] # <<>> /\ table' = table /\ cols'[p] = EnvList(environments)
    BY <1>0, <1>2 DEF NextRow, PagesTyped
  <2>1. /\ Tail(rows[p]) \in Seq(Rows) /\ Head(rows[p]).names \in Seq(Names)
        /\ Asked(rows[p]) = Head(rows[p]).names \o Asked(Tail(rows[p])) /\ Asked(Tail(rows[p])) \in Seq(Names)
    <3>1. Tail(rows[p]) \in Seq(Rows) /\ Head(rows[p]).names \in Seq(Names)
      BY <1>0, <2>0, RowTyped
    <3> QED
      BY <1>0, <2>0, <3>1, AskedFirst
  <2>2. CASE cols'[p] = <<>> \/ Head(rows[p]).names = <<>>
    <3>1. pc' = pc /\ rows'[p] = Tail(rows[p])
      BY <1>0, <1>2, <2>2 DEF NextRow, PagesTyped
    <3>2. Known(p)'
      <4>1. \A i \in DOMAIN Tail(rows[p]) : i + 1 \in DOMAIN rows[p] /\ Tail(rows[p])[i] = rows[p][i + 1]
        BY <1>0, <2>0
      <4>2. \A i \in DOMAIN rows'[p] : \E k \in DOMAIN rows[p] : rows'[p][i] = rows[p][k]
        BY <3>1, <4>1
      <4>3. (\A i \in DOMAIN rows[p] : Seen(p, rows[p][i]))'
        BY <1>0, <4>2, SeenGrows DEF Known
      <4> QED
        BY <2>0, <3>1, <4>3 DEF Known, Probing
    <3>3. CASE cols'[p] = <<>>
      BY <1>0, <2>0, <3>1, <3>2, <3>3 DEF Lined, Probing
    <3>4. CASE Head(rows[p]).names = <<>>
      <4>1. Asked(rows'[p]) = Asked(rows[p])
        BY <2>1, <3>1, <3>4, ConcatEmptySeq
      <4> QED
        BY <1>0, <2>0, <3>1, <3>2, <4>1 DEF Lined, Probing
    <3> QED
      BY <2>2, <3>3, <3>4
  <2>3. CASE ~ (cols'[p] = <<>> \/ Head(rows[p]).names = <<>>)
    <3>1. pc'[p] = "health" /\ apps'[p] = Head(rows[p]).names /\ rows'[p] = rows[p]
      BY <1>0, <1>2, <2>3 DEF NextRow, PagesTyped
    <3>2. Known(p)'
      <4>1. \A i \in DOMAIN apps'[p] : apps'[p][i] \in Range(Head(rows'[p]).names)
        BY <3>1 DEF Range
      <4>2. (\A i \in DOMAIN rows[p] : Seen(p, rows[p][i]))'
        BY <1>0, <3>1, SeenGrows DEF Known
      <4> QED
        BY <4>1, <4>2 DEF Known
    <3>3. apps'[p] \o Asked(Tail(rows'[p])) = Asked(rows[p])
      BY <2>1, <3>1
    <3> QED
      BY <1>0, <2>0, <3>1, <3>2, <3>3, Zenon DEF Lined, Probing
  <2> QED
    BY <2>2, <2>3
<1>3. CASE EndTable(p)
  <2>1. pc[p] = "row" /\ rows[p] = <<>> /\ pc'[p] = "shown" /\ table' = table /\ rows' = rows
    BY <1>0, <1>3 DEF EndTable, PagesTyped, progress
  <2>2. AppsOf(table[p]) \o Asked(rows[p]) = AppsOf(table[p])
    <3>1. AppsOf(table[p]) \in Seq(Names) /\ Asked(rows[p]) = <<>>
      BY <1>0, <2>1, AppsOfTyped, AskedFirst
    <3> QED
      BY <3>1, ConcatEmptySeq
  <2>3. Known(p)'
    BY <1>0, <2>1 DEF Known, Probing, Seen
  <2> QED
    BY <1>0, <2>1, <2>2, <2>3 DEF Lined, Probing
<1>4. CASE Health(p)
  <2>0. pc[p] = "health" /\ Probing(p)
    BY <1>4 DEF Health, Probing
  <2>1. CASE /\ Throws(p) /\ pc' = [pc EXCEPT ![p] = "shown"] /\ table' = [table EXCEPT ![p] = <<>>]
             /\ UNCHANGED <<header, rows, cols, apps, cells, detail>>
    <3>1. pc'[p] = "shown" /\ table'[p] = <<>>
      BY <1>0, <2>1 DEF PagesTyped
    <3>2. \E c \in inForce[p] : Odd(c)
      BY <1>0, <2>0, <2>1, ThrowsIsOdd
    <3>3. Known(p)'
      BY <1>0, <2>1, <3>1 DEF Known, Probing, Seen
    <3> QED
      BY <1>0, <3>1, <3>2, <3>3 DEF Lined, Probing
  <2>2. CASE ~ Throws(p) /\ AddCell(p, NoDetail)
    BY <2>0, <2>2, HostProbed, AddCellLined, Numbers
  <2>3. CASE \E d \in Answering(p) :
               /\ pc' = [pc EXCEPT ![p] = "metrics"] /\ detail' = [detail EXCEPT ![p] = Started(d)]
               /\ UNCHANGED <<header, rows, cols, apps, cells, table, seen>>
    <3>1. pc'[p] = "metrics" /\ UNCHANGED <<rows, apps, table>>
      BY <1>0, <2>3 DEF PagesTyped
    <3>2. Known(p)'
      BY <1>0, <2>0, <3>1 DEF Known, Probing, Seen
    <3> QED
      BY <1>0, <2>0, <3>1, <3>2 DEF Lined, Probing
  <2> QED
    BY <1>4, <2>1, <2>2, <2>3, HealthCases
<1>5. CASE Metrics(p)
  <2>1. PICK d \in Complete : AddCell(p, d)
    BY <1>5, MetricsCell
  <2>2. Probing(p) /\ Host(p) \in Hosts
    BY <1>0, <1>5 DEF Metrics, Probing, InWork
  <2> QED
    BY <2>1, <2>2, AddCellLined
<1> QED
  BY <1>1, <1>2, <1>3, <1>4, <1>5 DEF Render

\* The header is that of one configuration the page has seen, and the rows are those of
\* one, or none because of an odd one, whatever is submitted while it is rendered.
THEOREM TableIsAligned == Spec => []TableAligned
<1> DEFINE All == \A p \in Pages : Lined(p)
           Fit == \A p \in Pages : Fits(p)
<1>1. Init => All
  <2> SUFFICES ASSUME Init, NEW p \in Pages
               PROVE  Lined(p)
    OBVIOUS
  <2>1. pc[p] = "new" /\ DOMAIN rows[p] = {}
    BY DEF Init
  <2> QED
    BY <2>1 DEF Lined, Known, Probing
<1>2. TableInv /\ Fit /\ All /\ [Next]_vars => All'
  <2> SUFFICES ASSUME TableInv, [Next]_vars, NEW p \in Pages, Fits(p), Lined(p)
               PROVE  Lined(p)'
    OBVIOUS
  <2>1. CASE Load(p)
    <3>1. pc'[p] = "header" /\ DOMAIN rows'[p] = {}
      BY <2>1, Begun
    <3> QED
      BY <3>1 DEF Lined, Known, Probing
  <2>2. CASE Render(p) /\ ~ Load(p)
    BY <2>2, LinedRender
  <2>3. CASE ~ Render(p)
    BY <2>3, SeesNoLess, LinedGrows
  <2> QED
    BY <2>1, <2>2, <2>3
<1>3. Fit /\ All => TableAligned
  BY Zenon DEF Fits, Lined, TableAligned
<1> HIDE DEF All
<1>4. Spec => []Fit
  BY TableIsRecent
<1> HIDE DEF Fit
<1> QED
  BY <1>1, <1>2, <1>3, <1>4, TableInvariant, PTL DEF Spec
=============================================================================
