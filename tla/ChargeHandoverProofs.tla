-------------------------- MODULE ChargeHandoverProofs --------------------------
(***************************************************************************)
(* The charge handover proved for any battery, any number of grants and any*)
(* number of charges.                                                      *)
(*                                                                         *)
(* RowsApart is inductive.  EnergyCountedOnce is not: an accumulator may   *)
(* carry the energy of a stretch that its row has lost, and what it writes *)
(* next is right only because it starts before its row does (AccOn), which *)
(* in turn needs why the row begins where it does: at the charge's own     *)
(* beginning (its base) or where another row ends (Covered).  What is in   *)
(* the rows is then counted by the cells of the battery that they hold.    *)
(***************************************************************************)
EXTENDS ChargeHandover, NumberLemmas

Accs == [id : Nat, e : Nat, from : Nat, soc : Nat, anchor : Nat \cup {-1}]
States == {"none", "open", "done", "abandoned"}
Rows == [state : States, e : Nat, from : Nat, soc : Nat]
Lates == [tok : Nat, again : BOOLEAN, id : Ids, row : Rows]
Saves == [tok : Nat, acc : Accs]

CHTypes ==
    /\ truck \in [on : BOOLEAN, soc : Nat] /\ epoch \in Nat /\ lastId \in 0 .. MaxId
    /\ owner \in [st : {"off", "held", "warming"}, loaded : BOOLEAN, acc : Accs]
    /\ late \subseteq Lates
    /\ slow \subseteq Saves
    /\ shelf \in [tok : Nat, has : BOOLEAN, acc : Accs]
    /\ charge \in [Ids -> Rows]
    /\ known \in [Ids -> Nat]
    /\ undone \in BOOLEAN

Exists(i) == charge[i].state # "none"

\* Nothing is ahead of the battery, and no number of a charge ahead of the last.
AccReached(a) == a.id <= lastId /\ a.soc <= truck.soc /\ a.anchor <= truck.soc
RowReached(i) ==
    /\ charge[i].soc <= truck.soc
    /\ IF Exists(i) THEN i <= lastId ELSE charge[i] = NoCharge
LateReached(w) == w.id <= lastId /\ w.row.soc <= truck.soc /\ w.row.state = "done"

Reached ==
    /\ AccReached(owner.acc)
    /\ AccReached(shelf.acc) /\ shelf.acc.anchor = -1
    /\ \A s \in slow : AccReached(s.acc) /\ s.acc.anchor = -1
    /\ \A i \in Ids : RowReached(i)
    /\ \A w \in late : LateReached(w)

CHTyped == CHTypes /\ Reached

\* A row's energy fits in its stretch, an accumulator's in the stretch since it began.
RowFits(r) == r.from < r.soc /\ r.e <= r.soc - r.from
AccFits(a) == a.id # 0 => a.from <= a.soc /\ a.e <= a.soc - a.from /\ a.anchor \in {-1, a.soc}

\* Another row reaches as far.
Covered(i, x) == \E j \in Ids \ {i} : Exists(j) /\ charge[j].soc >= x

\* Where the rows and the accumulators of a charge begin, relative to where it began.
RowOn(i, base) == Exists(i) =>
    /\ base[i] <= charge[i].from
    /\ charge[i].from = base[i] \/ Covered(i, charge[i].from)
AccOn(a, base) == a.id # 0 =>
    /\ base[a.id] <= a.from
    /\ a.from <= IF Exists(a.id) THEN charge[a.id].from ELSE base[a.id]
LateOn(w, base) ==
    /\ base[w.id] <= w.row.from
    /\ \/ w.row.from = base[w.id] \/ Covered(w.id, w.row.from)
       \/ Exists(w.id) /\ w.row.from <= charge[w.id].from

Anchored(base) ==
    /\ AccOn(owner.acc, base) /\ AccOn(shelf.acc, base) /\ \A s \in slow : AccOn(s.acc, base)
    /\ \A i \in Ids : RowOn(i, base)
    /\ \A w \in late : LateOn(w, base)

Fitting ==
    /\ AccFits(owner.acc) /\ AccFits(shelf.acc) /\ \A s \in slow : AccFits(s.acc)
    /\ \A i \in Ids : Exists(i) => RowFits(charge[i])
    /\ \A w \in late : RowFits(w.row)

Counts == Fitting /\ \E base \in [Ids -> Nat] : Anchored(base)

CHInv == CHTyped /\ RowsApart /\ (undone \/ Counts)

-----------------------------------------------------------------------------
(***************************************************************************)
(* The operators.                                                          *)
(***************************************************************************)
LEMMA HSettings == MaxSoc \in Nat /\ MaxGrant \in Nat /\ MaxId \in Nat
BY HandoverAssumption

\* The empty accumulator is one, of no charge.
LEMMA NoAccIs == NoAcc \in Accs /\ NoAcc.id = 0 /\ NoAcc.soc = 0 /\ NoAcc.anchor = -1
BY DEF NoAcc, Accs

\* A part of a stretch has no more than its part of the energy.
LEMMA Share ==
    ASSUME NEW e \in Nat, NEW part \in Nat, NEW whole \in Nat, part <= whole, whole > 0
    PROVE  /\ (e * part) \div whole \in Nat
           /\ e <= whole => (e * part) \div whole <= part
<1> DEFINE p == e * part
           q == p \div whole
<1>1. p \in Nat
  OBVIOUS
<1>2. e <= whole => p <= whole * part
  OBVIOUS
<1> HIDE DEF p
<1>3. q \in Nat /\ whole * q <= p
  BY <1>1
<1>4. e <= whole => q <= part
  <2> HIDE DEF q
  <2>1. SUFFICES ASSUME e <= whole, q >= part + 1 PROVE FALSE
    BY <1>3
  <2>2. whole * q >= whole * (part + 1)
    BY <1>3, <2>1
  <2>3. whole * (part + 1) = whole * part + whole
    OBVIOUS
  <2> QED BY <1>1, <1>2, <1>3, <2>1, <2>2, <2>3
<1> QED BY <1>3, <1>4 DEF p

\* What the row of an accumulator is.
LEMMA RowOfIs ==
    ASSUME CHTypes, NEW a \in Accs, a.id \in Ids, Writable(a), NEW st \in {"open", "done"}
    PROVE  /\ RowOf(a, st) \in Rows
           /\ RowOf(a, st).state = st /\ RowOf(a, st).soc = a.soc
           /\ a.from <= RowOf(a, st).from /\ RowOf(a, st).from < a.soc
           /\ \A j \in Overlap(a.id, a.from, a.soc) : charge[j].soc <= RowOf(a, st).from
           /\ \/ RowOf(a, st).from = a.from
              \/ \E j \in Overlap(a.id, a.from, a.soc) : charge[j].soc = RowOf(a, st).from
           /\ a.e <= a.soc - a.from => RowFits(RowOf(a, st))
<1> DEFINE others == Overlap(a.id, a.from, a.soc)
           S == {a.from} \cup {charge[j].soc : j \in others}
           start == Max(S)
           e == IF a.e = 0 THEN a.soc - a.from ELSE a.e
           left == IF start = a.from THEN e ELSE (e * (a.soc - start)) \div (a.soc - a.from)
<1>1. RowOf(a, st) = [state |-> st, from |-> start, soc |-> a.soc, e |-> left]
  BY DEF RowOf
<1>2. a.from \in Nat /\ a.soc \in Nat /\ a.e \in Nat /\ a.from < a.soc
  BY DEF Accs, Writable
<1>3. others \subseteq Ids /\ \A j \in others : charge[j].soc \in Nat /\ charge[j].soc < a.soc
  BY DEF Overlap, Writable, CHTypes, Rows
<1> HIDE DEF others
<1>4. S \in SUBSET Nat /\ S # {} /\ \A y \in S : y <= a.soc
  BY <1>2, <1>3
<1>5. start \in S /\ \A y \in S : y <= start
  <2> HIDE DEF S
  <2> QED BY <1>2, <1>4, MaxIs
<1> HIDE DEF start
<1>6. start \in Nat /\ a.from <= start /\ start < a.soc
  BY <1>2, <1>3, <1>5
<1>7. \A j \in others : charge[j].soc <= start
  BY <1>5
<1>8. start = a.from \/ \E j \in others : charge[j].soc = start
  BY <1>5
<1> HIDE DEF S
<1>9. e \in Nat /\ (a.e <= a.soc - a.from => e <= a.soc - a.from)
  BY <1>2
<1> HIDE DEF e
<1>10. left \in Nat /\ (a.e <= a.soc - a.from => left <= a.soc - start)
  <2>1. CASE start = a.from
    BY <1>9, <2>1
  <2>2. CASE start # a.from
    <3> DEFINE part == a.soc - start
               whole == a.soc - a.from
    <3>1. part \in Nat /\ whole \in Nat /\ part <= whole /\ whole > 0
      BY <1>2, <1>6
    <3>2. left = (e * part) \div whole
      BY <2>2
    <3> HIDE DEF part, whole
    <3>3. left \in Nat /\ (e <= whole => left <= part)
      BY <1>9, <3>1, <3>2, Share
    <3> QED BY <1>9, <3>3 DEF part, whole
  <2> QED BY <2>1, <2>2
<1> HIDE DEF left
<1>11. RowOf(a, st) \in Rows
  BY <1>1, <1>2, <1>6, <1>10 DEF Rows, States
<1>12. a.e <= a.soc - a.from => RowFits(RowOf(a, st))
  BY <1>1, <1>6, <1>10 DEF RowFits
<1> QED BY <1>1, <1>6, <1>7, <1>8, <1>11, <1>12 DEF others

\* What is open last is one charge.
LEMMA LatestIsOne ==
    ASSUME NEW i \in LatestOpen
    PROVE  i \in Ids /\ charge[i].state = "open" /\ LatestOpen = {i}
<1>1. \A j \in LatestOpen : j \in Int
  BY DEF LatestOpen, OpenIds, Ids
<1> QED BY <1>1 DEF LatestOpen, OpenIds

\* A snapshot's energy is raised to the open row's.
LEMMA SeededIs ==
    ASSUME CHTypes, NEW a \in Accs
    PROVE  \E m \in Nat :
              /\ Seeded(a) = [a EXCEPT !.e = m] /\ m >= a.e
              /\ m = a.e \/ (LatestOpen = {a.id} /\ m = charge[a.id].e)
              /\ LatestOpen = {a.id} => m >= charge[a.id].e
<1>1. CASE LatestOpen = {a.id}
  <2>1. a.id \in Ids
    BY <1>1, LatestIsOne
  <2>2. charge[a.id].e \in Nat /\ a.e \in Nat
    BY <2>1 DEF CHTypes, Rows, Accs
  <2> DEFINE m == Max({a.e, charge[a.id].e})
  <2>3. m = IF a.e <= charge[a.id].e THEN charge[a.id].e ELSE a.e
    BY <2>2, MaxOfTwo
  <2>4. Seeded(a) = [a EXCEPT !.e = m]
    BY <1>1 DEF Seeded
  <2> HIDE DEF m
  <2> QED BY <1>1, <2>2, <2>3, <2>4
<1>2. CASE LatestOpen # {a.id}
  <2>1. Seeded(a) = [a EXCEPT !.e = a.e] /\ a.e \in Nat
    BY <1>2 DEF Seeded, Accs
  <2> QED BY <1>2, <2>1
<1> QED BY <1>1, <1>2

-----------------------------------------------------------------------------
(***************************************************************************)
(* What a frame does.                                                      *)
(***************************************************************************)
Alike(r, q) ==
    /\ r.state = "none" <=> q.state = "none"
    /\ r.e = q.e /\ r.from = q.from /\ r.soc = q.soc

\* The rows keep all but their states, or one is written.
Kept == charge' \in [Ids -> Rows] /\ \A j \in Ids : Alike(charge'[j], charge[j])
Written(i, r) ==
    /\ charge' \in [Ids -> Rows]
    /\ Alike(charge'[i], r) /\ \A j \in Ids \ {i} : Alike(charge'[j], charge[j])

\* What is gone on from has counted no more than the battery's gain.
Loose(c) == c.id # 0 =>
    c.from <= truck.soc /\ c.e <= (IF c.anchor < 0 THEN truck.soc ELSE c.anchor) - c.from

\* The accumulator a frame goes on from is one of those that are kept.
LEMMA ContactIs ==
    ASSUME CHTyped, NEW found \in BOOLEAN
    PROVE  /\ Contact(found) \in Accs /\ AccReached(Contact(found))
           /\ Counts => Loose(Contact(found))
           /\ \A base \in [Ids -> Nat] : Anchored(base) => AccOn(Contact(found), base)
<1> USE DEF CHTyped
<1>1. CASE owner.loaded
  <2>1. Contact(found) = owner.acc /\ owner.acc \in Accs /\ AccReached(owner.acc)
    BY <1>1 DEF Contact, CHTypes, Reached
  <2>2. Fitting => Loose(owner.acc)
    <3>1. truck.soc \in Nat
      BY DEF CHTypes
    <3> QED BY <2>1, <3>1 DEF Fitting, Loose, AccFits, Accs, AccReached
  <2> QED BY <2>1, <2>2 DEF Anchored, Counts
<1>2. CASE ~ owner.loaded /\ ~ found
  <2>1. Contact(found) = NoAcc
    BY <1>2 DEF Contact
  <2>2. truck.soc \in Nat /\ lastId \in Nat
    BY DEF CHTypes
  <2> QED BY <2>1, <2>2, NoAccIs DEF AccReached, Loose, AccOn
<1>3. CASE ~ owner.loaded /\ found
  <2> DEFINE a == shelf.acc
             c == Contact(found)
  <2>1. a \in Accs /\ AccReached(a) /\ a.anchor = -1
    BY DEF CHTypes, Reached
  <2>2. truck.soc \in Nat /\ lastId \in 0 .. MaxId /\ charge \in [Ids -> Rows]
    BY DEF CHTypes
  <2>3. c = Seeded(a)
    BY <1>3 DEF Contact
  <2> HIDE DEF a, c
  <2>4. PICK m \in Nat :
              /\ Seeded(a) = [a EXCEPT !.e = m] /\ m >= a.e
              /\ m = a.e \/ (LatestOpen = {a.id} /\ m = charge[a.id].e)
    BY <2>1, SeededIs
  <2>5. c \in Accs /\ c.id = a.id /\ c.e = m /\ c.from = a.from /\ c.soc = a.soc /\ c.anchor = -1
    BY <2>1, <2>3, <2>4 DEF Accs
  <2>6. AccReached(c)
    BY <2>1, <2>5 DEF AccReached
  <2>7. ASSUME NEW base \in [Ids -> Nat], Anchored(base) PROVE AccOn(c, base)
    <3>1. AccOn(a, base)
      BY <2>7 DEF Anchored, a
    <3> QED BY <2>5, <3>1 DEF AccOn
  <2>8. ASSUME Fitting, NEW base \in [Ids -> Nat], Anchored(base), c.id # 0 PROVE Loose(c)
    <3>1. AccFits(a)
      BY <2>8 DEF Fitting, a
    <3>2. a.from \in Nat /\ a.soc \in Nat /\ a.e \in Nat /\ a.soc <= truck.soc
      BY <2>1 DEF Accs, AccReached
    <3>3. CASE m = a.e
      BY <2>2, <2>5, <2>8, <3>1, <3>2, <3>3 DEF Loose, AccFits
    <3>4. CASE LatestOpen = {a.id} /\ m = charge[a.id].e
      <4>1. a.id \in Ids /\ charge[a.id].state = "open"
        BY <3>4, LatestIsOne
      <4>2. Exists(a.id) /\ RowFits(charge[a.id]) /\ charge[a.id].soc <= truck.soc
        BY <2>8, <4>1 DEF Exists, Fitting, Reached, RowReached
      <4>3. a.from <= charge[a.id].from
        BY <2>5, <2>7, <2>8, <4>2 DEF AccOn
      <4>4. charge[a.id].from \in Nat /\ charge[a.id].soc \in Nat /\ charge[a.id].e \in Nat
        BY <2>2, <4>1 DEF Rows
      <4> QED BY <2>2, <2>5, <3>2, <3>4, <4>2, <4>3, <4>4 DEF Loose, RowFits
    <3> QED BY <2>4, <3>3, <3>4
  <2>9. c.id = 0 => Loose(c)
    BY DEF Loose
  <2>10. Counts => Loose(c)
    BY <2>8, <2>9 DEF Counts
  <2> QED BY <2>5, <2>6, <2>7, <2>10 DEF c
<1> QED BY <1>1, <1>2, <1>3

\* A frame counts the battery's gain.
LEMMA CountedIs ==
    ASSUME CHTyped, NEW c \in Accs, AccReached(c)
    PROVE  /\ Counted(c) \in Accs
           /\ Counted(c).id = c.id /\ Counted(c).from = c.from
           /\ Counted(c).soc = truck.soc /\ Counted(c).anchor = truck.soc
           /\ c.anchor = -1 => Counted(c).e = c.e
           /\ c.id # 0 /\ Loose(c) => Counted(c).e <= truck.soc - c.from
<1> DEFINE e == IF c.anchor < 0 THEN c.e ELSE c.e + (truck.soc - c.anchor)
<1>1. c \in [id : Nat, e : Nat, from : Nat, soc : Nat, anchor : Nat \cup {-1}] /\ truck.soc \in Nat
  BY DEF Accs, CHTyped, CHTypes
<1>2. Counted(c) = [c EXCEPT !.e = e, !.soc = truck.soc, !.anchor = truck.soc]
  BY DEF Counted
<1>3. e \in Nat /\ (c.anchor = -1 => e = c.e) /\ (c.id # 0 /\ Loose(c) => e <= truck.soc - c.from)
  BY <1>1 DEF AccReached, Loose
<1> HIDE DEF e
<1> QED BY <1>1, <1>2, <1>3 DEF Accs

\* The open row is resumed, or a charge begins.
Resumed(i) ==
    /\ i \in Ids /\ LatestOpen = {i} /\ Exists(i) /\ i <= lastId /\ Opened.id = i
    /\ Opened.from = charge[i].from /\ Opened.e = charge[i].e + (truck.soc - charge[i].soc)
Begins ==
    /\ LatestOpen = {} /\ Opened.id = lastId + 1
    /\ Opened.e = 0 /\ Opened.from = truck.soc

\* The accumulator a charge opens with begins a row or resumes one.
LEMMA OpenedIs ==
    ASSUME CHTyped
    PROVE  /\ Opened \in Accs /\ Opened.soc = truck.soc /\ Opened.anchor = truck.soc
           /\ Begins \/ \E i \in Ids : Resumed(i)
<1>1. truck.soc \in Nat /\ lastId \in Nat /\ charge \in [Ids -> Rows]
  BY DEF CHTyped, CHTypes
<1>2. CASE LatestOpen = {}
  <2>1. Opened = [id |-> lastId + 1, e |-> 0, from |-> truck.soc, soc |-> truck.soc, anchor |-> truck.soc]
    BY <1>2 DEF Opened
  <2> QED BY <1>1, <1>2, <2>1 DEF Begins, Accs
<1>3. CASE LatestOpen # {}
  <2>1. PICK i : i = CHOOSE j \in LatestOpen : TRUE
    OBVIOUS
  <2>2. i \in LatestOpen
    BY <1>3, <2>1
  <2>3. i \in Ids /\ charge[i].state = "open" /\ LatestOpen = {i}
    BY <2>2, LatestIsOne
  <2>4. Opened = [id |-> i, e |-> charge[i].e + (truck.soc - charge[i].soc), from |-> charge[i].from,
                  soc |-> truck.soc, anchor |-> truck.soc]
    BY <1>3, <2>1 DEF Opened
  <2>5. charge[i].e \in Nat /\ charge[i].from \in Nat /\ charge[i].soc \in Nat /\ i \in Nat
    BY <1>1, <2>3 DEF Rows, Ids
  <2>6. Exists(i) /\ i <= lastId /\ charge[i].soc <= truck.soc
    BY <2>3 DEF Exists, CHTyped, Reached, RowReached
  <2>7. charge[i].e + (truck.soc - charge[i].soc) \in Nat
    BY <1>1, <2>5, <2>6
  <2>8. Resumed(i)
    BY <2>3, <2>4, <2>6 DEF Resumed
  <2> QED BY <1>1, <2>3, <2>4, <2>5, <2>7, <2>8 DEF Accs
<1> QED BY <1>2, <1>3

\* An upsert writes the one row.
LEMMA WrittenIs ==
    ASSUME CHTypes, NEW i \in Ids, NEW r \in Rows, charge' = Upserted(i, r)
    PROVE  Written(i, r)
<1>1. charge \in [Ids -> Rows]
  BY DEF CHTypes
<1> QED BY <1>1 DEF Written, Upserted, Alike

\* Closing what else is open changes states only.
LEMMA OnlyOpenIs ==
    ASSUME NEW rows \in [Ids -> Rows], NEW i \in Ids
    PROVE  /\ OnlyOpen(rows, i) \in [Ids -> Rows]
           /\ \A j \in Ids : Alike(OnlyOpen(rows, i)[j], rows[j])
<1>1. ASSUME NEW j \in Ids PROVE OnlyOpen(rows, i)[j] \in Rows /\ Alike(OnlyOpen(rows, i)[j], rows[j])
  <2>1. OnlyOpen(rows, i)[j] = rows[j] \/
          (rows[j].state = "open" /\ OnlyOpen(rows, i)[j] = [rows[j] EXCEPT !.state = "abandoned"])
    BY DEF OnlyOpen
  <2>2. rows[j] \in Rows
    OBVIOUS
  <2> QED BY <2>1, <2>2 DEF Rows, States, Alike
<1> QED BY <1>1 DEF OnlyOpen

\* A frame of a charge: what it does with its accumulator a.
Work(a) ==
    /\ a \in Accs /\ a.id \in Ids /\ a.soc = truck.soc /\ a.anchor <= truck.soc
    /\ lastId' \in Nat /\ lastId <= lastId' /\ lastId' <= MaxId /\ a.id <= lastId'
    /\ MayRecord /\ (Recorded(NoAcc) \/ (a.anchor = truck.soc /\ Recorded(a)))
    /\ \/ Kept /\ UNCHANGED late
       \/ Writable(a) /\ UNCHANGED late /\ \E st \in {"open", "done"} : Written(a.id, RowOf(a, st))
       \/ Writable(a) /\ Kept
          /\ late' = late \cup {[tok |-> epoch, again |-> TRUE, id |-> a.id, row |-> RowOf(a, "done")]}

\* What it counts is true, for the charges' beginnings after it has opened one.
Honest(a) == Counts =>
    /\ a.from <= truck.soc /\ a.e <= truck.soc - a.from
    /\ \E base \in [Ids -> Nat] : Anchored(base) /\ AccOn(a, base)

\* A step that leaves the rows alone keeps them.
LEMMA KeptIs == ASSUME CHTypes, UNCHANGED charge PROVE Kept
BY DEF CHTypes, Kept, Alike

\* The frame that opens a charge works on the accumulator it opened.
LEMMA OpensWorks ==
    ASSUME CHTyped, NEW found \in BOOLEAN, FrameOpens(found)
    PROVE  \E a \in Accs : Work(a) /\ Honest(a)
<1> DEFINE a == Opened
           rows == IF Writable(a) THEN Upserted(a.id, RowOf(a, "open")) ELSE charge
<1>1. /\ MayRecord /\ a.id <= MaxId /\ UNCHANGED late /\ Recorded(a)
      /\ lastId' = Max({lastId, a.id})
      /\ charge' = IF owner.st = "held" THEN OnlyOpen(rows, a.id) ELSE charge
  BY DEF FrameOpens
<1>2. a \in Accs /\ a.soc = truck.soc /\ a.anchor = truck.soc /\ (Begins \/ \E i \in Ids : Resumed(i))
  BY OpenedIs
<1>3. truck.soc \in Nat /\ lastId \in Nat /\ lastId <= MaxId /\ MaxId \in Nat /\ charge \in [Ids -> Rows] /\ CHTypes
  BY HSettings DEF CHTyped, CHTypes
<1>4. a.id \in Ids /\ lastId' = IF lastId <= a.id THEN a.id ELSE lastId
  <2>1. a.id \in Nat /\ a.id # 0
    BY <1>2, <1>3 DEF Begins, Resumed, Accs, Ids
  <2> QED BY <1>1, <1>3, <2>1, MaxOfTwo DEF Ids
<1>5. Kept \/ (Writable(a) /\ Written(a.id, RowOf(a, "open")))
  <2>1. CASE owner.st # "held"
    BY <1>1, <1>3, <2>1, KeptIs
  <2>2. CASE owner.st = "held" /\ ~ Writable(a)
    <3>1. charge' = OnlyOpen(charge, a.id)
      BY <1>1, <2>2
    <3>2. /\ OnlyOpen(charge, a.id) \in [Ids -> Rows]
          /\ \A j \in Ids : Alike(OnlyOpen(charge, a.id)[j], charge[j])
      BY <1>3, <1>4, OnlyOpenIs
    <3> QED BY <3>1, <3>2 DEF Kept
  <2>3. CASE owner.st = "held" /\ Writable(a)
    <3> DEFINE r == RowOf(a, "open")
               up == Upserted(a.id, r)
    <3>1. r \in Rows
      BY <1>2, <1>3, <1>4, <2>3, RowOfIs
    <3> HIDE DEF r, a
    <3>2. up \in [Ids -> Rows] /\ up[a.id] = r /\ \A j \in Ids \ {a.id} : up[j] = charge[j]
      BY <1>3, <1>4, <3>1 DEF Upserted
    <3>3. charge' = OnlyOpen(up, a.id)
      BY <1>1, <2>3 DEF r
    <3> HIDE DEF up
    <3>4. charge' \in [Ids -> Rows] /\ \A j \in Ids : Alike(charge'[j], up[j])
      BY <1>4, <3>2, <3>3, OnlyOpenIs
    <3>5. Written(a.id, r)
      BY <1>4, <3>2, <3>4 DEF Written
    <3> QED BY <2>3, <3>5 DEF r, a
  <2> QED BY <2>1, <2>2, <2>3
<1>6. Work(a)
  <2>1. a.anchor <= truck.soc /\ a.id \in Nat /\ a.id <= MaxId
    BY <1>2, <1>3, <1>4 DEF Ids
  <2> HIDE DEF a
  <2>2. lastId' \in Nat /\ lastId <= lastId' /\ lastId' <= MaxId /\ a.id <= lastId'
    BY <1>3, <1>4, <2>1
  <2> QED BY <1>1, <1>2, <1>4, <1>5, <2>1, <2>2 DEF Work
<1>7. Honest(a)
  <2> SUFFICES ASSUME Counts
               PROVE  /\ a.from <= truck.soc /\ a.e <= truck.soc - a.from
                      /\ \E base \in [Ids -> Nat] : Anchored(base) /\ AccOn(a, base)
    BY DEF Honest
  <2>1. PICK base \in [Ids -> Nat] : Anchored(base)
    BY DEF Counts
  <2>2. CASE \E i \in Ids : Resumed(i)
    <3>1. PICK i \in Ids : Resumed(i)
      BY <2>2
    <3>2. Exists(i) /\ RowFits(charge[i]) /\ RowOn(i, base) /\ charge[i].soc <= truck.soc
      BY <2>1, <3>1 DEF Resumed, Counts, Fitting, Anchored, CHTyped, Reached, RowReached
    <3>3. charge[i].e \in Nat /\ charge[i].from \in Nat /\ charge[i].soc \in Nat
      BY <1>3 DEF Rows
    <3>4. a.id = i /\ a.from = charge[i].from /\ a.e = charge[i].e + (truck.soc - charge[i].soc)
      BY <3>1 DEF Resumed
    <3> HIDE DEF a
    <3>5. AccOn(a, base)
      BY <3>2, <3>3, <3>4 DEF AccOn, RowOn
    <3> QED BY <1>3, <2>1, <3>2, <3>3, <3>4, <3>5 DEF RowFits
  <2>3. CASE Begins
    <3>1. a.id = lastId + 1 /\ a.e = 0 /\ a.from = truck.soc
      BY <2>3 DEF Begins
    <3> HIDE DEF a
    <3> DEFINE b == [base EXCEPT ![a.id] = truck.soc]
    <3>2. b \in [Ids -> Nat] /\ b[a.id] = truck.soc /\ \A i \in Ids : i <= lastId => b[i] = base[i]
      BY <1>3, <1>4, <3>1 DEF Ids
    <3> HIDE DEF b
    <3>3. \A c \in Accs : c.id <= lastId /\ AccOn(c, base) => AccOn(c, b)
      BY <1>3, <3>2 DEF AccOn, Accs, Ids
    <3>4. Anchored(b)
      <4>1. AccOn(owner.acc, b) /\ AccOn(shelf.acc, b)
        <5>1. owner.acc \in Accs /\ owner.acc.id <= lastId /\ shelf.acc \in Accs /\ shelf.acc.id <= lastId
          BY DEF CHTyped, CHTypes, Reached, AccReached
        <5> QED BY <2>1, <3>3, <5>1 DEF Anchored
      <4>2. ASSUME NEW s \in slow PROVE AccOn(s.acc, b)
        <5>1. s.acc \in Accs /\ s.acc.id <= lastId
          BY DEF CHTyped, CHTypes, Saves, Reached, AccReached
        <5> QED BY <2>1, <3>3, <5>1 DEF Anchored
      <4>3. ASSUME NEW i \in Ids PROVE RowOn(i, b)
        <5>1. Exists(i) => i <= lastId
          BY DEF CHTyped, Reached, RowReached
        <5>2. RowOn(i, base)
          BY <2>1 DEF Anchored
        <5> QED BY <3>2, <5>1, <5>2 DEF RowOn
      <4>4. ASSUME NEW w \in late PROVE LateOn(w, b)
        <5>1. w.id \in Ids /\ w.id <= lastId
          BY DEF CHTyped, CHTypes, Lates, Reached, LateReached
        <5>2. LateOn(w, base)
          BY <2>1 DEF Anchored
        <5> QED BY <3>2, <5>1, <5>2 DEF LateOn
      <4> QED BY <4>1, <4>2, <4>3, <4>4 DEF Anchored
    <3>5. ~ Exists(a.id)
      BY <1>3, <1>4, <3>1 DEF CHTyped, Reached, RowReached
    <3>6. AccOn(a, b)
      BY <1>3, <3>1, <3>2, <3>5 DEF AccOn
    <3> QED BY <1>3, <3>1, <3>2, <3>4, <3>6
  <2> QED BY <1>2, <2>2, <2>3
<1> QED BY <1>2, <1>6, <1>7

\* A frame that counts works on the accumulator it counted.
LEMMA CountsWorks ==
    ASSUME CHTyped, NEW found \in BOOLEAN, NEW due \in BOOLEAN, FrameCounts(found, due)
    PROVE  \E a \in Accs : Work(a) /\ Honest(a)
<1> DEFINE c == Contact(found)
           a == Counted(c)
<1>1. /\ MayRecord /\ c.id # 0 /\ Recorded(a) /\ UNCHANGED <<late, lastId>>
      /\ due => Writable(a)
      /\ charge' = IF due THEN Upserted(a.id, RowOf(a, "open")) ELSE charge
  BY DEF FrameCounts
<1>2. c \in Accs /\ AccReached(c) /\ (Counts => Loose(c)) /\ \A base \in [Ids -> Nat] : Anchored(base) => AccOn(c, base)
  BY ContactIs
<1>3. /\ a \in Accs /\ a.id = c.id /\ a.from = c.from /\ a.soc = truck.soc /\ a.anchor = truck.soc
      /\ c.id # 0 /\ Loose(c) => a.e <= truck.soc - c.from
  BY <1>2, CountedIs
<1>4. truck.soc \in Nat /\ lastId \in Nat /\ lastId <= MaxId /\ MaxId \in Nat /\ CHTypes
  BY HSettings DEF CHTyped, CHTypes
<1> HIDE DEF c, a
<1>5. a.id \in Ids /\ a.id <= lastId
  BY <1>1, <1>2, <1>3, <1>4 DEF AccReached, Accs, Ids
<1>6. Work(a)
  <2>1. Kept \/ (Writable(a) /\ Written(a.id, RowOf(a, "open")))
    <3>1. CASE ~ due
      BY <1>1, <1>4, <3>1, KeptIs
    <3>2. CASE due
      <4>1. RowOf(a, "open") \in Rows
        BY <1>1, <1>3, <1>4, <1>5, <3>2, RowOfIs
      <4> QED BY <1>1, <1>4, <1>5, <3>2, <4>1, WrittenIs
    <3> QED BY <3>1, <3>2
  <2>2. a.anchor <= truck.soc /\ lastId' \in Nat /\ lastId <= lastId' /\ lastId' <= MaxId /\ a.id <= lastId'
    BY <1>1, <1>3, <1>4, <1>5
  <2> QED BY <1>1, <1>3, <1>5, <2>1, <2>2 DEF Work
<1>7. Honest(a)
  <2> SUFFICES ASSUME Counts
               PROVE  /\ a.from <= truck.soc /\ a.e <= truck.soc - a.from
                      /\ \E base \in [Ids -> Nat] : Anchored(base) /\ AccOn(a, base)
    BY DEF Honest
  <2>1. PICK base \in [Ids -> Nat] : Anchored(base)
    BY DEF Counts
  <2>2. AccOn(a, base)
    BY <1>2, <1>3, <2>1 DEF AccOn
  <2> QED BY <1>1, <1>2, <1>3, <2>1, <2>2 DEF Loose
<1> QED BY <1>3, <1>6, <1>7

\* The frame that closes a charge works on the accumulator it closes.
LEMMA ClosesWorks ==
    ASSUME CHTyped, NEW found \in BOOLEAN, NEW refused \in BOOLEAN, FrameCloses(found, refused)
    PROVE  \E a \in Accs : Work(a) /\ Honest(a)
<1> DEFINE c == Contact(found)
           a == [c EXCEPT !.soc = truck.soc]
           r == RowOf(a, "done")
           w == [tok |-> epoch, again |-> TRUE, id |-> a.id, row |-> r]
<1>1. /\ MayRecord /\ c.id # 0 /\ Recorded(NoAcc) /\ UNCHANGED lastId
      /\ \/ UNCHANGED <<charge, late>>
         \/ Writable(a) /\ charge' = Upserted(a.id, r) /\ UNCHANGED late
         \/ Writable(a) /\ late' = late \cup {w} /\ UNCHANGED charge
  BY DEF FrameCloses
<1>2. c \in Accs /\ AccReached(c) /\ (Counts => Loose(c)) /\ \A base \in [Ids -> Nat] : Anchored(base) => AccOn(c, base)
  BY ContactIs
<1>3. truck.soc \in Nat /\ lastId \in Nat /\ lastId <= MaxId /\ MaxId \in Nat /\ CHTypes
  BY HSettings DEF CHTyped, CHTypes
<1> HIDE DEF c
<1>4. a \in Accs /\ a.id = c.id /\ a.from = c.from /\ a.soc = truck.soc /\ a.anchor = c.anchor /\ a.e = c.e
  BY <1>2, <1>3 DEF Accs
<1> HIDE DEF a
<1>5. a.id \in Ids /\ a.id <= lastId
  BY <1>1, <1>2, <1>3, <1>4 DEF AccReached, Accs, Ids
<1>6. Work(a)
  <2>1. a.anchor <= truck.soc /\ lastId' \in Nat /\ lastId <= lastId' /\ lastId' <= MaxId /\ a.id <= lastId'
    BY <1>1, <1>2, <1>3, <1>4, <1>5 DEF AccReached
  <2>2. Writable(a) => r \in Rows
    BY <1>3, <1>4, <1>5, RowOfIs
  <2> HIDE DEF r
  <2>3. \/ Kept /\ UNCHANGED late
        \/ Writable(a) /\ UNCHANGED late /\ Written(a.id, r)
        \/ Writable(a) /\ Kept /\ late' = late \cup {w}
    BY <1>1, <1>3, <1>5, <2>2, KeptIs, WrittenIs
  <2> QED BY <1>1, <1>4, <1>5, <2>1, <2>3 DEF Work, r
<1>7. Honest(a)
  <2> SUFFICES ASSUME Counts
               PROVE  /\ a.from <= truck.soc /\ a.e <= truck.soc - a.from
                      /\ \E base \in [Ids -> Nat] : Anchored(base) /\ AccOn(a, base)
    BY DEF Honest
  <2>1. PICK base \in [Ids -> Nat] : Anchored(base)
    BY DEF Counts
  <2>2. AccOn(a, base)
    BY <1>2, <1>4, <2>1 DEF AccOn
  <2>3. a.from \in Nat /\ a.e \in Nat /\ c.anchor \in Nat \cup {-1} /\ c.anchor <= truck.soc
    BY <1>2, <1>4 DEF Accs, AccReached
  <2>4. c.from <= truck.soc /\ c.e <= (IF c.anchor < 0 THEN truck.soc ELSE c.anchor) - c.from
    BY <1>1, <1>2 DEF Loose
  <2> QED BY <1>3, <1>4, <2>1, <2>2, <2>3, <2>4
<1> QED BY <1>4, <1>6, <1>7

-----------------------------------------------------------------------------
(***************************************************************************)
(* The rows.                                                               *)
(***************************************************************************)
\* No row is lost or goes back.
Forward ==
    /\ charge' \in [Ids -> Rows]
    /\ \A j \in Ids : Exists(j) =>
          /\ charge'[j].state # "none"
          /\ charge[j].from <= charge'[j].from /\ charge[j].soc <= charge'[j].soc

\* A row that may be written: apart from the others, and not behind the one before it.
Clear(i, r) == \A j \in Ids \ {i} : Exists(j) => charge[j].soc <= r.from \/ r.soc <= charge[j].from
Higher(i, r) == Exists(i) => charge[i].from <= r.from /\ charge[i].soc <= r.soc

\* Rows that are kept do not go back.
LEMMA KeptForward == ASSUME CHTypes, Kept PROVE Forward
<1>1. \A j \in Ids : charge[j].from \in Nat /\ charge[j].soc \in Nat
  BY DEF CHTypes, Rows
<1> QED BY <1>1 DEF Kept, Forward, Alike, Exists

\* A row that is written over a lower one does not go back.
LEMMA WrittenForward ==
    ASSUME CHTypes, NEW i \in Ids, NEW r \in Rows, r.state # "none", Written(i, r), Higher(i, r)
    PROVE  Forward
<1>1. \A j \in Ids : charge[j].from \in Nat /\ charge[j].soc \in Nat
  BY DEF CHTypes, Rows
<1>2. ASSUME NEW j \in Ids, Exists(j)
      PROVE  /\ charge'[j].state # "none"
             /\ charge[j].from <= charge'[j].from /\ charge[j].soc <= charge'[j].soc
  <2>1. CASE j = i
    BY <1>1, <1>2, <2>1 DEF Written, Higher, Alike
  <2>2. CASE j # i
    BY <1>1, <1>2, <2>2 DEF Written, Alike, Exists
  <2> QED BY <2>1, <2>2
<1> QED BY <1>2 DEF Forward, Written

\* Rows stay apart.
LEMMA KeptApart == ASSUME Kept, RowsApart PROVE RowsApart'
BY DEF Kept, RowsApart, Alike

\* A row written clear of the others leaves the rows apart.
LEMMA WrittenApart ==
    ASSUME NEW i \in Ids, NEW r \in Rows, Written(i, r), Clear(i, r), RowsApart
    PROVE  RowsApart'
<1>1. ASSUME NEW j \in Ids, NEW k \in Ids, j # k, charge'[j].state # "none", charge'[k].state # "none"
      PROVE  charge'[j].soc <= charge'[k].from \/ charge'[k].soc <= charge'[j].from
  <2>1. CASE j = i
    <3>1. Alike(charge'[j], r) /\ Alike(charge'[k], charge[k])
      BY <1>1, <2>1 DEF Written
    <3> QED BY <1>1, <2>1, <3>1 DEF Alike, Clear, Exists
  <2>2. CASE k = i
    <3>1. Alike(charge'[k], r) /\ Alike(charge'[j], charge[j])
      BY <1>1, <2>2 DEF Written
    <3> QED BY <1>1, <2>2, <3>1 DEF Alike, Clear, Exists
  <2>3. CASE j # i /\ k # i
    <3>1. Alike(charge'[k], charge[k]) /\ Alike(charge'[j], charge[j])
      BY <2>3 DEF Written
    <3> QED BY <1>1, <3>1 DEF Alike, RowsApart
  <2> QED BY <2>1, <2>2, <2>3
<1> QED BY <1>1 DEF RowsApart

\* What covers a beginning goes on to.
LEMMA CoveredStays ==
    ASSUME CHTypes, Forward, NEW i \in Ids, NEW x \in Nat, Covered(i, x)
    PROVE  \E j \in Ids \ {i} : charge'[j].state # "none" /\ charge'[j].soc >= x
<1>1. PICK j \in Ids \ {i} : Exists(j) /\ charge[j].soc >= x
  BY DEF Covered
<1>2. charge[j].soc \in Nat /\ charge'[j].soc \in Nat
  BY DEF CHTypes, Forward, Rows
<1>3. charge'[j].state # "none" /\ charge'[j].soc >= x
  BY <1>1, <1>2 DEF Forward
<1> QED BY <1>3

\* The beginnings after a step.
AccOnNext(a, base) == a.id # 0 =>
    /\ base[a.id] <= a.from
    /\ a.from <= IF charge'[a.id].state # "none" THEN charge'[a.id].from ELSE base[a.id]

\* A row that is not written stays on its beginning.
LEMMA RowOnStays ==
    ASSUME CHTypes, Forward, NEW base \in [Ids -> Nat], NEW i \in Ids,
           Alike(charge'[i], charge[i]), RowOn(i, base)
    PROVE  RowOn(i, base)'
<1>1. SUFFICES ASSUME charge'[i].state # "none"
               PROVE  /\ base[i] <= charge'[i].from
                      /\ \/ charge'[i].from = base[i]
                         \/ \E j \in Ids \ {i} : charge'[j].state # "none" /\ charge'[j].soc >= charge'[i].from
  BY DEF RowOn, Covered, Exists
<1>2. Exists(i) /\ charge'[i].from = charge[i].from /\ charge[i].from \in Nat
  BY <1>1 DEF Alike, Exists, CHTypes, Rows
<1>3. Covered(i, charge[i].from) =>
        \E j \in Ids \ {i} : charge'[j].state # "none" /\ charge'[j].soc >= charge[i].from
  BY <1>2, CoveredStays
<1> QED BY <1>2, <1>3 DEF RowOn

\* A row that is written is on its beginning when what was written is.
LEMMA WrittenRowOn ==
    ASSUME CHTypes, Forward, NEW base \in [Ids -> Nat], NEW i \in Ids, NEW r \in Rows, Written(i, r),
           base[i] <= r.from, r.from = base[i] \/ Covered(i, r.from)
    PROVE  RowOn(i, base)'
<1>1. charge'[i].from = r.from /\ r.from \in Nat
  BY DEF Written, Alike, Rows
<1>2. Covered(i, r.from) =>
        \E j \in Ids \ {i} : charge'[j].state # "none" /\ charge'[j].soc >= r.from
  BY <1>1, CoveredStays
<1> QED BY <1>1, <1>2 DEF RowOn, Covered, Exists

\* An accumulator stays on its beginning while the rows go forward.
LEMMA AccOnStays ==
    ASSUME CHTypes, Forward, NEW base \in [Ids -> Nat], \A i \in Ids : RowOn(i, base)',
           NEW a \in Accs, a.id = 0 \/ a.id \in Ids, AccOn(a, base)
    PROVE  AccOnNext(a, base)
<1>1. CASE a.id = 0
  BY <1>1 DEF AccOnNext
<1>2. CASE a.id \in Ids /\ a.id # 0
  <2>1. base[a.id] <= a.from /\ a.from <= IF Exists(a.id) THEN charge[a.id].from ELSE base[a.id]
    BY <1>2 DEF AccOn
  <2>2. charge[a.id].from \in Nat /\ charge'[a.id].from \in Nat /\ base[a.id] \in Nat /\ a.from \in Nat
    BY <1>2 DEF CHTypes, Forward, Rows, Accs
  <2>3. charge'[a.id].state # "none" => base[a.id] <= charge'[a.id].from
    BY <1>2 DEF RowOn, Exists
  <2>4. Exists(a.id) => charge'[a.id].state # "none" /\ charge[a.id].from <= charge'[a.id].from
    BY <1>2 DEF Forward
  <2> QED BY <2>1, <2>2, <2>3, <2>4 DEF AccOnNext
<1> QED BY <1>1, <1>2

\* So does a write that waits for its timer.
LEMMA LateOnStays ==
    ASSUME CHTypes, Forward, NEW base \in [Ids -> Nat], NEW w \in Lates, LateOn(w, base)
    PROVE  LateOn(w, base)'
<1>1. w.id \in Ids /\ w.row.from \in Nat
  BY DEF Lates, Rows
<1>2. Covered(w.id, w.row.from) =>
        \E j \in Ids \ {w.id} : charge'[j].state # "none" /\ charge'[j].soc >= w.row.from
  BY <1>1, CoveredStays
<1>3. Exists(w.id) /\ w.row.from <= charge[w.id].from =>
        charge'[w.id].state # "none" /\ w.row.from <= charge'[w.id].from
  <2>1. charge[w.id].from \in Nat /\ charge'[w.id].from \in Nat
    BY <1>1 DEF CHTypes, Forward, Rows
  <2> QED BY <1>1, <2>1 DEF Forward
<1> QED BY <1>1, <1>2, <1>3 DEF LateOn, Covered, Exists

\* The row that a frame writes, at once or by a timer.
LEMMA WorkRow ==
    ASSUME CHTyped, NEW a \in Accs, a.id \in Ids, a.soc = truck.soc, Writable(a), NEW st \in {"open", "done"},
           NEW base \in [Ids -> Nat], Fitting, Anchored(base), AccOn(a, base)
    PROVE  /\ base[a.id] <= RowOf(a, st).from /\ Higher(a.id, RowOf(a, st))
           /\ \/ RowOf(a, st).from = base[a.id] \/ Covered(a.id, RowOf(a, st).from)
<1> DEFINE r == RowOf(a, st)
           i == a.id
<1>1. CHTypes /\ charge \in [Ids -> Rows] /\ truck.soc \in Nat /\ a.from \in Nat /\ base[i] \in Nat /\ i \in Ids
  BY DEF CHTyped, CHTypes, Accs
<1>2. /\ r.from \in Nat /\ r.soc = truck.soc /\ a.from <= r.from
      /\ \A j \in Overlap(i, a.from, truck.soc) : charge[j].soc <= r.from
      /\ r.from = a.from \/ \E j \in Overlap(i, a.from, truck.soc) : charge[j].soc = r.from
  BY <1>1, RowOfIs DEF Rows
<1> HIDE DEF r
<1>3. i # 0 /\ base[i] <= a.from /\ a.from <= IF Exists(i) THEN charge[i].from ELSE base[i]
  <2>1. a.id # 0
    BY DEF Ids
  <2> QED BY <2>1 DEF AccOn
<1> HIDE DEF i
<1>4. \A j \in Ids : Exists(j) => charge[j].from \in Nat /\ charge[j].soc \in Nat
                                   /\ charge[j].from < charge[j].soc /\ charge[j].soc <= truck.soc
  BY <1>1 DEF Fitting, RowFits, CHTyped, Reached, RowReached, Rows
<1>5. \A j \in Ids \ {i} : Exists(j) /\ charge[j].soc > a.from => j \in Overlap(i, a.from, truck.soc)
  <2>1. ASSUME NEW j \in Ids \ {i}, Exists(j), charge[j].soc > a.from PROVE charge[j].from < truck.soc
    BY <1>1, <1>4, <2>1
  <2> QED BY <2>1 DEF Overlap, Exists
<1>6. Exists(i) => charge[i].from <= r.from
  <2> SUFFICES ASSUME Exists(i) PROVE charge[i].from <= r.from
    OBVIOUS
  <2>1. charge[i].from = base[i] \/ Covered(i, charge[i].from)
    BY <1>1 DEF Anchored, RowOn
  <2>2. charge[i].from \in Nat
    BY <1>1, <1>4
  <2>3. CASE charge[i].from = base[i]
    BY <1>1, <1>2, <1>3, <2>2, <2>3
  <2>4. CASE Covered(i, charge[i].from)
    <3>1. PICK j \in Ids \ {i} : Exists(j) /\ charge[j].soc >= charge[i].from
      BY <2>4 DEF Covered
    <3>2. charge[j].soc \in Nat
      BY <1>4, <3>1
    <3>3. CASE charge[j].soc > a.from
      <4>1. charge[j].soc <= r.from
        BY <1>2, <1>5, <3>1, <3>3
      <4> QED BY <1>2, <2>2, <3>1, <3>2, <4>1
    <3>4. CASE ~ (charge[j].soc > a.from)
      BY <1>1, <1>2, <2>2, <3>1, <3>2, <3>4
    <3> QED BY <3>3, <3>4
  <2> QED BY <2>1, <2>3, <2>4
<1>7. Higher(i, r)
  BY <1>1, <1>2, <1>4, <1>6 DEF Higher
<1>8. r.from = base[i] \/ Covered(i, r.from)
  <2>1. CASE r.from = a.from
    <3>1. CASE Exists(i)
      <4>1. r.from = charge[i].from
        BY <1>1, <1>2, <1>3, <1>4, <1>6, <2>1, <3>1
      <4> QED BY <1>1, <3>1, <4>1 DEF Anchored, RowOn
    <3>2. CASE ~ Exists(i)
      BY <1>1, <1>2, <1>3, <2>1, <3>2
    <3> QED BY <3>1, <3>2
  <2>2. CASE \E j \in Overlap(i, a.from, truck.soc) : charge[j].soc = r.from
    <3>1. PICK j \in Overlap(i, a.from, truck.soc) : charge[j].soc = r.from
      BY <2>2
    <3>2. j \in Ids \ {i} /\ Exists(j) /\ charge[j].soc >= r.from
      BY <1>2, <3>1 DEF Overlap, Exists
    <3> QED BY <3>2 DEF Covered
  <2> QED BY <1>2, <2>1, <2>2
<1>9. base[i] <= r.from
  BY <1>1, <1>2, <1>3
<1> QED BY <1>7, <1>8, <1>9 DEF r, i

\* What a frame writes is apart from the other rows.
LEMMA WorkClear ==
    ASSUME CHTypes, NEW a \in Accs, a.id \in Ids, Writable(a), NEW st \in {"open", "done"}
    PROVE  Clear(a.id, RowOf(a, st))
<1> DEFINE r == RowOf(a, st)
<1>1. /\ r.from \in Nat /\ r.soc = a.soc /\ a.soc \in Nat /\ a.from \in Nat /\ a.from <= r.from
      /\ \A j \in Overlap(a.id, a.from, a.soc) : charge[j].soc <= r.from
  BY RowOfIs DEF Rows, Accs
<1> HIDE DEF r
<1>2. ASSUME NEW j \in Ids \ {a.id}, Exists(j)
      PROVE  charge[j].soc <= r.from \/ r.soc <= charge[j].from
  <2>1. charge[j].soc \in Nat /\ charge[j].from \in Nat
    BY DEF CHTypes, Rows
  <2>2. CASE j \in Overlap(a.id, a.from, a.soc)
    BY <1>1, <2>2
  <2>3. CASE j \notin Overlap(a.id, a.from, a.soc)
    <3>1. ~ (charge[j].soc > a.from /\ charge[j].from < a.soc)
      BY <1>2, <2>3 DEF Overlap, Exists
    <3> QED BY <1>1, <2>1, <3>1
  <2> QED BY <2>2, <2>3
<1> QED BY <1>2 DEF Clear, r

-----------------------------------------------------------------------------
(***************************************************************************)
(* The steps.                                                              *)
(***************************************************************************)
Snap(a) == [a EXCEPT !.anchor = -1]

\* What a snapshot keeps of an accumulator: all but the anchor.
LEMMA SnapIs ==
    ASSUME NEW a \in Accs
    PROVE  /\ Snap(a) \in Accs /\ Snap(a).id = a.id /\ Snap(a).e = a.e /\ Snap(a).from = a.from
           /\ Snap(a).soc = a.soc /\ Snap(a).anchor = -1
BY DEF Snap, Accs

\* A save, in time or late.
LEMMA SavedIs ==
    ASSUME CHTypes, NEW s \in Saves, Saved(s)
    PROVE  /\ known' \in [Ids -> Nat]
           /\ shelf' \in [tok : Nat, has : BOOLEAN, acc : Accs]
           /\ shelf' = shelf \/ shelf'.acc = s.acc
<1>1. s.tok \in Nat /\ s.acc \in Accs /\ s.acc.e \in Nat
  BY DEF Saves, Accs
<1>2. CASE EpochAllows(s)
  <2>1. shelf' = [tok |-> s.tok, has |-> TRUE, acc |-> s.acc]
    BY <1>2 DEF Saved
  <2>2. known' = [i \in Ids |-> IF i = s.acc.id /\ s.tok = epoch THEN s.acc.e ELSE known[i]]
    BY <1>2 DEF Saved
  <2>3. \A i \in Ids : known[i] \in Nat
    BY DEF CHTypes
  <2>4. known' \in [Ids -> Nat]
    BY <1>1, <2>2, <2>3
  <2> QED BY <1>1, <2>1, <2>4
<1>3. CASE ~ EpochAllows(s)
  BY <1>3 DEF Saved, CHTypes
<1> QED BY <1>2, <1>3

\* What a frame leaves in Redis and on its way there.
LEMMA RecordedIs ==
    ASSUME CHTypes, NEW b \in Accs, Recorded(b)
    PROVE  /\ UNCHANGED <<truck, epoch, undone>>
           /\ owner' \in [st : {"off", "held", "warming"}, loaded : BOOLEAN, acc : Accs] /\ owner'.acc = b
           /\ shelf' \in [tok : Nat, has : BOOLEAN, acc : Accs]
           /\ shelf' = shelf \/ shelf'.acc = Snap(b)
           /\ slow' \subseteq Saves
           /\ \A s \in slow' : s \in slow \/ s.acc = Snap(b)
           /\ known' \in [Ids -> Nat]
<1> DEFINE s == [tok |-> epoch, acc |-> Snap(b)]
<1>1. /\ UNCHANGED <<truck, epoch, undone>>
      /\ owner' = [owner EXCEPT !.loaded = TRUE, !.acc = b]
      /\ \/ Saved(s) /\ UNCHANGED slow
         \/ slow' = {s} /\ NotSaved(b)
         \/ UNCHANGED slow /\ NotSaved(b)
  BY DEF Recorded, Snap
<1>2. s \in Saves /\ s.acc = Snap(b)
  BY SnapIs DEF Saves, CHTypes
<1> HIDE DEF s
<1>3. owner' \in [st : {"off", "held", "warming"}, loaded : BOOLEAN, acc : Accs] /\ owner'.acc = b
  BY <1>1 DEF CHTypes
<1>4. slow' \subseteq Saves /\ \A t \in slow' : t \in slow \/ t.acc = Snap(b)
  BY <1>1, <1>2 DEF CHTypes
<1>5. NotSaved(b) => known' \in [Ids -> Nat] /\ shelf' = shelf
  <2>1. \A i \in Ids : Min({known[i], b.e}) \in Nat
    <3>1. \A i \in Ids : known[i] \in Nat
      BY DEF CHTypes
    <3>2. b.e \in Nat
      BY DEF Accs
    <3> QED BY <3>1, <3>2, MinOfTwo
  <2> QED BY <2>1 DEF NotSaved, CHTypes
<1>6. Saved(s) => known' \in [Ids -> Nat] /\ shelf' \in [tok : Nat, has : BOOLEAN, acc : Accs]
                   /\ (shelf' = shelf \/ shelf'.acc = Snap(b))
  BY <1>2, SavedIs
<1>7. shelf \in [tok : Nat, has : BOOLEAN, acc : Accs]
  BY DEF CHTypes
<1> QED BY <1>1, <1>3, <1>4, <1>5, <1>6, <1>7

\* The numbers of rows and of what is left to a timer.
LEMMA KeptReached ==
    ASSUME CHTyped, Kept, truck' \in [on : BOOLEAN, soc : Nat], truck.soc <= truck'.soc,
           lastId' \in Nat, lastId <= lastId'
    PROVE  \A i \in Ids : RowReached(i)'
<1>1. ASSUME NEW i \in Ids
      PROVE  /\ charge'[i].soc <= truck'.soc
             /\ IF charge'[i].state # "none" THEN i <= lastId' ELSE charge'[i] = NoCharge
  <2>1. RowReached(i) /\ charge[i] \in Rows /\ charge'[i] \in Rows /\ Alike(charge'[i], charge[i])
    BY DEF CHTyped, CHTypes, Reached, Kept
  <2>2. truck.soc \in Nat /\ truck'.soc \in Nat /\ lastId \in Nat /\ i \in Nat
    BY DEF CHTyped, CHTypes, Ids
  <2>3. charge[i].soc \in Nat /\ charge'[i].soc = charge[i].soc
    BY <2>1 DEF Rows, Alike
  <2>4. charge'[i].state = "none" => charge'[i] = NoCharge
    BY <2>1 DEF Rows, Alike, RowReached, Exists, NoCharge
  <2> QED BY <2>1, <2>2, <2>3, <2>4 DEF RowReached, Exists, Alike
<1> QED BY <1>1 DEF RowReached, Exists

\* A row written no higher than the battery is not ahead of it.
LEMMA WrittenReached ==
    ASSUME CHTyped, NEW i \in Ids, NEW r \in Rows, r.state # "none", Written(i, r), r.soc <= truck.soc,
           truck' = truck, lastId' \in Nat, lastId <= lastId', i <= lastId'
    PROVE  \A j \in Ids : RowReached(j)'
<1>1. ASSUME NEW j \in Ids
      PROVE  /\ charge'[j].soc <= truck'.soc
             /\ IF charge'[j].state # "none" THEN j <= lastId' ELSE charge'[j] = NoCharge
  <2>1. CASE j = i
    BY <2>1 DEF Written, Alike
  <2>2. CASE j # i
    <3>1. RowReached(j) /\ charge[j] \in Rows /\ charge'[j] \in Rows /\ Alike(charge'[j], charge[j])
      BY <2>2 DEF CHTyped, CHTypes, Reached, Written
    <3>2. lastId \in Nat /\ j \in Nat
      BY DEF CHTyped, CHTypes, Ids
    <3>3. charge'[j].state = "none" => charge'[j] = NoCharge
      BY <3>1 DEF Rows, Alike, RowReached, Exists, NoCharge
    <3> QED BY <3>1, <3>2, <3>3 DEF RowReached, Exists, Alike
  <2> QED BY <2>1, <2>2
<1> QED BY <1>1 DEF RowReached, Exists

\* A frame's step keeps the types.
LEMMA WorkTyped ==
    ASSUME CHTyped, NEW a \in Accs, Work(a)
    PROVE  CHTyped'
<1> USE DEF CHTyped
<1>1. a.id \in Ids /\ a.soc = truck.soc /\ a.anchor <= truck.soc /\ CHTypes
  BY DEF Work
<1>2. lastId' \in Nat /\ lastId <= lastId' /\ lastId' <= MaxId /\ a.id <= lastId' /\ lastId \in Nat /\ truck.soc \in Nat
  BY DEF Work, CHTypes
<1>3. PICK b \in {a, NoAcc} : Recorded(b)
  BY DEF Work
<1>4. b \in Accs /\ b.id <= lastId' /\ b.soc <= truck.soc /\ b.anchor <= truck.soc
  BY <1>1, <1>2, NoAccIs
<1>5. /\ UNCHANGED <<truck, epoch, undone>>
      /\ owner' \in [st : {"off", "held", "warming"}, loaded : BOOLEAN, acc : Accs] /\ owner'.acc = b
      /\ shelf' \in [tok : Nat, has : BOOLEAN, acc : Accs]
      /\ shelf' = shelf \/ shelf'.acc = Snap(b)
      /\ slow' \subseteq Saves
      /\ \A s \in slow' : s \in slow \/ s.acc = Snap(b)
      /\ known' \in [Ids -> Nat]
  BY <1>3, <1>4, RecordedIs
<1>6. AccReached(owner.acc)'
  BY <1>4, <1>5 DEF AccReached
<1>7. \A c \in Accs : AccReached(c) => c.id <= lastId' /\ c.soc <= truck'.soc /\ c.anchor <= truck'.soc
  BY <1>2, <1>5 DEF AccReached, Accs
<1>8. Snap(b).id <= lastId' /\ Snap(b).soc <= truck'.soc /\ Snap(b).anchor <= truck'.soc /\ Snap(b).anchor = -1
  BY <1>2, <1>4, <1>5, SnapIs
<1>9. AccReached(shelf.acc)' /\ shelf'.acc.anchor = -1
  <2>1. shelf.acc \in Accs /\ AccReached(shelf.acc) /\ shelf.acc.anchor = -1
    BY DEF CHTypes, Reached
  <2> QED BY <1>5, <1>7, <1>8, <2>1 DEF AccReached
<1>10. ASSUME NEW s \in slow' PROVE s.acc.id <= lastId' /\ s.acc.soc <= truck'.soc /\ s.acc.anchor <= truck'.soc /\ s.acc.anchor = -1
  <2>1. CASE s \in slow
    <3>1. s.acc \in Accs /\ AccReached(s.acc) /\ s.acc.anchor = -1
      BY <2>1 DEF CHTypes, Saves, Reached
    <3> QED BY <1>7, <3>1
  <2>2. CASE s.acc = Snap(b)
    BY <1>8, <2>2
  <2> QED BY <1>5, <2>1, <2>2
<1>11. \A w \in late : w \in Lates /\ w.id <= lastId' /\ w.row.soc <= truck'.soc /\ w.row.state = "done"
  BY <1>2, <1>5 DEF CHTypes, Reached, LateReached, Lates, Ids
<1>12. /\ charge' \in [Ids -> Rows] /\ \A i \in Ids : RowReached(i)'
       /\ \A w \in late' : w \in Lates /\ w.id <= lastId' /\ w.row.soc <= truck'.soc /\ w.row.state = "done"
  <2>1. CASE Kept /\ UNCHANGED late
    BY <1>2, <1>5, <1>11, <2>1, KeptReached DEF Kept, CHTypes
  <2>2. CASE Writable(a) /\ UNCHANGED late /\ \E st \in {"open", "done"} : Written(a.id, RowOf(a, st))
    <3>1. PICK st \in {"open", "done"} : Written(a.id, RowOf(a, st))
      BY <2>2
    <3>2. RowOf(a, st) \in Rows /\ RowOf(a, st).state # "none" /\ RowOf(a, st).soc <= truck.soc
      BY <1>1, <1>2, <2>2, RowOfIs
    <3>3. \A i \in Ids : RowReached(i)'
      BY <1>1, <1>2, <1>5, <3>1, <3>2, WrittenReached
    <3> QED BY <1>11, <2>2, <3>1, <3>3 DEF Written
  <2>3. CASE /\ Writable(a) /\ Kept
             /\ late' = late \cup {[tok |-> epoch, again |-> TRUE, id |-> a.id, row |-> RowOf(a, "done")]}
    <3> DEFINE w == [tok |-> epoch, again |-> TRUE, id |-> a.id, row |-> RowOf(a, "done")]
    <3>1. RowOf(a, "done") \in Rows /\ RowOf(a, "done").state = "done" /\ RowOf(a, "done").soc = truck.soc
      BY <1>1, <2>3, RowOfIs
    <3>2. w \in Lates /\ w.id <= lastId' /\ w.row.soc <= truck'.soc /\ w.row.state = "done"
      BY <1>1, <1>2, <1>5, <3>1 DEF Lates, CHTypes
    <3> HIDE DEF w
    <3>3. late' = late \cup {w}
      BY <2>3 DEF w
    <3>4. \A i \in Ids : RowReached(i)'
      BY <1>2, <1>5, <2>3, KeptReached DEF CHTypes
    <3> QED BY <1>11, <2>3, <3>2, <3>3, <3>4 DEF Kept
  <2> QED BY <2>1, <2>2, <2>3 DEF Work
<1>13. CHTypes'
  BY <1>2, <1>5, <1>12 DEF CHTypes
<1>14. Reached'
  BY <1>6, <1>9, <1>10, <1>12 DEF Reached, AccReached, LateReached
<1> QED BY <1>13, <1>14

\* An accumulator, and what holds of every one of them.
Good(c, base) == c \in Accs /\ (c.id = 0 \/ c.id \in Ids) /\ AccFits(c) /\ AccOn(c, base)

\* All four places an accumulator can be in hold a good one.
LEMMA AllGood ==
    ASSUME CHTyped, Fitting, NEW base, Anchored(base)
    PROVE  /\ Good(NoAcc, base) /\ Good(owner.acc, base) /\ Good(shelf.acc, base)
           /\ \A s \in slow : Good(s.acc, base)
<1>1. \A c \in Accs : AccReached(c) => c.id = 0 \/ c.id \in Ids
  <2>1. lastId \in 0 .. MaxId /\ MaxId \in Nat
    BY HSettings DEF CHTyped, CHTypes
  <2> QED BY <2>1 DEF AccReached, Accs, Ids
<1>2. /\ owner.acc \in Accs /\ AccReached(owner.acc) /\ AccOn(owner.acc, base) /\ AccFits(owner.acc)
      /\ shelf.acc \in Accs /\ AccReached(shelf.acc) /\ AccOn(shelf.acc, base) /\ AccFits(shelf.acc)
      /\ \A s \in slow : s.acc \in Accs /\ AccReached(s.acc) /\ AccOn(s.acc, base) /\ AccFits(s.acc)
  BY DEF CHTyped, CHTypes, Saves, Reached, Anchored, Fitting
<1>3. Good(NoAcc, base)
  BY NoAccIs DEF Good, AccOn, AccFits
<1> QED BY <1>1, <1>2, <1>3 DEF Good

\* A step that moves the rows forward and puts nothing but good accumulators, and good
\* rows for a timer, anywhere.
LEMMA GoodStep ==
    ASSUME CHTypes, Forward, NEW base \in [Ids -> Nat], \A i \in Ids : RowOn(i, base)',
           \A i \in Ids : charge'[i].state # "none" => RowFits(charge'[i]),
           Good(owner'.acc, base), Good(shelf'.acc, base), \A s \in slow' : Good(s.acc, base),
           \A w \in late' : w \in Lates /\ RowFits(w.row) /\ LateOn(w, base)
    PROVE  Counts'
<1>1. \A c \in Accs : (c.id = 0 \/ c.id \in Ids) /\ AccOn(c, base) => AccOnNext(c, base)
  BY AccOnStays
<1>2. /\ AccOnNext(owner'.acc, base) /\ AccOnNext(shelf'.acc, base)
      /\ \A s \in slow' : AccOnNext(s.acc, base)
  BY <1>1 DEF Good
<1>3. \A w \in late' : LateOn(w, base)'
  BY LateOnStays
<1>4. Fitting'
  BY DEF Fitting, Good, AccFits, RowFits, Exists
<1>5. Anchored(base)'
  <2>1. AccOn(owner.acc, base)' /\ AccOn(shelf.acc, base)' /\ \A s \in slow' : AccOn(s.acc, base)'
    BY <1>2 DEF AccOn, AccOnNext, Exists
  <2> QED BY <1>3, <2>1 DEF Anchored
<1> QED BY <1>4, <1>5 DEF Counts

\* A frame's step keeps what the energies rest on.
LEMMA WorkCounts ==
    ASSUME CHTyped, NEW a \in Accs, Work(a), Honest(a), Counts
    PROVE  Counts'
<1>1. a.id \in Ids /\ a.soc = truck.soc /\ CHTypes /\ Fitting
  BY DEF Work, CHTyped, Counts
<1>2. truck.soc \in Nat /\ a.from \in Nat /\ a.e \in Nat /\ a.id \in Nat /\ MaxId \in Nat
  BY <1>1, HSettings DEF CHTypes, Accs
<1>3. a.from <= truck.soc /\ a.e <= truck.soc - a.from
  BY DEF Honest
<1>4. PICK base \in [Ids -> Nat] : Anchored(base) /\ AccOn(a, base)
  BY DEF Honest
<1>5. PICK b \in {a, NoAcc} : Recorded(b) /\ (b = a => a.anchor = truck.soc)
  <2>1. CASE Recorded(NoAcc)
    <3>1. NoAcc # a
      BY <1>1, NoAccIs DEF Ids
    <3> QED BY <2>1, <3>1
  <2>2. CASE a.anchor = truck.soc /\ Recorded(a)
    BY <2>2
  <2> QED BY <2>1, <2>2 DEF Work
<1>6. b \in Accs /\ AccFits(b) /\ AccOn(b, base) /\ (b.id = 0 \/ b.id \in Ids)
  <2>1. CASE b = a
    BY <1>1, <1>2, <1>3, <1>4, <1>5, <2>1 DEF AccFits
  <2>2. CASE b = NoAcc
    BY <2>2, NoAccIs DEF AccFits, AccOn
  <2> QED BY <2>1, <2>2
<1>7. AccFits(Snap(b)) /\ AccOn(Snap(b), base) /\ Snap(b) \in Accs /\ (Snap(b).id = 0 \/ Snap(b).id \in Ids)
  BY <1>6, SnapIs DEF AccFits, AccOn
<1>8. /\ UNCHANGED truck /\ owner'.acc = b
      /\ shelf' = shelf \/ shelf'.acc = Snap(b)
      /\ \A s \in slow' : s \in slow \/ s.acc = Snap(b)
  BY <1>1, <1>6, <1>5, RecordedIs
<1>9. /\ Forward /\ \A i \in Ids : RowOn(i, base)'
      /\ \A i \in Ids : charge'[i].state # "none" => RowFits(charge'[i])
  <2>1. CASE Kept
    <3>1. Forward
      BY <1>1, <2>1, KeptForward
    <3>2. \A i \in Ids : RowOn(i, base)'
      BY <1>1, <1>4, <2>1, <3>1, RowOnStays DEF Kept, Anchored
    <3>3. \A i \in Ids : charge'[i].state # "none" => RowFits(charge'[i])
      BY <1>1, <2>1 DEF Fitting, Kept, Alike, RowFits, Exists
    <3> QED BY <3>1, <3>2, <3>3
  <2>2. CASE Writable(a) /\ \E st \in {"open", "done"} : Written(a.id, RowOf(a, st))
    <3>1. PICK st \in {"open", "done"} : Written(a.id, RowOf(a, st))
      BY <2>2
    <3> DEFINE r == RowOf(a, st)
               i == a.id
    <3>2. r \in Rows /\ r.state # "none" /\ RowFits(r)
      BY <1>1, <1>3, <2>2, RowOfIs
    <3>3. base[i] <= r.from /\ Higher(i, r) /\ (r.from = base[i] \/ Covered(i, r.from))
      BY <1>1, <1>4, <2>2, WorkRow
    <3>4. i \in Ids /\ Written(i, r)
      BY <1>1, <3>1
    <3> HIDE DEF r, i
    <3>5. Forward
      BY <1>1, <3>2, <3>3, <3>4, WrittenForward
    <3>6. RowOn(i, base)'
      BY <1>1, <3>2, <3>3, <3>4, <3>5, WrittenRowOn
    <3>7. ASSUME NEW j \in Ids \ {i} PROVE RowOn(j, base)'
      <4>1. Alike(charge'[j], charge[j]) /\ RowOn(j, base)
        BY <1>4, <3>4 DEF Written, Anchored
      <4> QED BY <1>1, <3>5, <4>1, RowOnStays
    <3>8. ASSUME NEW j \in Ids, charge'[j].state # "none" PROVE RowFits(charge'[j])
      <4>1. CASE j = i
        BY <3>2, <3>4, <4>1 DEF Written, Alike, RowFits
      <4>2. CASE j # i
        BY <1>1, <3>4, <3>8, <4>2 DEF Written, Alike, RowFits, Fitting, Exists
      <4> QED BY <4>1, <4>2
    <3> QED BY <3>5, <3>6, <3>7, <3>8
  <2> QED BY <2>1, <2>2 DEF Work
<1>10. Good(b, base) /\ Good(Snap(b), base)
  BY <1>6, <1>7 DEF Good
<1>11. /\ Good(owner'.acc, base) /\ Good(shelf'.acc, base)
       /\ \A s \in slow' : Good(s.acc, base)
  BY <1>1, <1>4, <1>8, <1>10, AllGood
<1>12. ASSUME NEW w \in late' PROVE w \in Lates /\ RowFits(w.row) /\ LateOn(w, base)
  <2>1. CASE w \in late
    BY <1>1, <1>4, <2>1 DEF CHTypes, Anchored, Fitting
  <2>2. CASE w \notin late
    <3> DEFINE r == RowOf(a, "done")
    <3>1. Writable(a) /\ w = [tok |-> epoch, again |-> TRUE, id |-> a.id, row |-> r]
      BY <2>2 DEF Work
    <3>2. r \in Rows /\ RowFits(r)
      BY <1>1, <1>3, <3>1, RowOfIs
    <3>3. base[a.id] <= r.from /\ (r.from = base[a.id] \/ Covered(a.id, r.from))
      BY <1>1, <1>4, <3>1, WorkRow
    <3>4. epoch \in Nat
      BY <1>1 DEF CHTypes
    <3> HIDE DEF r
    <3>5. w \in Lates /\ w.id = a.id /\ w.row = r
      BY <1>1, <3>1, <3>2, <3>4 DEF Lates
    <3> QED BY <3>2, <3>3, <3>5 DEF LateOn
  <2> QED BY <2>1, <2>2
<1> QED BY <1>1, <1>9, <1>11, <1>12, GoodStep

\* A frame's step.
LEMMA WorkInv ==
    ASSUME CHInv, NEW a \in Accs, Work(a), Honest(a)
    PROVE  CHInv'
<1>1. CHTyped /\ CHTypes /\ RowsApart /\ a.id \in Ids
  BY DEF CHInv, CHTyped, Work
<1>2. CHTyped'
  BY <1>1, WorkTyped
<1>3. RowsApart'
  <2>1. CASE Kept
    BY <1>1, <2>1, KeptApart
  <2>2. CASE Writable(a) /\ \E st \in {"open", "done"} : Written(a.id, RowOf(a, st))
    <3>1. PICK st \in {"open", "done"} : Written(a.id, RowOf(a, st))
      BY <2>2
    <3>2. RowOf(a, st) \in Rows /\ Clear(a.id, RowOf(a, st))
      BY <1>1, <2>2, RowOfIs, WorkClear
    <3> QED BY <1>1, <3>1, <3>2, WrittenApart
  <2> QED BY <2>1, <2>2 DEF Work
<1>4. undone' \/ Counts'
  <2>1. undone' = undone
    BY DEF Work, Recorded
  <2> QED BY <1>1, <2>1, WorkCounts DEF CHInv
<1> QED BY <1>2, <1>3, <1>4 DEF CHInv

\* The steps that write nothing new anywhere: an accumulator, a snapshot or a row is
\* what one was before.
Quiet ==
    /\ CHTypes' /\ Kept /\ truck.soc <= truck'.soc /\ UNCHANGED <<lastId, undone>>
    /\ owner'.acc \in {owner.acc, NoAcc}
    /\ shelf'.acc \in {shelf.acc, NoAcc} \cup {s.acc : s \in slow}
    /\ \A s \in slow' : s \in slow \/ s.acc = NoAcc
    /\ \A w \in late' : \E v \in late : w.id = v.id /\ w.row = v.row

\* What holds of every accumulator, now and after such a step.
LEMMA QuietTyped == ASSUME CHTyped, Quiet PROVE CHTyped'
<1>1. /\ truck.soc \in Nat /\ truck'.soc \in Nat /\ truck.soc <= truck'.soc
      /\ lastId' = lastId /\ lastId \in Nat /\ truck' \in [on : BOOLEAN, soc : Nat]
  BY DEF CHTyped, CHTypes, Quiet
<1>2. \A c \in Accs : AccReached(c) => c.id <= lastId' /\ c.soc <= truck'.soc /\ c.anchor <= truck'.soc
  BY <1>1 DEF AccReached, Accs
<1>3. NoAcc \in Accs /\ AccReached(NoAcc) /\ NoAcc.anchor = -1
  BY <1>1, NoAccIs DEF AccReached
<1>4. /\ owner.acc \in Accs /\ AccReached(owner.acc)
      /\ shelf.acc \in Accs /\ AccReached(shelf.acc) /\ shelf.acc.anchor = -1
      /\ \A s \in slow : s.acc \in Accs /\ AccReached(s.acc) /\ s.acc.anchor = -1
  BY DEF CHTyped, CHTypes, Reached, Saves
<1>5. AccReached(owner.acc)' /\ AccReached(shelf.acc)' /\ shelf'.acc.anchor = -1
  <2>1. owner'.acc \in Accs /\ AccReached(owner'.acc)
    BY <1>3, <1>4 DEF Quiet
  <2>2. shelf'.acc \in Accs /\ AccReached(shelf'.acc) /\ shelf'.acc.anchor = -1
    BY <1>3, <1>4 DEF Quiet
  <2> QED BY <1>2, <2>1, <2>2 DEF AccReached
<1>6. ASSUME NEW s \in slow'
      PROVE  s.acc.id <= lastId' /\ s.acc.soc <= truck'.soc /\ s.acc.anchor <= truck'.soc /\ s.acc.anchor = -1
  <2>1. s.acc \in Accs /\ AccReached(s.acc) /\ s.acc.anchor = -1
    BY <1>3, <1>4 DEF Quiet
  <2> QED BY <1>2, <2>1
<1>7. \A i \in Ids : RowReached(i)'
  BY <1>1, KeptReached DEF Quiet
<1>8. ASSUME NEW w \in late' PROVE w.id <= lastId' /\ w.row.soc <= truck'.soc /\ w.row.state = "done"
  <2>1. PICK v \in late : w.id = v.id /\ w.row = v.row
    BY DEF Quiet
  <2>2. v.row.soc \in Nat /\ LateReached(v)
    BY DEF CHTyped, CHTypes, Reached, Lates, Rows
  <2> QED BY <1>1, <2>1, <2>2 DEF LateReached
<1>9. Reached'
  BY <1>5, <1>6, <1>7, <1>8 DEF Reached, AccReached, LateReached
<1> QED BY <1>9 DEF CHTyped, Quiet

\* A quiet step keeps what the counting rests on.
LEMMA QuietCounts == ASSUME CHTyped, Quiet, Counts PROVE Counts'
<1>1. CHTypes /\ Fitting /\ Kept /\ Forward
  BY KeptForward DEF CHTyped, Counts, Quiet
<1>2. PICK base \in [Ids -> Nat] : Anchored(base)
  BY DEF Counts
<1>3. \A i \in Ids : RowOn(i, base)'
  BY <1>1, <1>2, RowOnStays DEF Kept, Anchored
<1>4. \A i \in Ids : charge'[i].state # "none" => RowFits(charge'[i])
  BY <1>1 DEF Fitting, Kept, Alike, RowFits, Exists
<1>5. /\ Good(owner'.acc, base) /\ Good(shelf'.acc, base)
      /\ \A s \in slow' : Good(s.acc, base)
  BY <1>1, <1>2, AllGood DEF Quiet
<1>6. ASSUME NEW w \in late' PROVE w \in Lates /\ RowFits(w.row) /\ LateOn(w, base)
  <2>1. PICK v \in late : w.id = v.id /\ w.row = v.row
    BY DEF Quiet
  <2>2. RowFits(v.row) /\ LateOn(v, base) /\ w \in Lates
    BY <1>1, <1>2 DEF CHTypes, Anchored, Fitting, Quiet
  <2> QED BY <2>1, <2>2 DEF LateOn
<1> QED BY <1>1, <1>3, <1>4, <1>5, <1>6, GoodStep

\* A quiet step keeps the invariant.
LEMMA QuietInv == ASSUME CHInv, Quiet PROVE CHInv'
<1>1. CHTyped /\ RowsApart /\ Kept /\ undone' = undone
  BY DEF CHInv, Quiet
<1>2. CHTyped' /\ RowsApart'
  BY <1>1, QuietTyped, KeptApart
<1>3. undone' \/ Counts'
  BY <1>1, QuietCounts DEF CHInv
<1> QED BY <1>2, <1>3 DEF CHInv

\* Which steps are quiet.
LEMMA TruckQuiet == ASSUME CHTyped, TruckMoves PROVE Quiet
<1>1. CHTypes /\ Kept
  BY KeptIs DEF CHTyped, TruckMoves
<1>2. truck' \in [on : BOOLEAN, soc : Nat] /\ truck.soc <= truck'.soc
  <2>1. truck \in [on : BOOLEAN, soc : Nat]
    BY <1>1 DEF CHTypes
  <2>2. CASE PlugIn
    <3>1. truck'.soc = truck.soc /\ truck.soc \in Nat /\ truck' \in [on : BOOLEAN, soc : Nat]
      BY <2>1, <2>2 DEF PlugIn
    <3> QED BY <3>1
  <2>3. CASE Draw
    BY <2>1, <2>3 DEF Draw
  <2>4. CASE Unplug
    <3>1. truck'.soc = truck.soc /\ truck.soc \in Nat /\ truck' \in [on : BOOLEAN, soc : Nat]
      BY <2>1, <2>4 DEF Unplug
    <3> QED BY <3>1
  <2> QED BY <2>2, <2>3, <2>4 DEF TruckMoves
<1> QED BY <1>1, <1>2 DEF TruckMoves, Quiet, CHTypes

\* An owner starts with the empty accumulator.
LEMMA FreshIs ==
    ASSUME NEW st \in {"off", "held", "warming"}
    PROVE  Fresh(st) \in [st : {"off", "held", "warming"}, loaded : BOOLEAN, acc : Accs] /\ Fresh(st).acc = NoAcc
BY NoAccIs DEF Fresh

\* A grant is quiet: the new owner has loaded nothing.
LEMMA GrantQuiet == ASSUME CHTyped, NEW st \in {"held", "warming"}, GrantedTo(st) PROVE Quiet
<1>1. CHTypes /\ Kept /\ truck.soc <= truck.soc
  BY KeptIs DEF CHTyped, CHTypes, GrantedTo
<1> QED BY <1>1, FreshIs DEF GrantedTo, Quiet, CHTypes

\* The end of the warm-up is quiet.
LEMMA WarmUpQuiet == ASSUME CHTyped, WarmUpOver PROVE Quiet
<1>1. CHTypes /\ Kept /\ truck.soc <= truck.soc
  BY KeptIs DEF CHTyped, CHTypes, WarmUpOver
<1> QED BY <1>1 DEF WarmUpOver, Quiet, CHTypes

\* A crash is quiet: what the owner had in memory is gone.
LEMMA CrashQuiet == ASSUME CHTyped, OwnerCrash PROVE Quiet
<1>1. CHTypes /\ Kept /\ truck.soc <= truck.soc
  BY KeptIs DEF CHTyped, CHTypes, OwnerCrash
<1> QED BY <1>1, FreshIs DEF OwnerCrash, Quiet, CHTypes

\* The janitor is quiet: it changes a row's state and no number in it.
LEMMA JanitorQuiet == ASSUME CHTyped, JanitorCloses PROVE Quiet
<1>1. CHTypes /\ truck.soc <= truck.soc
  BY DEF CHTyped, CHTypes
<1>2. PICK i \in StaleOpen : charge' = [charge EXCEPT ![i].state = "abandoned"]
  BY DEF JanitorCloses
<1>3. i \in Ids /\ charge[i].state = "open" /\ charge \in [Ids -> Rows]
  BY <1>1 DEF StaleOpen, OpenIds, CHTypes
<1>4. [charge[i] EXCEPT !.state = "abandoned"] \in Rows /\ Alike([charge[i] EXCEPT !.state = "abandoned"], charge[i])
  BY <1>3 DEF Rows, States, Alike
<1>5. charge' = [charge EXCEPT ![i] = [charge[i] EXCEPT !.state = "abandoned"]]
  BY <1>2
<1>6. Kept
  BY <1>3, <1>4, <1>5 DEF Kept, Alike
<1> QED BY <1>1, <1>6 DEF JanitorCloses, Quiet, CHTypes, Kept

\* A slow save that lands is quiet: the shelf takes an accumulator that was in flight.
LEMMA SlowQuiet == ASSUME CHTyped, NEW s \in slow, SlowSaveLands(s) PROVE Quiet
<1>1. CHTypes /\ Kept /\ truck.soc <= truck.soc /\ s \in Saves
  BY KeptIs DEF CHTyped, CHTypes, SlowSaveLands
<1>2. /\ known' \in [Ids -> Nat]
      /\ shelf' \in [tok : Nat, has : BOOLEAN, acc : Accs]
      /\ shelf' = shelf \/ shelf'.acc = s.acc
  BY <1>1, SavedIs DEF SlowSaveLands
<1>3. CHTypes'
  BY <1>1, <1>2 DEF SlowSaveLands, CHTypes
<1>4. shelf'.acc \in {shelf.acc, NoAcc} \cup {t.acc : t \in slow}
  BY <1>2
<1> QED BY <1>1, <1>3, <1>4 DEF SlowSaveLands, Quiet

\* A frame outside a charge is quiet: it clears its accumulator.
LEMMA IdleQuiet == ASSUME CHTyped, NEW found \in BOOLEAN, FrameIdle(found) PROVE Quiet
<1>1. CHTypes /\ Kept /\ truck.soc <= truck.soc
  BY KeptIs DEF CHTyped, CHTypes, FrameIdle
<1>2. Snap(NoAcc) = NoAcc
  BY DEF Snap, NoAcc
<1>3. /\ UNCHANGED <<truck, epoch, undone>>
      /\ owner' \in [st : {"off", "held", "warming"}, loaded : BOOLEAN, acc : Accs] /\ owner'.acc = NoAcc
      /\ shelf' \in [tok : Nat, has : BOOLEAN, acc : Accs]
      /\ shelf' = shelf \/ shelf'.acc = Snap(NoAcc)
      /\ slow' \subseteq Saves
      /\ \A s \in slow' : s \in slow \/ s.acc = Snap(NoAcc)
      /\ known' \in [Ids -> Nat]
  BY <1>1, NoAccIs, RecordedIs DEF FrameIdle
<1>4. UNCHANGED <<late, charge, lastId>>
  BY DEF FrameIdle
<1>5. CHTypes'
  BY <1>1, <1>3, <1>4 DEF CHTypes
<1> QED BY <1>1, <1>2, <1>3, <1>4, <1>5 DEF Quiet

\* A timer's write, if it does not put the row back.
TimerWrites(w) ==
    /\ Overlap(w.id, w.row.from, w.row.soc) = {}
    /\ charge' = Upserted(w.id, w.row)
    /\ undone' = (undone \/ GoesBack(w.id, w.row))

\* A timer writes its row, or leaves the rows and puts itself off at most once.
LEMMA TimerIs ==
    ASSUME CHTyped, NEW w \in late, NEW ours \in BOOLEAN, TimerFires(w, ours)
    PROVE  /\ UNCHANGED <<truck, epoch, owner, slow, shelf, lastId, known>>
           /\ late' \subseteq Lates
           /\ \A x \in late' : \E v \in late : x.id = v.id /\ x.row = v.row
           /\ TimerWrites(w) \/ UNCHANGED <<charge, undone>>
<1>1. late \subseteq Lates /\ epoch \in Nat
  BY DEF CHTyped, CHTypes
<1>2. late' \subseteq late \cup {[w EXCEPT !.tok = epoch, !.again = FALSE]}
  BY DEF TimerFires
<1>3. [w EXCEPT !.tok = epoch, !.again = FALSE] \in Lates
  BY <1>1 DEF Lates
<1>4. [w EXCEPT !.tok = epoch, !.again = FALSE].id = w.id /\ [w EXCEPT !.tok = epoch, !.again = FALSE].row = w.row
  BY <1>1 DEF Lates
<1>5. \A x \in late' : \E v \in late : x.id = v.id /\ x.row = v.row
  BY <1>2, <1>4
<1> QED BY <1>1, <1>2, <1>3, <1>5 DEF TimerFires, TimerWrites

\* A timer keeps the invariant.
LEMMA TimerInv ==
    ASSUME CHInv, NEW w \in late, NEW ours \in BOOLEAN, TimerFires(w, ours)
    PROVE  CHInv'
<1>1. CHTyped /\ CHTypes /\ RowsApart /\ truck.soc \in Nat /\ lastId \in Nat /\ charge \in [Ids -> Rows] /\ undone \in BOOLEAN
  BY DEF CHInv, CHTyped, CHTypes
<1>2. /\ UNCHANGED <<truck, epoch, owner, slow, shelf, lastId, known>>
      /\ late' \subseteq Lates
      /\ \A x \in late' : \E v \in late : x.id = v.id /\ x.row = v.row
      /\ TimerWrites(w) \/ UNCHANGED <<charge, undone>>
  BY <1>1, TimerIs
<1>3. CASE UNCHANGED <<charge, undone>>
  <2>1. CHTypes'
    BY <1>1, <1>2, <1>3 DEF CHTypes
  <2>2. Kept
    BY <1>1, <1>3, KeptIs
  <2>3. truck.soc <= truck.soc /\ UNCHANGED <<owner, shelf, slow, truck, lastId, undone>>
    BY <1>1, <1>2, <1>3
  <2>4. Quiet
    BY <1>2, <2>1, <2>2, <2>3 DEF Quiet
  <2> QED BY <2>4, QuietInv
<1>4. CASE TimerWrites(w)
  <2> DEFINE i == w.id
             r == w.row
  <2>1. w \in Lates /\ LateReached(w)
    BY <1>1 DEF CHTypes, CHTyped, Reached
  <2>2. i \in Ids /\ r \in Rows /\ r.state = "done" /\ r.soc <= truck.soc /\ i <= lastId
    BY <2>1 DEF Lates, LateReached
  <2> HIDE DEF i, r
  <2>3. Written(i, r)
    BY <1>1, <1>4, <2>2, WrittenIs DEF TimerWrites, i, r
  <2>4. r.from \in Nat /\ r.soc \in Nat
    BY <2>2 DEF Rows
  <2>5. Clear(i, r)
    <3>1. ASSUME NEW j \in Ids \ {i}, Exists(j) PROVE charge[j].soc <= r.from \/ r.soc <= charge[j].from
      <4>1. j \notin Overlap(i, r.from, r.soc)
        BY <1>4 DEF TimerWrites, i, r
      <4>2. charge[j].soc \in Nat /\ charge[j].from \in Nat
        BY <1>1 DEF Rows
      <4> QED BY <2>4, <3>1, <4>1, <4>2 DEF Overlap, Exists
    <3> QED BY <3>1 DEF Clear
  <2>6. RowsApart'
    BY <1>1, <2>2, <2>3, <2>5, WrittenApart
  <2>7. \A j \in Ids : RowReached(j)'
    <3>1. truck' = truck /\ lastId' \in Nat /\ lastId <= lastId' /\ i <= lastId'
      BY <1>1, <1>2, <2>2
    <3> QED BY <1>1, <2>2, <2>3, <3>1, WrittenReached
  <2>8. CHTyped'
    <3>1. charge' \in [Ids -> Rows] /\ undone' \in BOOLEAN
      BY <1>1, <1>4, <2>3 DEF Written, TimerWrites, GoesBack
    <3>2. CHTypes'
      BY <1>1, <1>2, <3>1 DEF CHTypes
    <3>3. \A x \in late' : x.id <= lastId' /\ x.row.soc <= truck'.soc /\ x.row.state = "done"
      BY <1>1, <1>2 DEF CHTyped, Reached, LateReached
    <3>4. Reached'
      BY <1>1, <1>2, <2>7, <3>3 DEF CHTyped, Reached, AccReached, LateReached
    <3> QED BY <3>2, <3>4 DEF CHTyped
  <2>9. ASSUME ~ undone' PROVE Counts'
    <3>1. Counts /\ ~ GoesBack(i, r)
      BY <1>4, <2>9 DEF CHInv, TimerWrites, i, r
    <3>2. Fitting /\ RowFits(r)
      BY <3>1 DEF Counts, Fitting, r
    <3>3. PICK base \in [Ids -> Nat] : Anchored(base)
      BY <3>1 DEF Counts
    <3>4. LateOn(w, base)
      BY <3>3 DEF Anchored
    <3>5. charge[i].from \in Nat /\ charge[i].soc \in Nat /\ base[i] \in Nat
      BY <1>1, <2>2 DEF Rows
    <3>6. Higher(i, r)
      BY <2>4, <3>1, <3>5 DEF Higher, GoesBack, Exists
    <3>7. Forward
      BY <1>1, <2>2, <2>3, <3>6, WrittenForward
    <3>8. base[i] <= r.from /\ (r.from = base[i] \/ Covered(i, r.from))
      <4>1. base[i] <= r.from
        BY <3>4 DEF LateOn, i, r
      <4>2. \/ r.from = base[i] \/ Covered(i, r.from)
            \/ Exists(i) /\ r.from <= charge[i].from
        BY <3>4 DEF LateOn, i, r
      <4>3. CASE Exists(i) /\ r.from <= charge[i].from
        <5>1. charge[i].from = r.from
          BY <2>4, <3>5, <3>6, <4>3 DEF Higher
        <5>2. RowOn(i, base)
          BY <2>2, <3>3 DEF Anchored
        <5> QED BY <4>1, <4>3, <5>1, <5>2 DEF RowOn
      <4> QED BY <4>1, <4>2, <4>3
    <3>9. RowOn(i, base)'
      BY <1>1, <2>2, <2>3, <3>7, <3>8, WrittenRowOn
    <3>10. ASSUME NEW j \in Ids \ {i} PROVE RowOn(j, base)'
      <4>1. Alike(charge'[j], charge[j]) /\ RowOn(j, base)
        BY <2>3, <3>3 DEF Written, Anchored
      <4> QED BY <1>1, <3>7, <4>1, RowOnStays
    <3>11. ASSUME NEW j \in Ids, charge'[j].state # "none" PROVE RowFits(charge'[j])
      <4>1. CASE j = i
        BY <2>3, <3>2, <4>1 DEF Written, Alike, RowFits
      <4>2. CASE j # i
        BY <2>3, <3>2, <3>11, <4>2 DEF Written, Alike, RowFits, Fitting, Exists
      <4> QED BY <4>1, <4>2
    <3>12. \A j \in Ids : RowOn(j, base)'
      BY <3>9, <3>10
    <3>13. /\ Good(owner'.acc, base) /\ Good(shelf'.acc, base)
           /\ \A s \in slow' : Good(s.acc, base)
      BY <1>1, <1>2, <3>2, <3>3, AllGood
    <3>14. ASSUME NEW x \in late' PROVE x \in Lates /\ RowFits(x.row) /\ LateOn(x, base)
      <4>1. PICK v \in late : x.id = v.id /\ x.row = v.row
        BY <1>2
      <4>2. LateOn(v, base) /\ RowFits(v.row)
        BY <3>2, <3>3 DEF Anchored, Fitting
      <4> QED BY <1>2, <4>1, <4>2 DEF LateOn
    <3> QED BY <1>1, <3>7, <3>11, <3>12, <3>13, <3>14, GoodStep
  <2> QED BY <2>6, <2>8, <2>9 DEF CHInv
<1> QED BY <1>2, <1>3, <1>4

\* The invariant holds at the start.
LEMMA CHInvInit == CHInit => CHInv
<1> SUFFICES ASSUME CHInit PROVE CHInv
  OBVIOUS
<1> USE DEF CHInit
<1>1. MaxId \in Nat /\ NoAcc \in Accs /\ NoAcc.id = 0 /\ NoAcc.soc = 0 /\ NoAcc.anchor = -1
  BY HSettings, NoAccIs
<1>2. NoCharge \in Rows /\ NoCharge.state = "none" /\ NoCharge.soc = 0
  BY DEF NoCharge, Rows, States
<1>3. owner \in [st : {"off", "held", "warming"}, loaded : BOOLEAN, acc : Accs] /\ owner.acc = NoAcc
  BY FreshIs
<1>4. shelf \in [tok : Nat, has : BOOLEAN, acc : Accs] /\ shelf.acc = NoAcc
  BY <1>1
<1>5. charge \in [Ids -> Rows] /\ \A i \in Ids : charge[i] = NoCharge /\ ~ Exists(i)
  BY <1>2 DEF Exists
<1>6. CHTypes
  <2>1. truck \in [on : BOOLEAN, soc : Nat] /\ epoch \in Nat /\ lastId \in 0 .. MaxId
    BY <1>1
  <2>2. late = {} /\ slow = {} /\ undone \in BOOLEAN /\ known \in [Ids -> Nat]
    OBVIOUS
  <2> QED BY <1>3, <1>4, <1>5, <2>1, <2>2 DEF CHTypes
<1>7. Reached
  BY <1>1, <1>2, <1>3, <1>4, <1>5 DEF Reached, AccReached, RowReached
<1>8. RowsApart
  BY <1>5 DEF RowsApart, Exists
<1>9. Fitting
  BY <1>1, <1>3, <1>4, <1>5 DEF Fitting, AccFits
<1>10. [i \in Ids |-> 0] \in [Ids -> Nat] /\ Anchored([i \in Ids |-> 0])
  BY <1>1, <1>3, <1>4, <1>5 DEF Anchored, AccOn, RowOn
<1> QED BY <1>6, <1>7, <1>8, <1>9, <1>10 DEF CHInv, CHTyped, Counts

\* Every step keeps the invariant.
LEMMA CHInvStep == CHInv /\ [CHNext]_chVars => CHInv'
<1> SUFFICES ASSUME CHInv, [CHNext]_chVars PROVE CHInv'
  OBVIOUS
<1>1. CHTyped
  BY DEF CHInv
<1>2. CASE TruckMoves
  BY <1>1, <1>2, TruckQuiet, QuietInv
<1>3. CASE Steal \/ Take
  BY <1>1, <1>3, GrantQuiet, QuietInv DEF Steal, Take
<1>4. CASE WarmUpOver
  BY <1>1, <1>4, WarmUpQuiet, QuietInv
<1>5. CASE OwnerCrash
  BY <1>1, <1>5, CrashQuiet, QuietInv
<1>6. CASE JanitorCloses
  BY <1>1, <1>6, JanitorQuiet, QuietInv
<1>7. Finds \subseteq BOOLEAN
  BY DEF Finds
<1>8. ASSUME NEW found \in Finds, FrameOpens(found) PROVE CHInv'
  BY <1>1, <1>7, <1>8, OpensWorks, WorkInv
<1>9. ASSUME NEW found \in Finds, FrameIdle(found) PROVE CHInv'
  BY <1>1, <1>7, <1>9, IdleQuiet, QuietInv
<1>10. ASSUME NEW found \in Finds, NEW due \in BOOLEAN, FrameCounts(found, due) PROVE CHInv'
  BY <1>1, <1>7, <1>10, CountsWorks, WorkInv
<1>11. ASSUME NEW found \in Finds, NEW refused \in BOOLEAN, FrameCloses(found, refused) PROVE CHInv'
  BY <1>1, <1>7, <1>11, ClosesWorks, WorkInv
<1>12. ASSUME NEW w \in late, NEW ours \in BOOLEAN, TimerFires(w, ours) PROVE CHInv'
  BY <1>12, TimerInv
<1>13. ASSUME NEW s \in slow, SlowSaveLands(s) PROVE CHInv'
  BY <1>1, <1>13, SlowQuiet, QuietInv
<1>14. CASE UNCHANGED chVars
  <2>1. Quiet
    <3>1. CHTypes /\ Kept /\ truck.soc <= truck.soc
      BY <1>1, <1>14, KeptIs DEF CHTyped, CHTypes, chVars
    <3> QED BY <3>1, <1>14 DEF Quiet, CHTypes, chVars
  <2> QED BY <2>1, QuietInv
<1> QED BY <1>2, <1>3, <1>4, <1>5, <1>6, <1>8, <1>9, <1>10, <1>11, <1>12, <1>13, <1>14 DEF CHNext

\* The invariant holds for any battery, any number of grants and any number of charges.
THEOREM HandoverInvariant == CHSpec => []CHInv
BY CHInvInit, CHInvStep, PTL DEF CHSpec

\* Two rows never hold the same stretch of the battery.
THEOREM RowsStayApart == CHSpec => []RowsApart
<1>1. CHInv => RowsApart
  BY DEF CHInv
<1> QED BY <1>1, HandoverInvariant, PTL

-----------------------------------------------------------------------------
(***************************************************************************)
(* EnergyCountedOnce.                                                      *)
(***************************************************************************)
\* The sum is defined.
LEMMA EnergyIs ==
    ASSUME CHTypes
    PROVE  /\ EnergyOf[0] = 0
           /\ \A n \in 0 .. MaxId : n # 0 => EnergyOf[n] = EnergyOf[n - 1] + charge[n].e
<1> DEFINE g == [n \in Nat |-> [v \in Nat |-> IF n + 1 \in Ids THEN v + charge[n + 1].e ELSE v]]
<1>1. MaxId \in Nat /\ \A i \in Ids : charge[i].e \in Nat
  BY HSettings DEF CHTypes, Rows
<1>2. \A n, v \in Nat : g[n][v] \in Nat
  BY <1>1
<1>3. \A n, v \in Nat : n + 1 \in Ids => g[n][v] = v + charge[n + 1].e
  BY <1>1
<1> HIDE DEF g
<1>4. PICK f \in [Nat -> Nat] : f[0] = 0 /\ \A n \in Nat : f[n + 1] = g[n][f[n]]
  <2>1. \A h : (\A n, v \in Nat : h[n][v] \in Nat) =>
            \E f \in [Nat -> Nat] : f[0] = 0 /\ \A n \in Nat : f[n + 1] = h[n][f[n]]
    BY Recursion
  <2> QED BY <1>2, <2>1
<1> DEFINE F == [n \in 0 .. MaxId |-> f[n]]
<1>5. ASSUME NEW n \in 0 .. MaxId PROVE F[n] = IF n = 0 THEN 0 ELSE F[n - 1] + charge[n].e
  <2>1. CASE n = 0
    BY <1>1, <1>4, <2>1
  <2>2. CASE n # 0
    <3>1. n \in Nat /\ n - 1 \in Nat /\ (n - 1) + 1 = n /\ n \in Ids /\ n - 1 \in 0 .. MaxId
      BY <1>1, <2>2 DEF Ids
    <3>2. f[(n - 1) + 1] = g[n - 1][f[n - 1]] /\ f[n - 1] \in Nat
      BY <1>4, <3>1
    <3>3. g[n - 1][f[n - 1]] = f[n - 1] + charge[n].e
      BY <1>3, <3>1, <3>2
    <3> QED BY <2>2, <3>1, <3>2, <3>3
  <2> QED BY <2>1, <2>2
<1>6. F = [n \in 0 .. MaxId |-> IF n = 0 THEN 0 ELSE F[n - 1] + charge[n].e]
  BY <1>5
<1> HIDE DEF F
<1>7. EnergyOf = [n \in 0 .. MaxId |-> IF n = 0 THEN 0 ELSE EnergyOf[n - 1] + charge[n].e]
  BY <1>6 DEF EnergyOf
<1>8. 0 \in 0 .. MaxId
  BY <1>1
<1> HIDE DEF EnergyOf
<1> QED BY <1>7, <1>8

\* The cells of the battery that a row holds, and those that the first n rows hold.
Cells(i) == IF Exists(i) THEN charge[i].from .. charge[i].soc - 1 ELSE {}
CellsTo(n) == UNION {Cells(i) : i \in 1 .. n}

\* A row has no more energy than cells, and the rows have theirs to themselves.
LEMMA CellsOf ==
    ASSUME CHTyped, Fitting, NEW i \in Ids
    PROVE  IsFiniteSet(Cells(i)) /\ Cardinality(Cells(i)) \in Nat /\ charge[i].e <= Cardinality(Cells(i))
<1>1. charge[i] \in Rows /\ RowReached(i)
  BY DEF CHTyped, CHTypes, Reached
<1>2. CASE Exists(i)
  <2>1. charge[i].from \in Nat /\ charge[i].soc \in Nat /\ charge[i].e \in Nat /\ RowFits(charge[i])
    BY <1>1, <1>2 DEF Rows, Fitting
  <2> DEFINE x == charge[i].from
             y == charge[i].soc - 1
  <2>2. x \in Int /\ y \in Int /\ x <= y /\ charge[i].e <= y - x + 1
    BY <2>1 DEF RowFits
  <2>3. Cells(i) = x .. y
    BY <1>2 DEF Cells
  <2> HIDE DEF x, y
  <2>4. IsFiniteSet(x .. y) /\ Cardinality(x .. y) = y - x + 1
    BY <2>2, FS_Interval
  <2> QED BY <2>1, <2>2, <2>3, <2>4
<1>3. CASE ~ Exists(i)
  <2>1. Cells(i) = {} /\ charge[i].e = 0
    BY <1>1, <1>3 DEF Cells, RowReached, NoCharge
  <2> QED BY <2>1, FS_EmptySet
<1> QED BY <1>2, <1>3

\* Rows apart hold no cell of the battery together.
LEMMA CellsApart ==
    ASSUME CHTyped, RowsApart, NEW i \in Ids, NEW j \in Ids, i # j
    PROVE  Cells(i) \cap Cells(j) = {}
<1>1. /\ charge[i].from \in Nat /\ charge[i].soc \in Nat
      /\ charge[j].from \in Nat /\ charge[j].soc \in Nat
  BY DEF CHTyped, CHTypes, Rows
<1>2. Exists(i) /\ Exists(j) => charge[i].soc <= charge[j].from \/ charge[j].soc <= charge[i].from
  BY DEF RowsApart, Exists
<1> QED BY <1>1, <1>2 DEF Cells

\* So the first n charges have no more energy than cells.
LEMMA EnergyInCells ==
    ASSUME CHTyped, RowsApart, Fitting
    PROVE  \A n \in 0 .. MaxId : /\ IsFiniteSet(CellsTo(n)) /\ EnergyOf[n] \in Nat
                                 /\ EnergyOf[n] <= Cardinality(CellsTo(n))
<1> DEFINE P(n) == /\ IsFiniteSet(CellsTo(n)) /\ EnergyOf[n] \in Nat
                   /\ EnergyOf[n] <= Cardinality(CellsTo(n))
           A == {n \in Nat : n <= MaxId => P(n)}
<1>1. CHTypes /\ MaxId \in Nat
  BY HSettings DEF CHTyped
<1>2. 0 \in A
  <2>1. CellsTo(0) = {}
    BY DEF CellsTo
  <2> QED BY <1>1, <2>1, EnergyIs, FS_EmptySet
<1>3. ASSUME NEW n \in Nat, n \in A PROVE n + 1 \in A
  <2> SUFFICES ASSUME n + 1 <= MaxId PROVE P(n + 1)
    OBVIOUS
  <2> DEFINE i == n + 1
             S == CellsTo(n)
             T == Cells(i)
  <2>1. n <= MaxId /\ i \in Ids /\ i \in 0 .. MaxId /\ i # 0 /\ i - 1 = n
    BY <1>1 DEF Ids
  <2>2. IsFiniteSet(S) /\ EnergyOf[n] \in Nat /\ EnergyOf[n] <= Cardinality(S)
    BY <1>3, <2>1
  <2>3. EnergyOf[i] = EnergyOf[n] + charge[i].e /\ charge[i].e \in Nat
    BY <1>1, <2>1, EnergyIs DEF CHTypes, Rows
  <2>4. IsFiniteSet(T) /\ Cardinality(T) \in Nat /\ charge[i].e <= Cardinality(T)
    BY <2>1, CellsOf
  <2>5. CellsTo(i) = S \cup T
    <3>1. 1 .. i = (1 .. n) \cup {i}
      OBVIOUS
    <3> HIDE DEF i
    <3> QED BY <3>1 DEF CellsTo
  <2>6. S \cap T = {}
    <3>1. ASSUME NEW j \in 1 .. n PROVE Cells(j) \cap T = {}
      <4>1. j \in Ids /\ j # i
        BY <1>1, <2>1 DEF Ids
      <4> QED BY <2>1, <4>1, CellsApart
    <3> QED BY <3>1 DEF CellsTo
  <2> HIDE DEF S, T, i
  <2>7. IsFiniteSet(S \cup T) /\ Cardinality(S \cup T) = Cardinality(S) + Cardinality(T)
    <3>1. IsFiniteSet(S \cup T) /\ Cardinality(S \cup T) = Cardinality(S) + Cardinality(T) - Cardinality(S \cap T)
      BY <2>2, <2>4, FS_Union
    <3>2. Cardinality(S \cap T) = 0
      BY <2>6, FS_EmptySet
    <3>3. Cardinality(S) \in Nat
      BY <2>2, FS_CardinalityType
    <3> QED BY <2>4, <3>1, <3>2, <3>3
  <2>8. Cardinality(S) \in Nat
    BY <2>2, FS_CardinalityType
  <2>9. EnergyOf[i] \in Nat /\ EnergyOf[i] <= Cardinality(CellsTo(i)) /\ IsFiniteSet(CellsTo(i))
    BY <2>2, <2>3, <2>4, <2>5, <2>7, <2>8
  <2> QED BY <2>9 DEF i
<1> HIDE DEF P
<1>4. A = Nat
  <2> HIDE DEF A
  <2>1. A \in SUBSET Nat
    BY DEF A
  <2> QED BY <1>2, <1>3, <2>1, Induction
<1>5. \A n \in 0 .. MaxId : P(n)
  BY <1>1, <1>4
<1> QED BY <1>5 DEF P

\* The battery has a cell for each step of its charge.
LEMMA EnergyBounded ==
    ASSUME CHTyped, RowsApart, Fitting
    PROVE  EnergyOf[MaxId] <= truck.soc
<1>1. MaxId \in Nat /\ truck.soc \in Nat /\ MaxId \in 0 .. MaxId
  BY HSettings DEF CHTyped, CHTypes
<1> DEFINE all == 0 .. truck.soc - 1
<1>2. IsFiniteSet(all) /\ Cardinality(all) = truck.soc
  <2>1. 0 \in Int /\ truck.soc - 1 \in Int
    BY <1>1
  <2>2. /\ IsFiniteSet(0 .. truck.soc - 1)
        /\ Cardinality(0 .. truck.soc - 1)
              = IF 0 > truck.soc - 1 THEN 0 ELSE (truck.soc - 1) - 0 + 1
    BY <2>1, FS_Interval
  <2> QED BY <1>1, <2>2
<1>3. CellsTo(MaxId) \subseteq all
  <2>1. ASSUME NEW i \in 1 .. MaxId PROVE Cells(i) \subseteq all
    <3>1. charge[i].from \in Nat /\ charge[i].soc \in Nat /\ charge[i].soc <= truck.soc
      BY DEF CHTyped, CHTypes, Rows, Reached, RowReached, Ids
    <3> QED BY <1>1, <3>1 DEF Cells
  <2> QED BY <2>1 DEF CellsTo
<1>4. EnergyOf[MaxId] \in Nat /\ EnergyOf[MaxId] <= Cardinality(CellsTo(MaxId)) /\ IsFiniteSet(CellsTo(MaxId))
  BY <1>1, EnergyInCells
<1> HIDE DEF all
<1>5. Cardinality(CellsTo(MaxId)) <= Cardinality(all) /\ Cardinality(CellsTo(MaxId)) \in Nat
  BY <1>2, <1>3, <1>4, FS_Subset, FS_CardinalityType
<1> QED BY <1>1, <1>2, <1>4, <1>5

\* No energy is in two rows, unless a deferred final write has put a row back.
THEOREM EnergyIsCountedOnce == CHSpec => []EnergyCountedOnce
<1>1. CHInv => EnergyCountedOnce
  BY EnergyBounded DEF CHInv, Counts, EnergyCountedOnce
<1> QED BY <1>1, HandoverInvariant, PTL

-----------------------------------------------------------------------------
(***************************************************************************)
(* The snapshots.                                                          *)
(***************************************************************************)
\* A snapshot on its way that Redis would take has at least what is known, and there is
\* no other.
SlowKeepsUp(s) ==
    /\ s.tok <= epoch
    /\ shelf.tok <= s.tok /\ s.acc.id \in Ids => s.acc.e >= known[s.acc.id]

SnapInv ==
    /\ shelf.tok <= epoch
    /\ \A s, t \in slow : s = t
    /\ \A s \in slow : SlowKeepsUp(s)
    /\ \A i \in Ids : i > lastId => known[i] = 0
    /\ SnapshotKeepsUp

\* Nothing is saved at the start.
LEMMA SnapInvInit == CHInit => SnapInv
<1> SUFFICES ASSUME CHInit PROVE SnapInv
  OBVIOUS
<1>1. shelf = [tok |-> 0, has |-> FALSE, acc |-> NoAcc] /\ slow = {} /\ epoch = 0 /\ known = [i \in Ids |-> 0]
  BY DEF CHInit
<1>2. \A i \in Ids : i # 0
  BY DEF Ids
<1>3. SnapshotKeepsUp
  BY <1>1, <1>2, NoAccIs DEF SnapshotKeepsUp
<1> QED BY <1>1, <1>3 DEF SnapInv

\* A save of an owner at the time is the newest, and what it says is known.
LEMMA SavedKeeps ==
    ASSUME CHTypes, SnapInv, NEW s \in Saves, s.tok = epoch, Saved(s), UNCHANGED <<epoch, slow>>,
           \A t \in slow : t.tok # epoch
    PROVE  /\ shelf'.tok <= epoch' /\ \A t \in slow' : SlowKeepsUp(t)'
           /\ SnapshotKeepsUp'
           /\ \A i \in Ids : i # s.acc.id => known'[i] = known[i]
<1>1. epoch \in Nat /\ shelf.tok \in Nat /\ \A i \in Ids : known[i] \in Nat
  BY DEF CHTypes
<1>2. EpochAllows(s)
  BY DEF EpochAllows, SnapInv
<1>3. /\ shelf' = [tok |-> s.tok, has |-> TRUE, acc |-> s.acc]
      /\ known' = [i \in Ids |-> IF i = s.acc.id THEN s.acc.e ELSE known[i]]
  BY <1>2 DEF Saved
<1>4. s.acc.e \in Nat
  BY DEF Saves, Accs
<1>5. ASSUME NEW t \in slow' PROVE t.tok <= epoch' /\ ~ (shelf'.tok <= t.tok)
  <2>1. t \in slow /\ t.tok <= epoch /\ t.tok # epoch /\ t.tok \in Nat
    BY DEF SnapInv, SlowKeepsUp, CHTypes, Saves
  <2> QED BY <1>1, <1>3, <2>1
<1>6. SnapshotKeepsUp'
  BY <1>3, <1>4 DEF SnapshotKeepsUp
<1> QED BY <1>1, <1>3, <1>5, <1>6 DEF SlowKeepsUp

\* A save that does not come in time is no more known than it says.
LEMMA NotSavedKeeps ==
    ASSUME CHTypes, SnapInv, NEW b \in Accs, NotSaved(b), UNCHANGED epoch,
           slow' = slow \/ slow' = {[tok |-> epoch, acc |-> Snap(b)]}
    PROVE  /\ shelf'.tok <= epoch' /\ \A t \in slow' : SlowKeepsUp(t)'
           /\ SnapshotKeepsUp'
           /\ \A i \in Ids : i # b.id => known'[i] = known[i]
<1>1. epoch \in Nat /\ b.e \in Nat /\ shelf' = shelf /\ shelf.acc \in Accs
  BY DEF CHTypes, NotSaved, Accs
<1>2. ASSUME NEW i \in Ids
      PROVE  /\ known[i] \in Nat /\ known'[i] \in Nat /\ known'[i] <= known[i]
             /\ IF i = b.id THEN known'[i] <= b.e ELSE known'[i] = known[i]
  <2>1. known[i] \in Nat
    BY DEF CHTypes
  <2>2. Min({known[i], b.e}) = IF known[i] <= b.e THEN known[i] ELSE b.e
    BY <1>1, <2>1, MinOfTwo
  <2>3. known'[i] = IF i = b.id THEN Min({known[i], b.e}) ELSE known[i]
    BY DEF NotSaved
  <2> QED BY <1>1, <2>1, <2>2, <2>3
<1>3. ASSUME NEW t \in slow' PROVE SlowKeepsUp(t)'
  <2>1. CASE t \in slow
    <3>1. SlowKeepsUp(t) /\ t.acc.e \in Nat
      BY <2>1 DEF SnapInv, CHTypes, Saves, Accs
    <3>2. t.acc.id \in Ids => known'[t.acc.id] <= known[t.acc.id] /\ known[t.acc.id] \in Nat /\ known'[t.acc.id] \in Nat
      BY <1>2
    <3>3. t.tok <= epoch' /\ (shelf'.tok <= t.tok /\ t.acc.id \in Ids => t.acc.e >= known'[t.acc.id])
      BY <1>1, <3>1, <3>2 DEF SlowKeepsUp
    <3> QED BY <3>3 DEF SlowKeepsUp
  <2>2. CASE t = [tok |-> epoch, acc |-> Snap(b)]
    <3>1. t.tok = epoch /\ t.acc.id = b.id /\ t.acc.e = b.e
      BY <2>2, SnapIs
    <3>2. b.id \in Ids => known'[b.id] <= b.e /\ known'[b.id] \in Nat
      BY <1>2
    <3>3. t.tok <= epoch' /\ (shelf'.tok <= t.tok /\ t.acc.id \in Ids => t.acc.e >= known'[t.acc.id])
      BY <1>1, <3>1, <3>2
    <3> QED BY <3>3 DEF SlowKeepsUp
  <2> QED BY <2>1, <2>2
<1>4. SnapshotKeepsUp'
  <2>1. ASSUME NEW i \in Ids, shelf'.acc.id = i PROVE shelf'.acc.e >= known'[i]
    <3>1. shelf.acc.e >= known[i] /\ shelf.acc.e \in Nat
      BY <1>1, <2>1 DEF SnapInv, SnapshotKeepsUp, Accs
    <3> QED BY <1>1, <1>2, <3>1
  <2> QED BY <2>1 DEF SnapshotKeepsUp
<1>5. shelf'.tok <= epoch'
  BY <1>1 DEF SnapInv
<1> QED BY <1>2, <1>3, <1>4, <1>5

\* A frame.
LEMMA RecordedKeeps ==
    ASSUME CHTyped, SnapInv, NEW b \in Accs, MayRecord, Recorded(b),
           lastId' \in Nat, lastId <= lastId', b.id <= lastId'
    PROVE  SnapInv'
<1> DEFINE s == [tok |-> epoch, acc |-> Snap(b)]
<1>1. CHTypes /\ lastId \in Nat
  BY DEF CHTyped, CHTypes
<1>2. /\ UNCHANGED epoch
      /\ \/ Saved(s) /\ UNCHANGED slow
         \/ slow = {} /\ slow' = {s} /\ NotSaved(b)
         \/ UNCHANGED slow /\ NotSaved(b)
  BY DEF Recorded, Snap
<1>3. s \in Saves /\ s.tok = epoch /\ s.acc.id = b.id
  BY <1>1, SnapIs DEF Saves, CHTypes
<1>4. \A t \in slow : t.tok # epoch
  BY DEF MayRecord
<1>5. /\ shelf'.tok <= epoch' /\ \A t \in slow' : SlowKeepsUp(t)'
      /\ SnapshotKeepsUp'
      /\ \A i \in Ids : i # b.id => known'[i] = known[i]
  <2>1. CASE Saved(s) /\ UNCHANGED slow
    <3> HIDE DEF s
    <3> QED BY <1>1, <1>2, <1>3, <1>4, <2>1, SavedKeeps
  <2>2. CASE NotSaved(b)
    BY <1>1, <1>2, <2>2, NotSavedKeeps
  <2> QED BY <1>2, <2>1, <2>2
<1>6. \A t, u \in slow' : t = u
  <2> HIDE DEF s
  <2> QED BY <1>2 DEF SnapInv
<1>7. \A i \in Ids : i > lastId' => known'[i] = 0
  <2>1. ASSUME NEW i \in Ids, i > lastId' PROVE known'[i] = 0
    <3>1. i \in Nat /\ b.id \in Nat
      BY DEF Ids, Accs
    <3>2. i # b.id /\ i > lastId
      BY <1>1, <2>1, <3>1
    <3> QED BY <1>5, <3>2 DEF SnapInv
  <2> QED BY <2>1
<1> QED BY <1>5, <1>6, <1>7 DEF SnapInv

\* The slow one comes.
LEMMA SlowKeeps ==
    ASSUME CHTyped, SnapInv, NEW s \in slow, SlowSaveLands(s)
    PROVE  SnapInv'
<1>1. CHTypes /\ s \in Saves /\ Saved(s) /\ UNCHANGED <<epoch, lastId>> /\ SlowKeepsUp(s)
  BY DEF CHTyped, CHTypes, SlowSaveLands, SnapInv
<1>2. slow' = {}
  BY DEF SlowSaveLands, SnapInv
<1>3. lastId \in 0 .. MaxId /\ MaxId \in Nat /\ s.acc.id \in Nat /\ s.acc.e \in Nat /\ s.acc.id <= lastId
  BY <1>1, HSettings DEF CHTyped, CHTypes, Saves, Accs, Reached, AccReached
<1>4. CASE EpochAllows(s)
  <2>1. /\ shelf' = [tok |-> s.tok, has |-> TRUE, acc |-> s.acc]
        /\ known' = [i \in Ids |-> IF i = s.acc.id /\ s.tok = epoch THEN s.acc.e ELSE known[i]]
    BY <1>1, <1>4 DEF Saved
  <2>2. SnapshotKeepsUp'
    <3>1. ASSUME NEW i \in Ids, s.acc.id = i PROVE s.acc.e >= known'[i]
      <4>1. s.acc.e >= known[i]
        BY <1>1, <1>4, <3>1 DEF SlowKeepsUp, EpochAllows
      <4> QED BY <1>3, <2>1, <4>1
    <3> QED BY <2>1, <3>1 DEF SnapshotKeepsUp
  <2>3. \A i \in Ids : i > lastId' => known'[i] = 0
    <3>1. ASSUME NEW i \in Ids, i > lastId' PROVE known'[i] = 0
      <4>1. i # s.acc.id
        BY <1>1, <1>3, <3>1 DEF Ids
      <4> QED BY <1>1, <2>1, <3>1, <4>1 DEF SnapInv
    <3> QED BY <3>1
  <2>4. shelf'.tok <= epoch'
    BY <1>1, <2>1 DEF SlowKeepsUp
  <2> QED BY <1>2, <2>2, <2>3, <2>4 DEF SnapInv
<1>5. CASE ~ EpochAllows(s)
  <2>1. UNCHANGED <<shelf, known>>
    BY <1>1, <1>5 DEF Saved
  <2> QED BY <1>1, <1>2, <2>1 DEF SnapInv, SnapshotKeepsUp
<1> QED BY <1>4, <1>5

\* A step that saves nothing.
LEMMA UnsavedKeeps ==
    ASSUME CHTyped, SnapInv, UNCHANGED <<slow, shelf, known, lastId>>, epoch' \in Nat, epoch <= epoch'
    PROVE  SnapInv'
<1>1. epoch \in Nat /\ shelf.tok \in Nat /\ \A s \in slow : s.tok \in Nat
  BY DEF CHTyped, CHTypes, Saves
<1>2. shelf'.tok <= epoch' /\ \A s \in slow : s.tok <= epoch'
  BY <1>1 DEF SnapInv, SlowKeepsUp
<1>3. \A s \in slow' : SlowKeepsUp(s)'
  BY <1>2 DEF SnapInv, SlowKeepsUp
<1>4. SnapshotKeepsUp'
  BY DEF SnapInv, SnapshotKeepsUp
<1> QED BY <1>2, <1>3, <1>4 DEF SnapInv

\* A frame that works on an accumulator keeps the snapshot up.
LEMMA WorkKeeps ==
    ASSUME CHTyped, SnapInv, NEW a \in Accs, Work(a)
    PROVE  SnapInv'
<1>1. MayRecord /\ lastId' \in Nat /\ lastId <= lastId' /\ a.id <= lastId'
  BY DEF Work
<1>2. CASE Recorded(NoAcc)
  BY <1>1, <1>2, NoAccIs, RecordedKeeps
<1>3. CASE Recorded(a)
  BY <1>1, <1>3, RecordedKeeps
<1> QED BY <1>2, <1>3 DEF Work

\* Every step keeps the snapshot up.
LEMMA SnapInvStep == CHInv /\ SnapInv /\ [CHNext]_chVars => SnapInv'
<1> SUFFICES ASSUME CHInv, SnapInv, [CHNext]_chVars PROVE SnapInv'
  OBVIOUS
<1>1. CHTyped /\ epoch \in Nat /\ epoch + 1 \in Nat /\ epoch <= epoch /\ epoch <= epoch + 1 /\ lastId \in Nat /\ lastId <= lastId
  BY DEF CHInv, CHTyped, CHTypes
<1>2. CASE TruckMoves \/ WarmUpOver \/ OwnerCrash \/ JanitorCloses \/ UNCHANGED chVars
  BY <1>1, <1>2, UnsavedKeeps DEF TruckMoves, WarmUpOver, OwnerCrash, JanitorCloses, chVars
<1>3. CASE Steal \/ Take
  BY <1>1, <1>3, UnsavedKeeps DEF Steal, Take, GrantedTo
<1>4. ASSUME NEW w \in late, NEW ours \in BOOLEAN, TimerFires(w, ours) PROVE SnapInv'
  BY <1>1, <1>4, UnsavedKeeps DEF TimerFires
<1>5. ASSUME NEW s \in slow, SlowSaveLands(s) PROVE SnapInv'
  BY <1>1, <1>5, SlowKeeps
<1>6. Finds \subseteq BOOLEAN
  BY DEF Finds
<1>7. ASSUME NEW found \in Finds, FrameOpens(found) PROVE SnapInv'
  BY <1>1, <1>6, <1>7, OpensWorks, WorkKeeps
<1>8. ASSUME NEW found \in Finds, FrameIdle(found) PROVE SnapInv'
  <2>1. MayRecord /\ Recorded(NoAcc) /\ lastId' = lastId
    BY <1>8 DEF FrameIdle
  <2> QED BY <1>1, <2>1, NoAccIs, RecordedKeeps
<1>9. ASSUME NEW found \in Finds, NEW due \in BOOLEAN, FrameCounts(found, due) PROVE SnapInv'
  BY <1>1, <1>6, <1>9, CountsWorks, WorkKeeps
<1>10. ASSUME NEW found \in Finds, NEW refused \in BOOLEAN, FrameCloses(found, refused) PROVE SnapInv'
  BY <1>1, <1>6, <1>10, ClosesWorks, WorkKeeps
<1> QED BY <1>2, <1>3, <1>4, <1>5, <1>7, <1>8, <1>9, <1>10 DEF CHNext

\* The snapshot keeps up in every reachable state.
LEMMA SnapInvariant == CHSpec => []SnapInv
BY SnapInvInit, SnapInvStep, HandoverInvariant, PTL DEF CHSpec

\* A late save takes nothing from what a later owner has saved.
THEOREM SnapshotsKeepUp == CHSpec => []SnapshotKeepsUp
<1>1. SnapInv => SnapshotKeepsUp
  BY DEF SnapInv
<1> QED BY <1>1, SnapInvariant, PTL

-----------------------------------------------------------------------------
\* A pod's first contact with a charge: the energy that it goes on with.
LEMMA FirstContact ==
    ASSUME CHInv, SnapInv, [CHNext]_chVars, ~ owner.loaded, owner'.loaded, owner'.acc.id \in Ids
    PROVE  owner'.acc.e >= IF LatestOpen = {owner'.acc.id} THEN charge[owner'.acc.id].e
                           ELSE known[owner'.acc.id]
<1>1. CHTyped /\ CHTypes /\ Finds \subseteq BOOLEAN /\ truck.soc \in Nat
  BY DEF CHInv, CHTyped, CHTypes, Finds
<1>2. ASSUME NEW b \in Accs, Recorded(b) PROVE owner'.acc = b
  BY <1>1, <1>2, RecordedIs
<1>3. \A i \in Ids : i # 0 /\ i \in Nat
  BY DEF Ids
<1>4. ~ FrameIdle(TRUE) /\ ~ FrameIdle(FALSE)
  BY <1>2, <1>3, NoAccIs DEF FrameIdle
<1>5. ASSUME NEW found \in BOOLEAN, FrameOpens(found)
      PROVE  owner'.acc.e >= IF LatestOpen = {owner'.acc.id} THEN charge[owner'.acc.id].e
                             ELSE known[owner'.acc.id]
  <2>1. Opened \in Accs /\ owner'.acc = Opened /\ (Begins \/ \E i \in Ids : Resumed(i))
    BY <1>1, <1>2, <1>5, OpenedIs DEF FrameOpens
  <2>2. CASE Begins
    <3>1. Opened.id = lastId + 1 /\ Opened.e = 0 /\ LatestOpen = {} /\ lastId \in Nat
      BY <1>1, <2>2 DEF Begins, CHTypes
    <3>2. known[Opened.id] = 0
      BY <2>1, <3>1 DEF SnapInv
    <3> QED BY <2>1, <3>1, <3>2
  <2>3. CASE \E i \in Ids : Resumed(i)
    <3>1. PICK i \in Ids : Resumed(i)
      BY <2>3
    <3>2. charge[i].e \in Nat /\ charge[i].soc \in Nat /\ charge[i].soc <= truck.soc
      BY <1>1 DEF CHTyped, CHTypes, Rows, Reached, RowReached
    <3>3. Opened.id = i /\ LatestOpen = {i} /\ Opened.e = charge[i].e + (truck.soc - charge[i].soc)
      BY <3>1 DEF Resumed
    <3> QED BY <1>1, <2>1, <3>2, <3>3
  <2> QED BY <2>1, <2>2, <2>3
<1>6. ASSUME NEW found \in BOOLEAN, NEW due \in BOOLEAN, FrameCounts(found, due)
      PROVE  owner'.acc.e >= IF LatestOpen = {owner'.acc.id} THEN charge[owner'.acc.id].e
                             ELSE known[owner'.acc.id]
  <2> DEFINE c == Contact(found)
  <2>1. c \in Accs /\ AccReached(c) /\ c.id # 0 /\ Recorded(Counted(c))
    BY <1>1, <1>6, ContactIs DEF FrameCounts
  <2>2. found
    <3>1. SUFFICES ASSUME ~ found PROVE FALSE
      OBVIOUS
    <3>2. c = NoAcc
      BY <3>1 DEF Contact
    <3> QED BY <2>1, <3>2, NoAccIs
  <2>3. c = Seeded(shelf.acc) /\ shelf.acc \in Accs /\ shelf.acc.anchor = -1
    BY <1>1, <2>2 DEF Contact, CHTyped, CHTypes, Reached
  <2> HIDE DEF c
  <2>4. PICK m \in Nat :
              /\ c = [shelf.acc EXCEPT !.e = m] /\ m >= shelf.acc.e
              /\ LatestOpen = {shelf.acc.id} => m >= charge[shelf.acc.id].e
    BY <1>1, <2>3, SeededIs
  <2>5. c.id = shelf.acc.id /\ c.e = m /\ c.anchor = -1 /\ shelf.acc.e \in Nat
    BY <2>3, <2>4 DEF Accs
  <2>6. Counted(c) \in Accs /\ Counted(c).id = c.id /\ Counted(c).e = m
    BY <1>1, <2>1, <2>5, CountedIs
  <2>7. owner'.acc = Counted(c)
    BY <1>2, <2>1, <2>6
  <2>8. shelf.acc.id \in Ids
    BY <2>5, <2>6, <2>7
  <2>9. shelf.acc.e >= known[shelf.acc.id] /\ known[shelf.acc.id] \in Nat
    BY <1>1, <2>8 DEF SnapInv, SnapshotKeepsUp, CHTypes
  <2>10. m >= known[shelf.acc.id]
    BY <2>4, <2>5, <2>9
  <2> QED BY <2>4, <2>5, <2>6, <2>7, <2>10
<1>7. ASSUME NEW found \in BOOLEAN, NEW refused \in BOOLEAN, FrameCloses(found, refused) PROVE FALSE
  <2>1. owner'.acc = NoAcc
    BY <1>2, <1>7, NoAccIs DEF FrameCloses
  <2> QED BY <1>3, <2>1, NoAccIs
<1>8. ~ (owner' = owner)
  OBVIOUS
<1>9. ASSUME NEW st \in {"off", "held", "warming"} PROVE ~ (owner' = Fresh(st))
  BY DEF Fresh
<1>10. ~ WarmUpOver
  BY <1>1 DEF WarmUpOver, CHTypes
<1>11. \/ \E found \in Finds :
             \/ FrameOpens(found) \/ FrameIdle(found)
             \/ \E b \in BOOLEAN : FrameCounts(found, b) \/ FrameCloses(found, b)
  <2>1. ~ TruckMoves /\ ~ JanitorCloses /\ ~ UNCHANGED chVars
    BY <1>8 DEF TruckMoves, JanitorCloses, chVars
  <2>2. ~ Steal /\ ~ Take /\ ~ OwnerCrash
    BY <1>9 DEF Steal, Take, GrantedTo, OwnerCrash
  <2>3. \A w \in late, ours \in BOOLEAN : ~ TimerFires(w, ours)
    BY <1>8 DEF TimerFires
  <2>4. \A s \in slow : ~ SlowSaveLands(s)
    BY <1>8 DEF SlowSaveLands
  <2> QED BY <1>10, <2>1, <2>2, <2>3, <2>4 DEF CHNext
<1> QED BY <1>1, <1>4, <1>5, <1>6, <1>7, <1>11

\* A pod that goes on with a charge has at least what the open row or the snapshots have.
THEOREM EnergyHandedOver == CHSpec => HandoverKeepsEnergy
<1>1. CHInv /\ SnapInv /\ [CHNext]_chVars =>
        [LET a == owner'.acc IN
         (~ owner.loaded /\ owner'.loaded /\ a.id \in Ids) =>
           a.e >= IF LatestOpen = {a.id} THEN charge[a.id].e ELSE known[a.id]]_chVars
  BY FirstContact
<1> QED BY <1>1, HandoverInvariant, SnapInvariant, PTL DEF CHSpec, HandoverKeepsEnergy
=============================================================================
