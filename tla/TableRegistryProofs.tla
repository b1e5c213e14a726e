------------------------- MODULE TableRegistryProofs -------------------------
(***************************************************************************)
(* Proofs about TableRegistry, for every value of its constants.           *)
(***************************************************************************)
EXTENDS TableRegistryInv, FiniteSetTheorems, WellFoundedInduction, TLAPS

-----------------------------------------------------------------------------
(* Rings                                                                   *)

Succ(L, r, x) == SafeLink(r, L[x].next)
Pred(L, r, x) == SafeLink(r, L[x].prev)

\* With links L, the handles of set H are on one ring with record r.
RingOf(L, r, H) ==
  /\ \A x \in H \cup {r} :
       /\ Succ(L, r, x) \in H \cup {r} /\ Pred(L, r, Succ(L, r, x)) = x
       /\ Pred(L, r, x) \in H \cup {r} /\ Succ(L, r, Pred(L, r, x)) = x
  /\ \A part \in SUBSET H : part # {} => \E x \in part : Succ(L, r, x) \notin part

AllLinks == [Records \cup Descriptors -> Links]

(* The lists of a record are a ring in both directions.                    *)
LEMMA RingsAre ==
  ListsSound /\ BackInv <=> \A r \in Records : Registry[r].used => RingOf(Link, r, HandlesOn(r))
BY DEF ListsSound, BackInv, RingOf, Succ, Pred

(* What is no record is not the way to one.                                *)
LEMMA NoneApart ==
  /\ None \notin Records /\ None \notin Descriptors /\ None \notin Apps /\ None \notin Names
  /\ \A r \in Records : r \notin Descriptors
BY NoneAssumption, TableAssumption

(* CFE_TBL_HandleListInsertLink puts a new handle first on the ring.       *)
LEMMA InsertRing ==
  ASSUME NEW r \in Records, NEW d \in Descriptors, NEW H \in SUBSET Descriptors, d \notin H,
         Link \in AllLinks, RingOf(Link, r, H)
  PROVE  /\ InsertLink(r, d) \in AllLinks
         /\ RingOf(InsertLink(r, d), r, H \cup {d})
         /\ \A x \in (Records \cup Descriptors) \ (H \cup {r, d}) : InsertLink(r, d)[x] = Link[x]
<1> DEFINE All == Records \cup Descriptors
           next == Link[r].next
           s == SafeLink(r, next)
           L1 == [Link EXCEPT ![d] = [next |-> next, prev |-> None]]
           L2 == [L1 EXCEPT ![r].next = d]
           M == [L2 EXCEPT ![s].prev = d]
<1>a. r # d /\ r \notin H /\ None \notin H /\ d # None /\ r \in All /\ d \in All /\ H \subseteq All
  BY NoneApart
<1>1. M = InsertLink(r, d)  BY DEF InsertLink
<1>2. next \in Descriptors \cup {None} /\ s \in H \cup {r} /\ s \in All /\ s # d
  BY <1>a DEF AllLinks, Links, RingOf, Succ
<1>3. L1 \in AllLinks /\ L1[d] = [next |-> next, prev |-> None] /\ \A x \in All \ {d} : L1[x] = Link[x]
  <2>1. [next |-> next, prev |-> None] \in Links  BY <1>2 DEF Links
  <2> HIDE DEF next
  <2> QED BY <1>a, <2>1 DEF AllLinks
<1>4. /\ L2 \in AllLinks /\ L2[r].next = d /\ L2[r].prev = Link[r].prev
      /\ \A x \in All \ {r} : L2[x] = L1[x]
  <2> HIDE DEF L1
  <2> QED BY <1>3, <1>a DEF AllLinks, Links
<1>5. /\ M \in AllLinks /\ M[s].prev = d /\ M[s].next = L2[s].next
      /\ \A x \in All \ {s} : M[x] = L2[x]
  <2> HIDE DEF L2, s
  <2> QED BY <1>4, <1>2 DEF AllLinks, Links
<1> HIDE DEF L1, L2, M
<1>6. \A x \in All \ (H \cup {r, d}) : M[x] = Link[x]
  BY <1>2, <1>3, <1>4, <1>5, <1>a
<1>7. /\ M[r].next = d /\ M[d].next = next /\ M[d].prev = None
      /\ \A x \in H : M[x].next = Link[x].next
      /\ \A x \in (H \cup {r}) \ {s} : M[x].prev = Link[x].prev
  BY <1>2, <1>3, <1>4, <1>5, <1>a
<1> HIDE DEF next
<1>8. /\ Succ(M, r, r) = d /\ Succ(M, r, d) = s /\ \A x \in H : Succ(M, r, x) = Succ(Link, r, x)
      /\ Pred(M, r, d) = r /\ Pred(M, r, s) = d
      /\ \A x \in (H \cup {r}) \ {s} : Pred(M, r, x) = Pred(Link, r, x)
      /\ s = Succ(Link, r, r)
  BY <1>5, <1>7, <1>a DEF Succ, Pred, SafeLink, next
<1> HIDE DEF s
<1>9. \A x \in H \cup {r, d} :
        /\ Succ(M, r, x) \in H \cup {r, d} /\ Pred(M, r, Succ(M, r, x)) = x
        /\ Pred(M, r, x) \in H \cup {r, d} /\ Succ(M, r, Pred(M, r, x)) = x
  BY <1>8, <1>2, <1>a DEF RingOf
<1>10. ASSUME NEW part \in SUBSET (H \cup {d}), part # {}
       PROVE  \E x \in part : Succ(M, r, x) \notin part
  <2>1. CASE part = {d}  BY <2>1, <1>8, <1>2
  <2>2. CASE part # {d}
    <3>1. part \ {d} \in SUBSET H /\ part \ {d} # {}  BY <2>2, <1>10
    <3>2. PICK x \in part \ {d} : Succ(Link, r, x) \notin part \ {d}  BY <3>1 DEF RingOf
    <3>3. Succ(Link, r, x) # d /\ Succ(M, r, x) = Succ(Link, r, x)
      BY <3>1, <1>8, <1>a DEF RingOf
    <3> QED BY <3>2, <3>3
  <2> QED BY <2>1, <2>2
<1> QED BY <1>1, <1>5, <1>6, <1>9, <1>10 DEF RingOf

(* CFE_TBL_HandleListRemoveLink takes a handle out of the ring.            *)
LEMMA RemoveRing ==
  ASSUME NEW r \in Records, NEW H \in SUBSET Descriptors, NEW d \in H,
         Link \in AllLinks, RingOf(Link, r, H)
  PROVE  /\ RemoveLink(r, d) \in AllLinks
         /\ RingOf(RemoveLink(r, d), r, H \ {d})
         /\ \A x \in (Records \cup Descriptors) \ (H \cup {r}) : RemoveLink(r, d)[x] = Link[x]
         /\ RemoveLink(r, d)[d] = NoLink
         /\ IsAttached(RemoveLink(r, d)[r]) <=> H # {d}
         /\ H = {d} => RemoveLink(r, d)[r] = NoLink
<1> DEFINE All == Records \cup Descriptors
           next == Link[d].next
           prev == Link[d].prev
           s == SafeLink(r, next)
           p == SafeLink(r, prev)
           L1 == [Link EXCEPT ![p].next = next]
           L2 == [L1 EXCEPT ![s].prev = prev]
           M == [L2 EXCEPT ![d] = NoLink]
           ring == (H \ {d}) \cup {r}
<1>a. r # d /\ r \notin H /\ None \notin H /\ d # None /\ r \in All /\ d \in All /\ H \subseteq All /\ r # None
  BY NoneApart
<1>1. M = RemoveLink(r, d)  BY DEF RemoveLink
<1>2. next \in Descriptors \cup {None} /\ prev \in Descriptors \cup {None}
  BY <1>a DEF AllLinks, Links
<1>3. s = Succ(Link, r, d) /\ p = Pred(Link, r, d)  BY DEF Succ, Pred
<1>4. Succ(Link, r, d) # d
  <2>1. {d} \in SUBSET H  OBVIOUS
  <2> QED BY <2>1 DEF RingOf
<1>5. s \in ring /\ p \in ring /\ s \in All /\ p \in All /\ Succ(Link, r, p) = d /\ Pred(Link, r, s) = d
  <2>1. s \in H \cup {r} /\ p \in H \cup {r} /\ Succ(Link, r, p) = d /\ Pred(Link, r, s) = d
    BY <1>3 DEF RingOf
  <2>2. s # d /\ p # d  BY <1>3, <1>4, <2>1
  <2> QED BY <2>1, <2>2, <1>a
<1>6. /\ L1 \in AllLinks /\ L1[p].next = next /\ L1[p].prev = Link[p].prev
      /\ \A x \in All \ {p} : L1[x] = Link[x]
  <2> HIDE DEF p, next
  <2> QED BY <1>2, <1>5 DEF AllLinks, Links
<1>7. /\ L2 \in AllLinks /\ L2[s].prev = prev /\ L2[s].next = L1[s].next
      /\ \A x \in All \ {s} : L2[x] = L1[x]
  <2> HIDE DEF L1, s, prev
  <2> QED BY <1>2, <1>5, <1>6 DEF AllLinks, Links
<1>8. M \in AllLinks /\ M[d] = NoLink /\ \A x \in All \ {d} : M[x] = L2[x]
  <2>1. NoLink \in Links  BY DEF NoLink, Links
  <2> HIDE DEF L2
  <2> QED BY <2>1, <1>7, <1>a DEF AllLinks
<1>9. \A x \in All \ (H \cup {r}) : M[x] = Link[x]
  <2> HIDE DEF L1, L2, M, s, p
  <2> QED BY <1>5, <1>6, <1>7, <1>8
<1>10. /\ M[p].next = next /\ \A x \in ring \ {p} : M[x].next = Link[x].next
       /\ M[s].prev = prev /\ \A x \in ring \ {s} : M[x].prev = Link[x].prev
  <2> HIDE DEF L1, L2, M, s, p, next, prev
  <2>1. ring \subseteq All \ {d}  BY <1>a
  <2> HIDE DEF ring, All
  <2>2. \A x \in ring : M[x] = L2[x]  BY <2>1, <1>8
  <2>3. L2[p].next = L1[p].next /\ \A x \in ring : L2[x].next = L1[x].next  BY <2>1, <1>5, <1>7
  <2>4. \A x \in ring : L1[x].prev = Link[x].prev  BY <2>1, <1>5, <1>6
  <2>5. \A x \in ring \ {p} : L1[x].next = Link[x].next  BY <2>1, <1>5, <1>6
  <2>6. \A x \in ring \ {s} : L2[x].prev = L1[x].prev  BY <2>1, <1>5, <1>7
  <2> QED BY <2>1, <2>2, <2>3, <2>4, <2>5, <2>6, <1>5, <1>6, <1>7
<1>11. /\ Succ(M, r, p) = s /\ \A x \in ring \ {p} : Succ(M, r, x) = Succ(Link, r, x)
       /\ Pred(M, r, s) = p /\ \A x \in ring \ {s} : Pred(M, r, x) = Pred(Link, r, x)
  <2> HIDE DEF L1, L2, M, ring, next, prev
  <2> QED BY <1>10 DEF Succ, Pred
<1> HIDE DEF L1, L2, M, s, p, next, prev
<1>12. ASSUME NEW x \in ring
       PROVE  /\ Succ(M, r, x) \in ring /\ Pred(M, r, Succ(M, r, x)) = x
              /\ Pred(M, r, x) \in ring /\ Succ(M, r, Pred(M, r, x)) = x
  <2>1. x \in H \cup {r} /\ x # d  BY <1>a
  <2>2. /\ Succ(Link, r, x) \in H \cup {r} /\ Pred(Link, r, Succ(Link, r, x)) = x
        /\ Pred(Link, r, x) \in H \cup {r} /\ Succ(Link, r, Pred(Link, r, x)) = x
    BY <2>1 DEF RingOf
  <2>3. Succ(M, r, x) \in ring /\ Pred(M, r, Succ(M, r, x)) = x
    <3>1. CASE x = p  BY <3>1, <1>5, <1>11
    <3>2. CASE x # p
      <4>1. Succ(Link, r, x) # d  BY <3>2, <2>2, <1>3
      <4>2. Succ(Link, r, x) # s  BY <1>5, <2>2, <2>1
      <4> QED BY <3>2, <4>1, <4>2, <2>2, <1>11
    <3> QED BY <3>1, <3>2
  <2>4. Pred(M, r, x) \in ring /\ Succ(M, r, Pred(M, r, x)) = x
    <3>1. CASE x = s  BY <3>1, <1>5, <1>11
    <3>2. CASE x # s
      <4>1. Pred(Link, r, x) # d  BY <3>2, <2>2, <1>3
      <4>2. Pred(Link, r, x) # p  BY <1>5, <2>2, <2>1
      <4> QED BY <3>2, <4>1, <4>2, <2>2, <1>11
    <3> QED BY <3>1, <3>2
  <2> QED BY <2>3, <2>4
<1>13. ASSUME NEW part \in SUBSET (H \ {d}), part # {}
       PROVE  \E x \in part : Succ(M, r, x) \notin part
  <2>0. part \subseteq ring /\ d \notin part  OBVIOUS
  <2>1. CASE p \in part
    <3>1. part \cup {d} \in SUBSET H /\ part \cup {d} # {}  OBVIOUS
    <3>2. PICK x \in part \cup {d} : Succ(Link, r, x) \notin part \cup {d}  BY <3>1 DEF RingOf
    <3>3. CASE x = d  BY <3>2, <3>3, <2>1, <1>3, <1>11
    <3>4. CASE x # d
      <4>1. x # p  BY <3>2, <1>5
      <4> QED BY <4>1, <3>2, <3>4, <2>0, <1>11
    <3> QED BY <3>3, <3>4
  <2>2. CASE p \notin part
    <3>1. PICK x \in part : Succ(Link, r, x) \notin part  BY <1>13 DEF RingOf
    <3> QED BY <3>1, <2>0, <2>2, <1>11
  <2> QED BY <2>1, <2>2
<1>14. RingOf(M, r, H \ {d})
  BY <1>12, <1>13 DEF RingOf
<1>15. ASSUME H = {d} PROVE M[r] = NoLink
  <2>1. ring = {r}  BY <1>15
  <2>2. M[r].next \in Descriptors \cup {None} /\ M[r].prev \in Descriptors \cup {None}
    BY <1>8, <1>a DEF AllLinks, Links
  <2>3. Succ(M, r, r) = r /\ Pred(M, r, r) = r  BY <1>12, <2>1
  <2>4. M[r].next = None /\ M[r].prev = None  BY <2>2, <2>3, NoneApart DEF Succ, Pred, SafeLink
  <2>5. M[r] \in Links  BY <1>8, <1>a DEF AllLinks
  <2> QED BY <2>4, <2>5 DEF Links, NoLink
<1>16. ASSUME M[r].next = None, H # {d} PROVE FALSE
  <2>1. Succ(M, r, r) = r  BY <1>16 DEF Succ, SafeLink
  <2>2. H \ {d} # {}  BY <1>16
  <2>3. PICK x \in H \ {d} : Succ(M, r, x) \notin H \ {d}  BY <2>2, <1>13
  <2>4. Succ(M, r, x) = r  BY <2>3, <1>12
  <2>5. x = r  BY <2>1, <2>4, <1>12
  <2> QED BY <2>5, <1>a
<1> QED BY <1>1, <1>8, <1>9, <1>14, <1>15, <1>16 DEF IsAttached, NoLink

-----------------------------------------------------------------------------
(* Entries                                                                 *)

(* What a handle of an app is about.                                       *)
LEMMA HandleFacts ==
  ASSUME TypeOK, EntriesInv, NEW d \in Descriptors, Handles[d].app # None
  PROVE  /\ Handles[d].used /\ Handles[d].app \in Apps /\ Handles[d].reg \in Records
         /\ d \in HandlesOn(Handles[d].reg)
         /\ Registry[Handles[d].reg].used /\ Registry[Handles[d].reg].name \in Names
<1>1. Handles[d] \in Desc  BY DEF TypeOK
<1>2. Handles[d].used  BY DEF EntriesInv, FreeDesc
<1>3. Handles[d].reg # None /\ Registry[Handles[d].reg].name # None  BY DEF EntriesInv
<1>4. Handles[d].reg \in Records /\ Handles[d].app \in Apps  BY <1>1, <1>3 DEF Desc
<1>5. Registry[Handles[d].reg].used  BY <1>3, <1>4 DEF EntriesInv, FreeRec
<1>6. Registry[Handles[d].reg] \in Rec  BY <1>4 DEF TypeOK
<1> QED BY <1>2, <1>3, <1>4, <1>5, <1>6 DEF HandlesOn, Rec

LEMMA HoldsFacts ==
  ASSUME TypeOK, EntriesInv, NEW a \in Apps, NEW r \in Records, Holds(a, r)
  PROVE  /\ Registry[r].used /\ Registry[r].name \in Names
         /\ \E d \in Descriptors : Handles[d].app = a /\ Handles[d].reg = r /\ d \in HandlesOn(r)
<1>1. PICK d \in Descriptors : Handles[d].app = a /\ Handles[d].reg = r  BY DEF Holds
<1>2. Handles[d].app # None  BY <1>1, NoneApart
<1> QED BY <1>1, <1>2, HandleFacts

(* The entry of a record keeps what its handles depend on.                 *)
KeepsRecord(r) == /\ Registry'[r].used = Registry[r].used /\ Registry'[r].name = Registry[r].name
                  /\ Registry'[r].owner = Registry[r].owner /\ Registry'[r].blocks = Registry[r].blocks
                  /\ ~Registry[r].used => Registry'[r] = Registry[r]

KeepsRecords == \A r \in Records : KeepsRecord(r)

LEMMA EntriesKept ==
  ASSUME EntriesInv, KeepsRecords, UNCHANGED <<Handles, Link>>,
         \A d \in Descriptors : Handles[d].app # None => app'[Handles[d].app] # "out", TypeOK
  PROVE  EntriesInv'
<1> USE DEF KeepsRecords, KeepsRecord
<1>1. \A r \in Records : HandlesOn(r)' = HandlesOn(r)  BY DEF HandlesOn
<1>2. ASSUME NEW r \in Records
      PROVE  /\ ~Registry'[r].used => Registry'[r] = FreeRec
             /\ Registry'[r].name = None =>
                  Link'[r] = NoLink /\ HandlesOn(r)' = {} /\ Registry'[r].owner = None
             /\ Registry'[r].name # None =>
                  /\ HandlesOn(r)' # {}
                  /\ Registry'[r].owner # None => Holds(Registry[r].owner, r)'
  BY <1>1 DEF EntriesInv, Holds
<1>3. ASSUME NEW d \in Descriptors
      PROVE  /\ ~Handles'[d].used => Handles'[d] = FreeDesc
             /\ Handles'[d].app = None <=> Handles'[d].reg = None
             /\ Handles'[d].app # None =>
                  app'[Handles'[d].app] # "out" /\ Registry'[Handles'[d].reg].name # None
  <2>1. ~Handles'[d].used => Handles'[d] = FreeDesc  BY DEF EntriesInv
  <2>2. Handles'[d].app = None <=> Handles'[d].reg = None  BY DEF EntriesInv
  <2>3. CASE Handles[d].app # None
    <3>1. Handles[d].app \in Apps /\ Handles[d].reg \in Records  BY <2>3, HandleFacts
    <3> QED BY <3>1, <2>3 DEF EntriesInv
  <2> QED BY <2>1, <2>2, <2>3 DEF EntriesInv
<1>4. \A r, s \in Records : Registry'[r].name = Registry'[s].name /\ Registry'[r].name # None => r = s
  BY DEF EntriesInv
<1> QED BY <1>2, <1>3, <1>4 DEF EntriesInv

LEMMA RingsKept ==
  ASSUME ListsSound, BackInv, KeepsRecords, UNCHANGED <<Handles, Link>>
  PROVE  ListsSound' /\ BackInv'
<1>1. \A r \in Records : HandlesOn(r)' = HandlesOn(r)  BY DEF HandlesOn
<1> QED BY <1>1 DEF ListsSound, BackInv, KeepsRecords, KeepsRecord

(* A part of the registry's blocks is taken, the others are in the pool.   *)
BlocksWhole == pool + Cardinality(Taken) = PoolBlocks

LEMMA BlocksKept ==
  ASSUME BlocksWhole, KeepsRecords, pool' = pool
  PROVE  BlocksWhole'
<1>1. Taken' = Taken
  <2>1. \A x \in Records \X (1..2) : Registry'[x[1]].blocks = Registry[x[1]].blocks
    BY DEF KeepsRecords, KeepsRecord
  <2> QED BY <2>1 DEF Taken
<1> QED BY <1>1 DEF BlocksWhole

-----------------------------------------------------------------------------
(* A registration                                                          *)

LEMMA FreeTypes ==
  /\ FreeRec \in Rec /\ FreeDesc \in Desc /\ NoLink \in Links /\ NotCopying \in Copy /\ Idle \in Call
  /\ FreeCrit \in Crit /\ NoStore \in Store
BY BoundAssumption DEF FreeRec, FreeDesc, NoLink, NotCopying, Idle, FreeCrit, NoStore,
   Rec, Desc, Links, Copy, Call, Crit, Store, Recovery

(* A new record of app a for name n.                                       *)
NewRec(a, n, kind) ==
  [FreeRec EXCEPT !.used = TRUE, !.name = n, !.owner = a, !.double = kind.double, !.blocks = BlocksOf(kind)]

LEMMA KindFacts ==
  ASSUME NEW n \in Names, NEW kind \in Kinds[n]
  PROVE  kind.double \in BOOLEAN /\ kind.critical \in BOOLEAN /\ BlocksOf(kind) \in 1..2
BY TableAssumption DEF BlocksOf

LEMMA RegisterType ==
  ASSUME TypeOK, NEW a \in Apps, NEW n \in Names, NEW kind \in Kinds[n], Register(a, n, kind)
  PROVE  TypeOK'
<1>1. PICK r \in Records, d \in FreeDescriptors :
    /\ Registers(a, n, r)
    /\ pool >= BlocksOf(kind)
    /\ pool' = pool - BlocksOf(kind)
    /\ Registry' = [Registry EXCEPT ![r] = NewRec(a, n, kind)]
    /\ Handles' = [Handles EXCEPT ![d] = [used |-> TRUE, app |-> a, reg |-> r]]
    /\ Link' = InsertLink(r, d)
    /\ op' = IF kind.critical THEN [Idle EXCEPT !.at = "RegisterCds", !.app = a, !.rec = r] ELSE Idle
    /\ UNCHANGED <<app, todo, storeVars, copying, deleting, may>>
  BY DEF Register, NewRec
<1>2. NewRec(a, n, kind) \in Rec
  <2>1. BlocksOf(kind) \in 0..2 /\ kind.double \in BOOLEAN /\ 0 \in 0..2 /\ 0 \in 0..MaxStores
    BY KindFacts, BoundAssumption
  <2> QED BY <2>1 DEF NewRec, FreeRec, Rec
<1>3. d \in Descriptors  BY DEF FreeDescriptors
<1>4. [used |-> TRUE, app |-> a, reg |-> r] \in Desc  BY DEF Desc
<1>5. op' \in Call  BY <1>1 DEF Call, Idle
<1>6. pool' \in Nat  BY <1>1, KindFacts DEF TypeOK
<1>7. Link' \in [Records \cup Descriptors -> Links]
  <2>1. Link \in AllLinks  BY DEF TypeOK, AllLinks
  <2>2. SafeLink(r, Link[r].next) \in Records \cup Descriptors /\ Link[r].next \in Descriptors \cup {None}
    BY <2>1 DEF AllLinks, Links, SafeLink
  <2> DEFINE L1 == [Link EXCEPT ![d] = [next |-> Link[r].next, prev |-> None]]
             L2 == [L1 EXCEPT ![r].next = d]
  <2>3. L1 \in AllLinks
    <3>1. [next |-> Link[r].next, prev |-> None] \in Links  BY <2>2 DEF Links
    <3> QED BY <2>1, <3>1 DEF AllLinks
  <2>4. L2 \in AllLinks
    <3> HIDE DEF L1
    <3> QED BY <2>3, <1>3 DEF AllLinks, Links
  <2>5. [L2 EXCEPT ![SafeLink(r, Link[r].next)].prev = d] \in AllLinks
    <3> HIDE DEF L2
    <3> QED BY <2>4, <2>2, <1>3 DEF AllLinks, Links
  <2>6. InsertLink(r, d) = [L2 EXCEPT ![SafeLink(r, Link[r].next)].prev = d]  BY DEF InsertLink
  <2> QED BY <1>1, <2>5, <2>6 DEF AllLinks
<1>8. Registry' \in [Records -> Rec] /\ Handles' \in [Descriptors -> Desc]
  <2> HIDE DEF NewRec
  <2> QED BY <1>1, <1>2, <1>3, <1>4 DEF TypeOK
<1> QED BY <1>1, <1>5, <1>6, <1>7, <1>8 DEF TypeOK, storeVars

(* A ring depends on the links of its members alone.                       *)
LEMMA RingFrame ==
  ASSUME NEW L, NEW M, NEW r \in Records, NEW H \in SUBSET Descriptors,
         RingOf(L, r, H), \A x \in H \cup {r} : M[x] = L[x]
  PROVE  RingOf(M, r, H)
<1>1. \A x \in H \cup {r} : Succ(M, r, x) = Succ(L, r, x) /\ Pred(M, r, x) = Pred(L, r, x)
  BY DEF Succ, Pred
<1> QED BY <1>1 DEF RingOf

LEMMA EmptyRing ==
  ASSUME NEW L, NEW r \in Records, L[r] = NoLink
  PROVE  RingOf(L, r, {})
BY DEF RingOf, Succ, Pred, SafeLink, NoLink

(* A free descriptor becomes a handle of app a on record r.                *)
AddsHandle(a, r, d) ==
  /\ Handles' = [Handles EXCEPT ![d] = [used |-> TRUE, app |-> a, reg |-> r]]
  /\ Link' = InsertLink(r, d)

LEMMA AddHandlePoints ==
  ASSUME TypeOK, EntriesInv, NEW a \in Apps, NEW r \in Records, NEW d \in FreeDescriptors,
         AddsHandle(a, r, d)
  PROVE  /\ d \in Descriptors /\ ~Handles[d].used /\ Handles[d] = FreeDesc
         /\ Handles'[d] = [used |-> TRUE, app |-> a, reg |-> r]
         /\ \A e \in Descriptors \ {d} : Handles'[e] = Handles[e]
<1>1. d \in Descriptors /\ ~Handles[d].used  BY DEF FreeDescriptors
<1>2. Handles[d] = FreeDesc  BY <1>1 DEF EntriesInv
<1>3. /\ Handles'[d] = [used |-> TRUE, app |-> a, reg |-> r]
      /\ \A e \in Descriptors \ {d} : Handles'[e] = Handles[e]
  BY <1>1 DEF TypeOK, AddsHandle
<1> QED BY <1>1, <1>2, <1>3

LEMMA AddHandle ==
  ASSUME TypeOK, EntriesInv, NEW a \in Apps, NEW r \in Records, NEW d \in FreeDescriptors,
         AddsHandle(a, r, d)
  PROVE  /\ HandlesOn(r)' = HandlesOn(r) \cup {d} /\ d \notin HandlesOn(r)
         /\ \A s \in Records \ {r} : HandlesOn(s)' = HandlesOn(s)
<1>1. d \in Descriptors /\ ~Handles[d].used  BY DEF FreeDescriptors
<1>3. /\ Handles'[d] = [used |-> TRUE, app |-> a, reg |-> r]
      /\ \A e \in Descriptors \ {d} : Handles'[e] = Handles[e]
  BY AddHandlePoints
<1>4. \A s \in Records : HandlesOn(s)' = {e \in Descriptors : Handles'[e].used /\ Handles'[e].reg = s}
  BY DEF HandlesOn
<1>5. \A s \in Records \ {r} : HandlesOn(s)' = HandlesOn(s)
  <2> SUFFICES ASSUME NEW s \in Records \ {r}, NEW e \in Descriptors
               PROVE  (Handles'[e].used /\ Handles'[e].reg = s) <=> (Handles[e].used /\ Handles[e].reg = s)
    BY <1>4 DEF HandlesOn
  <2> QED BY <1>1, <1>3
<1>6. HandlesOn(r)' = HandlesOn(r) \cup {d}
  <2>1. \A e \in Descriptors :
          (Handles'[e].used /\ Handles'[e].reg = r) <=> (Handles[e].used /\ Handles[e].reg = r) \/ e = d
    BY <1>1, <1>3
  <2> QED BY <2>1, <1>1, <1>4 DEF HandlesOn
<1> QED BY <1>1, <1>3, <1>5, <1>6 DEF HandlesOn

LEMMA AddHandleRings ==
  ASSUME TypeOK, EntriesInv, NEW a \in Apps, NEW r \in Records, NEW d \in FreeDescriptors,
         AddsHandle(a, r, d), RingOf(Link, r, HandlesOn(r)),
         \A s \in Records \ {r} : Registry'[s].used => RingOf(Link, s, HandlesOn(s))
  PROVE  /\ ListsSound' /\ BackInv'
         /\ \A s \in Records \ {r} : Link'[s] = Link[s]
<1>1. /\ d \in Descriptors /\ d \notin HandlesOn(r)
      /\ HandlesOn(r)' = HandlesOn(r) \cup {d}
      /\ \A s \in Records \ {r} : HandlesOn(s)' = HandlesOn(s)
      /\ Link' = InsertLink(r, d)
      /\ ~Handles[d].used
  BY AddHandle DEF AddsHandle, FreeDescriptors
<1>2. Link \in AllLinks  BY DEF TypeOK, AllLinks
<1>3. \A s \in Records : HandlesOn(s) \in SUBSET Descriptors  BY DEF HandlesOn
<1>4. /\ RingOf(Link', r, HandlesOn(r) \cup {d})
      /\ \A x \in (Records \cup Descriptors) \ (HandlesOn(r) \cup {r, d}) : Link'[x] = Link[x]
  BY <1>1, <1>2, <1>3, InsertRing
<1>5. ASSUME NEW s \in Records, Registry'[s].used, s # r
      PROVE  RingOf(Link', s, HandlesOn(s)')
  <2>1. \A x \in HandlesOn(s) \cup {s} :
          x \in (Records \cup Descriptors) \ (HandlesOn(r) \cup {r, d})
    BY <1>1, <1>5, NoneApart DEF HandlesOn
  <2>2. \A x \in HandlesOn(s) \cup {s} : Link'[x] = Link[x]  BY <1>4, <2>1
  <2>3. RingOf(Link', s, HandlesOn(s))  BY <2>2, <1>3, <1>5, RingFrame
  <2> QED BY <2>3, <1>1, <1>5
<1>6. \A s \in Records : Registry'[s].used => RingOf(Link', s, HandlesOn(s)')
  BY <1>1, <1>4, <1>5
<1>7. \A s \in Records \ {r} : Link'[s] = Link[s]
  BY <1>4, <1>1, NoneApart DEF HandlesOn
<1> QED BY <1>6, <1>7 DEF ListsSound, BackInv, RingOf, Succ, Pred

(* A call goes on over the coming of handles.                              *)
LEMMA CallsKeepHandles ==
  ASSUME TypeOK, EntriesInv, NEW a \in Apps, NEW r \in Records, NEW d \in FreeDescriptors,
         AddsHandle(a, r, d), NEW b \in Apps, NEW s \in Records, Holds(b, s)
  PROVE  Holds(b, s)'
<1>1. PICK e \in Descriptors : Handles[e].app = b /\ Handles[e].reg = s  BY DEF Holds
<1>2. Handles[d] = FreeDesc /\ \A f \in Descriptors \ {d} : Handles'[f] = Handles[f]
  BY AddHandlePoints
<1>3. e # d  BY <1>1, <1>2, NoneApart DEF FreeDesc
<1> QED BY <1>1, <1>2, <1>3 DEF Holds

(* The app that gets a handle runs, and cleans nothing up.                 *)
LEMMA CallsGrow ==
  ASSUME TypeOK, EntriesInv, CallsInv, NEW a \in Apps, NEW r \in Records, NEW d \in FreeDescriptors,
         AddsHandle(a, r, d), MayCall(a), Unlocked, UNCHANGED <<app, todo, copying>>,
         op' = Idle \/ (op'.app = a /\ op'.rec = r /\ op'.at # "Idle")
  PROVE  CallsInv'
<1>1. /\ d \in Descriptors /\ Handles[d] = FreeDesc
      /\ Handles'[d] = [used |-> TRUE, app |-> a, reg |-> r]
      /\ \A e \in Descriptors \ {d} : Handles'[e] = Handles[e]
  BY AddHandlePoints
<1>2. app[a] = "running" /\ copying[a] = NotCopying  BY DEF MayCall
<1>3. Holds(a, r)'  BY <1>1 DEF Holds
<1>4. \A b \in Apps, s \in Records : Holds(b, s) => Holds(b, s)'  BY CallsKeepHandles
<1>5. ASSUME NEW b \in Apps
      PROVE  /\ copying'[b].at = "No" => copying'[b] = NotCopying
             /\ copying'[b].at # "No" => /\ app'[b] = "running"
                                         /\ copying'[b].rec \in Records /\ Holds(b, copying[b].rec)'
             /\ todo'[b] = IF app'[b] = "cleaning" THEN {e \in Descriptors : Handles'[e].app = b} ELSE {}
  <2>1. copying'[b].at = "No" => copying'[b] = NotCopying  BY DEF CallsInv
  <2>2. copying'[b].at # "No" => /\ app'[b] = "running"
                                 /\ copying'[b].rec \in Records /\ Holds(b, copying[b].rec)'
    BY <1>4 DEF CallsInv
  <2>3. todo'[b] = IF app'[b] = "cleaning" THEN {e \in Descriptors : Handles'[e].app = b} ELSE {}
    <3>1. CASE app[b] = "cleaning"
      <4>1. b # a  BY <1>2, <3>1
      <4>2. \A e \in Descriptors : Handles'[e].app = b <=> Handles[e].app = b
        BY <1>1, <4>1, NoneApart DEF FreeDesc
      <4> QED BY <4>2, <3>1 DEF CallsInv
    <3> QED BY <3>1 DEF CallsInv
  <2> QED BY <2>1, <2>2, <2>3
<1>6. /\ op'.at = "Idle" => op' = Idle
      /\ op'.at # "Idle" => /\ op'.app \in Apps /\ app'[op'.app] = "running" /\ copying'[op'.app] = NotCopying
                            /\ op'.rec \in Records /\ Holds(op.app, op.rec)'
  <2>1. CASE op' = Idle  BY <2>1 DEF Idle
  <2>2. CASE op'.app = a /\ op'.rec = r /\ op'.at # "Idle"
    <3>1. Holds(op.app, op.rec)'  BY <1>3, <2>2 DEF Holds
    <3> QED BY <3>1, <2>2, <1>2
  <2> QED BY <2>1, <2>2
<1> QED BY <1>5, <1>6 DEF CallsInv

(* Blocks of one record more or less.                                      *)
TakenOf(R)     == {x \in Records \X (1..2) : x[2] <= R[x[1]].blocks}
TakenBut(R, r) == {x \in TakenOf(R) : x[1] # r}

LEMMA TakenFinite == ASSUME NEW R PROVE IsFiniteSet(TakenOf(R))
<1>1. IsFiniteSet(Records)  BY TableAssumption
<1>2. IsFiniteSet(1..2)
  <2>1. 1 \in Int /\ 2 \in Int  OBVIOUS
  <2> QED BY <2>1, FS_Interval, Zenon
<1>3. IsFiniteSet(Records \X (1..2))  BY <1>1, <1>2, FS_Product
<1>4. TakenOf(R) \subseteq Records \X (1..2)  BY DEF TakenOf
<1> QED BY <1>3, <1>4, FS_Subset

LEMMA TakenBy ==
  ASSUME NEW R, NEW r \in Records, R[r].blocks \in 0..2
  PROVE  /\ Cardinality(TakenOf(R)) = Cardinality(TakenBut(R, r)) + R[r].blocks
         /\ Cardinality(TakenBut(R, r)) \in Nat /\ Cardinality(TakenOf(R)) \in Nat
<1> DEFINE O == TakenBut(R, r)
<1>1. IsFiniteSet(O) /\ Cardinality(O) \in Nat
  <2>1. O \subseteq TakenOf(R)  BY DEF TakenBut
  <2> QED BY <2>1, TakenFinite, FS_Subset, FS_CardinalityType
<1>2. <<r, 1>> \notin O /\ <<r, 2>> \notin O  BY DEF TakenBut
<1>3. \A x \in TakenOf(R) : x \in O \/ \E b \in 1..2 : x = <<r, b>> /\ b <= R[r].blocks
  BY DEF TakenOf, TakenBut
<1>4. O \subseteq TakenOf(R) /\ \A b \in 1..2 : b <= R[r].blocks => <<r, b>> \in TakenOf(R)
  BY DEF TakenOf, TakenBut
<1> HIDE DEF O
<1>5. CASE R[r].blocks = 0
  <2>1. TakenOf(R) = O  BY <1>3, <1>4, <1>5
  <2> QED BY <2>1, <1>1, <1>5 DEF O
<1>6. CASE R[r].blocks = 1
  <2>1. TakenOf(R) = O \cup {<<r, 1>>}
    <3>1. \A x \in TakenOf(R) : x \in O \cup {<<r, 1>>}  BY <1>3, <1>6
    <3>2. \A x \in O \cup {<<r, 1>>} : x \in TakenOf(R)  BY <1>4, <1>6
    <3> QED BY <3>1, <3>2
  <2>2. Cardinality(O \cup {<<r, 1>>}) = Cardinality(O) + 1  BY <1>1, <1>2, FS_AddElement
  <2> QED BY <2>1, <2>2, <1>1, <1>6 DEF O
<1>7. CASE R[r].blocks = 2
  <2>1. TakenOf(R) = (O \cup {<<r, 1>>}) \cup {<<r, 2>>}
    <3>1. \A x \in TakenOf(R) : x \in (O \cup {<<r, 1>>}) \cup {<<r, 2>>}  BY <1>3, <1>7
    <3>2. \A x \in (O \cup {<<r, 1>>}) \cup {<<r, 2>>} : x \in TakenOf(R)  BY <1>4, <1>7
    <3> QED BY <3>1, <3>2
  <2>2. Cardinality(O \cup {<<r, 1>>}) = Cardinality(O) + 1 /\ IsFiniteSet(O \cup {<<r, 1>>})
    BY <1>1, <1>2, FS_AddElement
  <2>3. <<r, 2>> \notin O \cup {<<r, 1>>}  BY <1>2
  <2>4. Cardinality((O \cup {<<r, 1>>}) \cup {<<r, 2>>}) = Cardinality(O) + 1 + 1
    BY <2>2, <2>3, FS_AddElement
  <2> QED BY <2>1, <2>4, <1>1, <1>7 DEF O
<1> QED BY <1>5, <1>6, <1>7

(* What leaves the pool is with a record, what a record gives back in it.  *)
LEMMA BlocksMove ==
  ASSUME TypeOK, TypeOK', BlocksWhole, NEW r \in Records,
         \A s \in Records \ {r} : Registry'[s].blocks = Registry[s].blocks,
         pool' + Registry'[r].blocks = pool + Registry[r].blocks
  PROVE  BlocksWhole'
<1>1. Registry[r].blocks \in 0..2 /\ Registry'[r].blocks \in 0..2 /\ pool \in Nat /\ pool' \in Nat
  BY DEF TypeOK, Rec
<1>2. TakenBut(Registry', r) = TakenBut(Registry, r)
  <2>1. \A x \in Records \X (1..2) : x[1] # r => Registry'[x[1]].blocks = Registry[x[1]].blocks
    OBVIOUS
  <2> QED BY <2>1 DEF TakenBut, TakenOf
<1>3. /\ Cardinality(TakenOf(Registry)) = Cardinality(TakenBut(Registry, r)) + Registry[r].blocks
      /\ Cardinality(TakenBut(Registry, r)) \in Nat
  BY <1>1, TakenBy
<1>4. Cardinality(TakenOf(Registry')) = Cardinality(TakenBut(Registry', r)) + Registry'[r].blocks
  BY <1>1, TakenBy
<1>5. Taken = TakenOf(Registry) /\ Taken' = TakenOf(Registry')  BY DEF Taken, TakenOf
<1> QED BY <1>1, <1>2, <1>3, <1>4, <1>5 DEF BlocksWhole

(* A record with a name gets one more handle.                              *)
LEMMA EntriesGrow ==
  ASSUME TypeOK, EntriesInv, NEW a \in Apps, NEW r \in Records, NEW d \in FreeDescriptors,
         AddsHandle(a, r, d), app' = app, app[a] # "out",
         \A s \in Records \ {r} : KeepsRecord(s) /\ Link'[s] = Link[s],
         Registry'[r].used, Registry'[r].name \in Names,
         \A s \in Records \ {r} : Registry[s].name # Registry'[r].name,
         Registry'[r].owner = a \/ (Registry'[r].owner = Registry[r].owner /\ Registry[r].name # None)
  PROVE  EntriesInv'
<1> USE DEF KeepsRecord
<1>1. /\ d \in Descriptors /\ Handles[d] = FreeDesc
      /\ Handles'[d] = [used |-> TRUE, app |-> a, reg |-> r]
      /\ \A e \in Descriptors \ {d} : Handles'[e] = Handles[e]
  BY AddHandlePoints
<1>2. /\ HandlesOn(r)' = HandlesOn(r) \cup {d}
      /\ \A s \in Records \ {r} : HandlesOn(s)' = HandlesOn(s)
  BY AddHandle
<1>3. \A b \in Apps, s \in Records : Holds(b, s) => Holds(b, s)'  BY CallsKeepHandles
<1>4. Holds(a, r)'  BY <1>1 DEF Holds
<1>5. \A s \in Records : Registry[s].owner \in Apps \cup {None}  BY DEF TypeOK, Rec
<1>6. ASSUME NEW s \in Records
      PROVE  /\ ~Registry'[s].used => Registry'[s] = FreeRec
             /\ Registry'[s].name = None =>
                  Link'[s] = NoLink /\ HandlesOn(s)' = {} /\ Registry'[s].owner = None
             /\ Registry'[s].name # None =>
                  /\ HandlesOn(s)' # {}
                  /\ Registry'[s].owner # None => Holds(Registry[s].owner, s)'
  <2>1. CASE s = r
    <3>1. Registry'[r].owner # None => Holds(Registry[r].owner, r)'
      <4>1. CASE Registry'[r].owner = a  BY <4>1, <1>4 DEF Holds
      <4>2. CASE Registry'[r].owner = Registry[r].owner /\ Registry[r].name # None /\ Registry[r].owner # None
        <5>1. Holds(Registry[r].owner, r)  BY <4>2 DEF EntriesInv
        <5>2. PICK e \in Descriptors : Handles[e].app = Registry[r].owner /\ Handles[e].reg = r
          BY <5>1 DEF Holds
        <5>3. e # d  BY <5>2, <1>1, NoneApart DEF FreeDesc
        <5> QED BY <5>2, <5>3, <1>1, <4>2 DEF Holds
      <4> QED BY <4>1, <4>2
    <3> QED BY <2>1, <3>1, <1>2, NoneApart
  <2>2. CASE s # r
    <3>1. Registry'[s].name # None /\ Registry'[s].owner # None => Holds(Registry[s].owner, s)'
      <4>1. ASSUME Registry'[s].name # None, Registry'[s].owner # None PROVE Holds(Registry[s].owner, s)'
        <5>1. Holds(Registry[s].owner, s) /\ Registry'[s].owner = Registry[s].owner
          BY <4>1, <2>2 DEF EntriesInv
        <5>2. PICK e \in Descriptors : Handles[e].app = Registry[s].owner /\ Handles[e].reg = s
          BY <5>1 DEF Holds
        <5>3. e # d  BY <5>2, <1>1, NoneApart DEF FreeDesc
        <5> QED BY <5>1, <5>2, <5>3, <1>1 DEF Holds
      <4> QED BY <4>1
    <3> QED BY <2>2, <3>1, <1>2 DEF EntriesInv
  <2> QED BY <2>1, <2>2
<1>7. ASSUME NEW e \in Descriptors
      PROVE  /\ ~Handles'[e].used => Handles'[e] = FreeDesc
             /\ Handles'[e].app = None <=> Handles'[e].reg = None
             /\ Handles'[e].app # None =>
                  app'[Handles'[e].app] # "out" /\ Registry'[Handles'[e].reg].name # None
  <2>1. CASE e = d  BY <2>1, <1>1, NoneApart
  <2>2. CASE e # d /\ Handles[e].app # None
    <3>1. Handles[e].reg \in Records  BY <2>2, HandleFacts
    <3>2. Registry'[Handles[e].reg].name # None
      BY <3>1, <2>2, NoneApart DEF EntriesInv
    <3> QED BY <3>2, <2>2, <1>1 DEF EntriesInv
  <2>3. CASE e # d /\ Handles[e].app = None
    BY <2>3, <1>1 DEF EntriesInv
  <2> QED BY <2>1, <2>2, <2>3
<1>8. \A s, q \in Records : Registry'[s].name = Registry'[q].name /\ Registry'[s].name # None => s = q
  BY DEF EntriesInv
<1> QED BY <1>6, <1>7, <1>8 DEF EntriesInv

-----------------------------------------------------------------------------
(* Registration and sharing keep entries, rings, calls and blocks          *)

BaseInv == RingsInv /\ BlocksWhole

LEMMA BaseRings ==
  ASSUME BaseInv
  PROVE  \A s \in Records : Registry[s].used => RingOf(Link, s, HandlesOn(s))
BY RingsAre DEF BaseInv, RingsInv

(* Those who copy have a handle, so that their record stays. *)
LEMMA ActiveKept ==
  ASSUME BaseInv, op'.at \in {"Idle", "RegisterCds", "SaveCrit"}, copying' = copying,
         \A b \in Apps, s \in Records : copying[b].at # "No" /\ Holds(b, s) => Registry'[s].active = Registry[s].active
  PROVE  ActiveInv'
<1> SUFFICES ASSUME NEW b \in Apps, copying[b].at \in {"CopyData", "SaveEntry"}
             PROVE  copying[b].buf # 0 /\ Registry'[copying[b].rec].active # 0
  BY DEF ActiveInv
<1>1. copying[b].rec \in Records /\ Holds(b, copying[b].rec)  BY DEF BaseInv, RingsInv, CallsInv
<1>2. copying[b].buf # 0 /\ Registry[copying[b].rec].active # 0  BY DEF BaseInv, RingsInv, ActiveInv
<1> QED BY <1>1, <1>2

LEMMA RegisterBase ==
  ASSUME BaseInv, NEW a \in Apps, NEW n \in Names, NEW kind \in Kinds[n], Register(a, n, kind)
  PROVE  BaseInv'
<1>0. TypeOK /\ EntriesInv /\ CallsInv /\ BlocksWhole  BY DEF BaseInv, RingsInv
<1>1. PICK r \in Records, d \in FreeDescriptors :
    /\ Registers(a, n, r)
    /\ pool >= BlocksOf(kind)
    /\ pool' = pool - BlocksOf(kind)
    /\ Registry' = [Registry EXCEPT ![r] = NewRec(a, n, kind)]
    /\ Handles' = [Handles EXCEPT ![d] = [used |-> TRUE, app |-> a, reg |-> r]]
    /\ Link' = InsertLink(r, d)
    /\ op' = IF kind.critical THEN [Idle EXCEPT !.at = "RegisterCds", !.app = a, !.rec = r] ELSE Idle
    /\ UNCHANGED <<app, todo, storeVars, copying, deleting, may>>
  BY DEF Register, NewRec
<1>2. TypeOK'  BY <1>0, RegisterType
<1>3. AddsHandle(a, r, d)  BY <1>1 DEF AddsHandle
<1>4. MayCall(a) /\ Unlocked /\ Named(n) = {} /\ ~Registry[r].used /\ app[a] = "running"
  BY <1>1 DEF Registers, MayCall, FreeRecords
<1>5. Registry[r] = FreeRec /\ Link[r] = NoLink /\ HandlesOn(r) = {}
  <2>1. Registry[r] = FreeRec  BY <1>0, <1>4 DEF EntriesInv
  <2>2. Registry[r].name = None  BY <2>1 DEF FreeRec
  <2> QED BY <2>1, <2>2, <1>0 DEF EntriesInv
<1>6. RingOf(Link, r, HandlesOn(r))  BY <1>5, EmptyRing
<1>7. Registry'[r] = NewRec(a, n, kind) /\ \A s \in Records \ {r} : Registry'[s] = Registry[s]
  <2> HIDE DEF NewRec
  <2> QED BY <1>0, <1>1 DEF TypeOK
<1>8. /\ NewRec(a, n, kind).used /\ NewRec(a, n, kind).name = n /\ NewRec(a, n, kind).owner = a
      /\ NewRec(a, n, kind).blocks = BlocksOf(kind)
  BY DEF NewRec, FreeRec
<1>9. \A s \in Records \ {r} : Registry'[s].used => RingOf(Link, s, HandlesOn(s))
  BY <1>7, BaseRings
<1>10. ListsSound' /\ BackInv' /\ \A s \in Records \ {r} : Link'[s] = Link[s]
  BY <1>0, <1>3, <1>6, <1>9, AddHandleRings
<1>11. EntriesInv'
  <2>1. \A s \in Records \ {r} : KeepsRecord(s) /\ Link'[s] = Link[s]
    BY <1>7, <1>10 DEF KeepsRecord
  <2>2. Registry'[r].used /\ Registry'[r].name \in Names /\ Registry'[r].owner = a
    BY <1>7, <1>8
  <2>3. \A s \in Records \ {r} : Registry[s].name # Registry'[r].name
    <3>1. \A s \in Records : Registry[s].used => Registry[s].name # n  BY <1>4 DEF Named
    <3>2. \A s \in Records : ~Registry[s].used => Registry[s].name = None
      BY <1>0 DEF EntriesInv, FreeRec
    <3> QED BY <3>1, <3>2, <1>7, <1>8, NoneApart
  <2>4. app' = app /\ app[a] # "out"  BY <1>1, <1>4
  <2> QED BY <1>0, <1>3, <2>1, <2>2, <2>3, <2>4, EntriesGrow
<1>12. CallsInv'
  <2>1. op' = Idle \/ (op'.app = a /\ op'.rec = r /\ op'.at # "Idle")  BY <1>1 DEF Idle
  <2>2. UNCHANGED <<app, todo, copying>>  BY <1>1
  <2> QED BY <1>0, <1>3, <1>4, <2>1, <2>2, CallsGrow
<1>13. BlocksWhole'
  <2>1. Registry'[r].blocks = BlocksOf(kind) /\ Registry[r].blocks = 0  BY <1>5, <1>7, <1>8 DEF FreeRec
  <2>2. BlocksOf(kind) \in Nat /\ pool \in Nat  BY <1>0, KindFacts DEF TypeOK
  <2>3. pool' + Registry'[r].blocks = pool + Registry[r].blocks  BY <1>1, <2>1, <2>2
  <2>4. \A s \in Records \ {r} : Registry'[s].blocks = Registry[s].blocks  BY <1>7
  <2> QED BY <1>0, <1>2, <2>3, <2>4, BlocksMove
<1>14. ActiveInv'
  <2>1. op'.at \in {"Idle", "RegisterCds", "SaveCrit"} /\ copying' = copying  BY <1>1 DEF Idle
  <2>2. ASSUME NEW b \in Apps, NEW s \in Records, Holds(b, s) PROVE Registry'[s].active = Registry[s].active
    <3>1. Registry[s].used  BY <2>2, <1>0, HoldsFacts
    <3> QED BY <3>1, <1>4, <1>7
  <2> QED BY <2>1, <2>2, ActiveKept
<1> QED BY <1>2, <1>10, <1>11, <1>12, <1>13, <1>14 DEF BaseInv, RingsInv

LEMMA ShareBase ==
  ASSUME BaseInv, NEW a \in Apps, NEW n \in Names, Share(a, n)
  PROVE  BaseInv'
<1>0. TypeOK /\ EntriesInv /\ CallsInv /\ BlocksWhole  BY DEF BaseInv, RingsInv
<1>1. PICK r \in Named(n), d \in FreeDescriptors :
    /\ MayCall(a) /\ Unlocked
    /\ Handles' = [Handles EXCEPT ![d] = [used |-> TRUE, app |-> a, reg |-> r]]
    /\ Link' = InsertLink(r, d)
    /\ UNCHANGED <<app, todo, Registry, pool, storeVars, op, copying, deleting, may>>
  BY DEF Share
<1>2. r \in Records /\ Registry[r].used /\ Registry[r].name = n  BY DEF Named
<1>3. AddsHandle(a, r, d)  BY <1>1 DEF AddsHandle
<1>4. RingOf(Link, r, HandlesOn(r)) /\ \A s \in Records \ {r} : Registry'[s].used => RingOf(Link, s, HandlesOn(s))
  BY <1>1, <1>2, BaseRings
<1>5. ListsSound' /\ BackInv' /\ \A s \in Records \ {r} : Link'[s] = Link[s]
  BY <1>0, <1>2, <1>3, <1>4, AddHandleRings
<1>6. app' = app /\ app[a] = "running"  BY <1>1 DEF MayCall
<1>7. EntriesInv'
  <2>1. \A s \in Records \ {r} : KeepsRecord(s) /\ Link'[s] = Link[s]  BY <1>1, <1>5 DEF KeepsRecord
  <2>2. Registry'[r].used /\ Registry'[r].name \in Names  BY <1>1, <1>2
  <2>3. \A s \in Records \ {r} : Registry[s].name # Registry'[r].name
    BY <1>0, <1>1, <1>2, NoneApart DEF EntriesInv
  <2>4. Registry'[r].owner = Registry[r].owner /\ Registry[r].name # None  BY <1>1, <1>2, NoneApart
  <2> QED BY <1>0, <1>2, <1>3, <1>6, <2>1, <2>2, <2>3, <2>4, EntriesGrow
<1>8. CallsInv'
  <2>1. op' = Idle  BY <1>1 DEF Unlocked
  <2> QED BY <1>0, <1>1, <1>2, <1>3, <2>1, CallsGrow
<1>9. BlocksWhole'
  BY <1>0, <1>1, BlocksKept DEF KeepsRecords, KeepsRecord
<1>10. TypeOK'
  <2>1. d \in Descriptors /\ [used |-> TRUE, app |-> a, reg |-> r] \in Desc
    BY <1>2 DEF FreeDescriptors, Desc
  <2>2. Handles' \in [Descriptors -> Desc]  BY <1>0, <1>1, <2>1 DEF TypeOK
  <2>3. Link' \in [Records \cup Descriptors -> Links]
    <3>1. d \notin HandlesOn(r) /\ HandlesOn(r) \in SUBSET Descriptors /\ Link \in AllLinks
      BY <1>0, <2>1 DEF FreeDescriptors, HandlesOn, TypeOK, AllLinks
    <3>2. InsertLink(r, d) \in AllLinks  BY <3>1, <2>1, <1>2, <1>4, InsertRing
    <3> QED BY <3>2, <1>1 DEF AllLinks
  <2> QED BY <1>0, <1>1, <2>2, <2>3 DEF TypeOK, storeVars
<1>11. ActiveInv'
  <2>1. op'.at = "Idle"  BY <1>1 DEF Unlocked, Idle
  <2> QED BY <1>1, <2>1, ActiveKept
<1> QED BY <1>5, <1>7, <1>8, <1>9, <1>10, <1>11 DEF BaseInv, RingsInv

(* A registration that fails leaves an entry without a name.               *)
LEMMA RegisterFailsBase ==
  ASSUME BaseInv, NEW a \in Apps, NEW n \in Names, NEW kind \in Kinds[n], RegisterFails(a, n, kind)
  PROVE  BaseInv'
<1>0. TypeOK /\ EntriesInv /\ CallsInv /\ BlocksWhole /\ ListsSound /\ BackInv  BY DEF BaseInv, RingsInv
<1>1. PICK r \in Records :
    /\ Registers(a, n, r)
    /\ \/ FreeDescriptors = {} /\ UNCHANGED <<Handles, pool>>
          /\ Registry' = [Registry EXCEPT ![r] = [FreeRec EXCEPT !.used = TRUE]]
       \/ \E d \in FreeDescriptors :
            /\ pool < BlocksOf(kind)
            /\ pool' = 0
            /\ Handles' = [Handles EXCEPT ![d] = [FreeDesc EXCEPT !.used = TRUE]]
            /\ Registry' = [Registry EXCEPT ![r] =
                 [FreeRec EXCEPT !.used = TRUE, !.blocks = pool]]
    /\ UNCHANGED <<app, todo, Link, storeVars, op, copying, deleting, may>>
  BY DEF RegisterFails
<1>2. Registry[r] = FreeRec /\ Link[r] = NoLink /\ HandlesOn(r) = {}
  <2>1. ~Registry[r].used  BY <1>1 DEF Registers, FreeRecords
  <2>2. Registry[r] = FreeRec  BY <1>0, <2>1 DEF EntriesInv
  <2>3. Registry[r].name = None  BY <2>2 DEF FreeRec
  <2> QED BY <2>2, <2>3, <1>0 DEF EntriesInv
<1>3. PICK new \in Rec : /\ new.used /\ new.name = None /\ new.owner = None
                        /\ pool' = pool - new.blocks /\ pool' \in Nat
                        /\ Registry' = [Registry EXCEPT ![r] = new]
  <2>1. CASE FreeDescriptors = {} /\ UNCHANGED <<Handles, pool>>
             /\ Registry' = [Registry EXCEPT ![r] = [FreeRec EXCEPT !.used = TRUE]]
    <3> DEFINE new == [FreeRec EXCEPT !.used = TRUE]
    <3>1. new \in Rec /\ new.used /\ new.name = None /\ new.owner = None /\ new.blocks = 0
      BY FreeTypes DEF FreeRec, Rec
    <3>2. pool \in Nat  BY <1>0 DEF TypeOK
    <3>3. Registry' = [Registry EXCEPT ![r] = new] /\ pool' = pool  BY <2>1
    <3> HIDE DEF new
    <3>4. pool' = pool - new.blocks /\ pool' \in Nat  BY <3>1, <3>2, <3>3
    <3> QED BY <3>1, <3>3, <3>4, Zenon
  <2>2. CASE \E d \in FreeDescriptors :
            /\ pool < BlocksOf(kind)
            /\ pool' = 0
            /\ Handles' = [Handles EXCEPT ![d] = [FreeDesc EXCEPT !.used = TRUE]]
            /\ Registry' = [Registry EXCEPT ![r] =
                 [FreeRec EXCEPT !.used = TRUE, !.blocks = pool]]
    <3> DEFINE new == [FreeRec EXCEPT !.used = TRUE, !.blocks = pool]
    <3>1. pool \in 0..2 /\ pool' = pool - pool /\ pool' \in Nat
      BY <1>0, <2>2, KindFacts DEF TypeOK
    <3>2. new \in Rec /\ new.used /\ new.name = None /\ new.owner = None /\ new.blocks = pool
      BY <3>1, FreeTypes DEF FreeRec, Rec
    <3>3. Registry' = [Registry EXCEPT ![r] = new]  BY <2>2
    <3> HIDE DEF new
    <3> QED BY <3>1, <3>2, <3>3
  <2> QED BY <1>1, <2>1, <2>2
<1>5. Registry'[r] = new /\ \A s \in Records \ {r} : Registry'[s] = Registry[s]
  BY <1>0, <1>3 DEF TypeOK
<1>6. /\ Handles' \in [Descriptors -> Desc]
      /\ \A d \in Descriptors :
           \/ Handles'[d] = Handles[d]
           \/ /\ Handles[d] = FreeDesc
              /\ Handles'[d].used /\ Handles'[d].app = None /\ Handles'[d].reg = None
  <2>1. CASE Handles' = Handles  BY <1>0, <2>1 DEF TypeOK
  <2>2. ASSUME NEW d \in FreeDescriptors, Handles' = [Handles EXCEPT ![d] = [FreeDesc EXCEPT !.used = TRUE]]
        PROVE  <1>6!1 /\ <1>6!2
    <3>1. d \in Descriptors /\ Handles[d] = FreeDesc  BY <1>0 DEF FreeDescriptors, EntriesInv
    <3> DEFINE new2 == [FreeDesc EXCEPT !.used = TRUE]
    <3>2. new2 \in Desc /\ new2.used /\ new2.app = None /\ new2.reg = None  BY DEF FreeDesc, Desc
    <3>3. Handles' = [Handles EXCEPT ![d] = new2]  BY <2>2
    <3> HIDE DEF new2
    <3> QED BY <3>1, <3>2, <3>3, <1>0 DEF TypeOK
  <2> QED BY <1>1, <2>1, <2>2
<1>7. TypeOK'
  <2>1. Registry' \in [Records -> Rec]  BY <1>0, <1>3 DEF TypeOK
  <2> QED BY <1>0, <1>1, <1>3, <1>6, <2>1 DEF TypeOK, storeVars
<1>8. \A s \in Records : HandlesOn(s)' = HandlesOn(s)
  <2> SUFFICES ASSUME NEW s \in Records, NEW d \in Descriptors
               PROVE  (Handles'[d].used /\ Handles'[d].reg = s) <=> (Handles[d].used /\ Handles[d].reg = s)
    BY DEF HandlesOn
  <2> QED BY <1>6, NoneApart DEF FreeDesc
<1>9. \A b \in Apps, d \in Descriptors : /\ Handles'[d].app = b <=> Handles[d].app = b
                                         /\ Handles[d].app = b => Handles'[d] = Handles[d]
  BY <1>6, NoneApart DEF FreeDesc
<1>10. \A b \in Apps, s \in Records : Holds(b, s)' <=> Holds(b, s)
  BY <1>9 DEF Holds
<1>11. EntriesInv'
  <2>1. ASSUME NEW s \in Records
        PROVE  /\ ~Registry'[s].used => Registry'[s] = FreeRec
               /\ Registry'[s].name = None =>
                    Link'[s] = NoLink /\ HandlesOn(s)' = {} /\ Registry'[s].owner = None
               /\ Registry'[s].name # None =>
                    /\ HandlesOn(s)' # {}
                    /\ Registry'[s].owner # None => Holds(Registry[s].owner, s)'
    <3>1. CASE s = r  BY <3>1, <1>1, <1>2, <1>3, <1>5, <1>8
    <3>2. CASE s # r
      <4>1. Registry'[s] = Registry[s] /\ Link'[s] = Link[s] /\ HandlesOn(s)' = HandlesOn(s)
        BY <3>2, <1>1, <1>5, <1>8
      <4>2. Registry[s].owner # None => Registry[s].owner \in Apps  BY <1>0 DEF TypeOK, Rec
      <4>3. Registry[s].name # None /\ Registry[s].owner # None => Holds(Registry[s].owner, s)'
        <5>1. ASSUME Registry[s].name # None, Registry[s].owner # None PROVE Holds(Registry[s].owner, s)'
          <6>1. PICK d \in Descriptors : Handles[d].app = Registry[s].owner /\ Handles[d].reg = s
            BY <5>1, <1>0 DEF EntriesInv, Holds
          <6> QED BY <6>1, <4>1, <4>2, <5>1, <1>9 DEF Holds
        <5> QED BY <5>1
      <4> QED BY <4>1, <4>3, <1>0 DEF EntriesInv
    <3> QED BY <3>1, <3>2
  <2>2. ASSUME NEW d \in Descriptors
        PROVE  /\ ~Handles'[d].used => Handles'[d] = FreeDesc
               /\ Handles'[d].app = None <=> Handles'[d].reg = None
               /\ Handles'[d].app # None =>
                    app'[Handles'[d].app] # "out" /\ Registry'[Handles'[d].reg].name # None
    <3>1. CASE Handles'[d] # Handles[d]  BY <3>1, <1>6
    <3>2. CASE Handles'[d] = Handles[d] /\ Handles[d].app # None
      <4>1. Handles[d].reg \in Records /\ d \in HandlesOn(Handles[d].reg)  BY <3>2, <1>0, HandleFacts
      <4>2. Handles[d].reg # r  BY <4>1, <1>2
      <4>3. Registry'[Handles[d].reg] = Registry[Handles[d].reg]  BY <4>1, <4>2, <1>5
      <4> QED BY <3>2, <4>3, <1>0, <1>1 DEF EntriesInv
    <3>3. CASE Handles'[d] = Handles[d] /\ Handles[d].app = None  BY <3>3, <1>0 DEF EntriesInv
    <3> QED BY <3>1, <3>2, <3>3
  <2>3. ASSUME NEW s \in Records, NEW q \in Records, Registry'[s].name = Registry'[q].name, Registry'[s].name # None
        PROVE  s = q
    <3>1. s # r /\ q # r  BY <2>3, <1>3, <1>5
    <3>2. Registry'[s] = Registry[s] /\ Registry'[q] = Registry[q]  BY <3>1, <1>5
    <3> QED BY <2>3, <3>2, <1>0 DEF EntriesInv
  <2> QED BY <2>1, <2>2, <2>3 DEF EntriesInv
<1>12. CallsInv'
  <2>1. Unlocked  BY <1>1 DEF Registers
  <2>2. op' = Idle  BY <1>1, <2>1 DEF Unlocked
  <2>3. ASSUME NEW b \in Apps
        PROVE  /\ copying'[b].at = "No" => copying'[b] = NotCopying
               /\ copying'[b].at # "No" => /\ app'[b] = "running"
                                           /\ copying'[b].rec \in Records /\ Holds(b, copying[b].rec)'
               /\ todo'[b] = IF app'[b] = "cleaning" THEN {e \in Descriptors : Handles'[e].app = b} ELSE {}
    <3>1. copying' = copying /\ app' = app /\ todo' = todo  BY <1>1
    <3>2. copying'[b].at = "No" => copying'[b] = NotCopying  BY <3>1, <1>0 DEF CallsInv
    <3>3. copying'[b].at # "No" => /\ app'[b] = "running"
                                   /\ copying'[b].rec \in Records /\ Holds(b, copying[b].rec)'
      BY <3>1, <1>0, <1>10 DEF CallsInv
    <3>4. {e \in Descriptors : Handles'[e].app = b} = {e \in Descriptors : Handles[e].app = b}  BY <1>9
    <3> QED BY <3>1, <3>2, <3>3, <3>4, <1>0 DEF CallsInv
  <2> QED BY <2>2, <2>3 DEF CallsInv, Idle
<1>13. ListsSound' /\ BackInv'
  <2>1. \A s \in Records : Registry'[s].used => RingOf(Link, s, HandlesOn(s))
    <3>1. RingOf(Link, r, HandlesOn(r))  BY <1>2, EmptyRing
    <3> QED BY <3>1, <1>5, BaseRings
  <2>2. Link' = Link  BY <1>1
  <2> QED BY <2>1, <2>2, <1>8 DEF ListsSound, BackInv, RingOf, Succ, Pred
<1>14. BlocksWhole'
  <2>1. Registry'[r].blocks = new.blocks /\ Registry[r].blocks = 0 /\ new.blocks \in Nat
    BY <1>2, <1>3, <1>5 DEF FreeRec, Rec
  <2>2. pool \in Nat  BY <1>0 DEF TypeOK
  <2>3. pool' + Registry'[r].blocks = pool + Registry[r].blocks  BY <1>3, <2>1, <2>2
  <2>4. \A s \in Records \ {r} : Registry'[s].blocks = Registry[s].blocks  BY <1>5
  <2> QED BY <1>0, <1>7, <2>3, <2>4, BlocksMove
<1>15. ActiveInv'
  <2>1. op'.at = "Idle" /\ copying' = copying  BY <1>1 DEF Registers, Unlocked, Idle
  <2>2. ASSUME NEW b \in Apps, NEW s \in Records, Holds(b, s) PROVE Registry'[s].active = Registry[s].active
    <3>1. Registry[s].used  BY <2>2, <1>0, HoldsFacts
    <3>2. s # r  BY <3>1, <1>2 DEF FreeRec
    <3> QED BY <3>2, <1>5
  <2> QED BY <2>1, <2>2, ActiveKept
<1> QED BY <1>7, <1>11, <1>12, <1>13, <1>14, <1>15 DEF BaseInv, RingsInv


-----------------------------------------------------------------------------
(* Releases                                                                *)

(* What a release of handle d of app a does to the entries.                *)
Releases(a, d, r, last, owner) ==
  /\ r \in Records /\ r = Handles[d].reg /\ d \in HandlesOn(r) /\ Registry[r].used /\ Registry[r].name \in Names
  /\ owner = IF Registry[r].owner = a THEN None ELSE Registry[r].owner
  /\ last <=> owner = None /\ HandlesOn(r) = {d}
  /\ Link' = RemoveLink(r, d)
  /\ Handles'[d] = FreeDesc /\ \A e \in Descriptors \ {d} : Handles'[e] = Handles[e]
  /\ last => Registry'[r] = FreeRec /\ pool' = pool + Registry[r].blocks
  /\ ~last => /\ pool' = pool
              /\ Registry'[r].used /\ Registry'[r].name = Registry[r].name
              /\ Registry'[r].owner = owner /\ Registry'[r].blocks = Registry[r].blocks
              /\ Registry'[r].critical = Registry[r].critical /\ Registry'[r].cds = Registry[r].cds
              /\ Registry'[r].active = Registry[r].active /\ Registry'[r].buffer = Registry[r].buffer
  /\ \A s \in Records \ {r} : Registry'[s] = Registry[s]

LEMMA ReleaseTypes ==
  ASSUME BaseInv, NEW a \in Apps, NEW d \in Descriptors, Handles[d].app = a, Release(a, d)
  PROVE  /\ Registry' \in [Records -> Rec] /\ Handles' \in [Descriptors -> Desc]
         /\ Link' \in AllLinks /\ pool' \in Nat
         /\ \E last \in BOOLEAN, owner \in Apps \cup {None} : Releases(a, d, Handles[d].reg, last, owner)
<1> DEFINE r == Handles[d].reg
           H == HandlesOn(r)
           owner == IF Registry[r].owner = a THEN None ELSE Registry[r].owner
           last == owner = None /\ ~IsAttached(RemoveLink(r, d)[r])
           kept == [Registry[r] EXCEPT !.owner = owner]
           new == IF last THEN FreeRec ELSE kept
<1>0. TypeOK /\ EntriesInv  BY DEF BaseInv, RingsInv
<1>1. r \in Records /\ d \in H /\ Registry[r].used /\ Registry[r].name \in Names
  <2>1. Handles[d].app # None  BY NoneApart
  <2> QED BY <2>1, <1>0, HandleFacts
<1>2. Registry[r] \in Rec /\ owner \in Apps \cup {None}  BY <1>0, <1>1 DEF TypeOK, Rec
<1>3. /\ Link' = RemoveLink(r, d) /\ Registry' = [Registry EXCEPT ![r] = new]
      /\ pool' = IF last THEN pool + Registry[r].blocks ELSE pool
      /\ Handles' = [Handles EXCEPT ![d] = FreeDesc]
  BY DEF Release
<1>4. /\ H \in SUBSET Descriptors /\ Link \in AllLinks /\ RingOf(Link, r, H)
  BY <1>0, <1>1, BaseRings DEF HandlesOn, TypeOK, AllLinks
<1>5. RemoveLink(r, d) \in AllLinks /\ (IsAttached(RemoveLink(r, d)[r]) <=> H # {d})
  <2> PICK q \in Records, G \in SUBSET Descriptors : q = r /\ G = H  BY <1>1, <1>4
  <2> HIDE DEF r, H
  <2>1. d \in G /\ RingOf(Link, q, G) /\ Link \in AllLinks  BY <1>1, <1>4
  <2>2. RemoveLink(q, d) \in AllLinks /\ (IsAttached(RemoveLink(q, d)[q]) <=> G # {d})
    BY <2>1, RemoveRing
  <2> QED BY <2>2
<1>6. /\ kept \in Rec /\ kept.used /\ kept.name = Registry[r].name /\ kept.owner = owner
      /\ kept.blocks = Registry[r].blocks
      /\ kept.critical = Registry[r].critical /\ kept.cds = Registry[r].cds
      /\ kept.active = Registry[r].active /\ kept.buffer = Registry[r].buffer
  <2> HIDE DEF owner, r
  <2> QED BY <1>1, <1>2 DEF Rec
<1>7. Registry[r].blocks \in Nat /\ pool \in Nat  BY <1>0, <1>2 DEF TypeOK, Rec
<1> HIDE DEF r, H, owner, last, kept
<1>8. new \in Rec  BY <1>6, FreeTypes
<1> HIDE DEF new
<1>9. /\ Registry' \in [Records -> Rec] /\ Registry'[r] = new
      /\ \A s \in Records \ {r} : Registry'[s] = Registry[s]
  BY <1>0, <1>1, <1>3, <1>8 DEF TypeOK
<1>10. /\ Handles' \in [Descriptors -> Desc] /\ Handles'[d] = FreeDesc
       /\ \A e \in Descriptors \ {d} : Handles'[e] = Handles[e]
  BY <1>0, <1>3, FreeTypes DEF TypeOK
<1>11. pool' \in Nat  BY <1>3, <1>7
<1>12. last <=> owner = None /\ H = {d}  BY <1>5 DEF last
<1>13. last \in BOOLEAN  BY DEF last
<1>14. Releases(a, d, r, last, owner)
  <2>1. last => Registry'[r] = FreeRec /\ pool' = pool + Registry[r].blocks
    BY <1>3, <1>9 DEF new
  <2>2. ~last => Registry'[r] = kept /\ pool' = pool  BY <1>3, <1>9 DEF new
  <2> QED BY <1>1, <1>3, <1>6, <1>9, <1>10, <1>12, <2>1, <2>2 DEF Releases, r, H, owner
<1> QED BY <1>2, <1>3, <1>5, <1>9, <1>10, <1>11, <1>13, <1>14 DEF r

LEMMA ReleaseHandles ==
  ASSUME BaseInv, NEW a \in Apps, NEW d \in Descriptors, Handles[d].app = a,
         NEW r, NEW last, NEW owner, Releases(a, d, r, last, owner)
  PROVE  /\ HandlesOn(r)' = HandlesOn(r) \ {d}
         /\ \A s \in Records \ {r} : HandlesOn(s)' = HandlesOn(s)
         /\ \A b \in Apps \ {a}, s \in Records : Holds(b, s) => Holds(b, s)'
         /\ \A b \in Apps : {e \in Descriptors : Handles'[e].app = b} = {e \in Descriptors : Handles[e].app = b} \ {d}
<1>1. /\ Handles'[d] = FreeDesc /\ \A e \in Descriptors \ {d} : Handles'[e] = Handles[e]
      /\ r \in Records /\ Handles[d].reg = r
  BY DEF Releases
<1>2. ~Handles'[d].used /\ Handles'[d].app = None  BY <1>1 DEF FreeDesc
<1>3. \A s \in Records : HandlesOn(s)' = {e \in Descriptors : Handles'[e].used /\ Handles'[e].reg = s}
  BY DEF HandlesOn
<1>4. HandlesOn(r)' = HandlesOn(r) \ {d}
  <2>1. \A e \in Descriptors :
          (Handles'[e].used /\ Handles'[e].reg = r) <=> (Handles[e].used /\ Handles[e].reg = r) /\ e # d
    BY <1>1, <1>2
  <2> QED BY <2>1, <1>1, <1>3 DEF HandlesOn
<1>5. ASSUME NEW s \in Records \ {r} PROVE HandlesOn(s)' = HandlesOn(s)
  <2>1. \A e \in Descriptors :
          (Handles'[e].used /\ Handles'[e].reg = s) <=> (Handles[e].used /\ Handles[e].reg = s)
    BY <1>1, <1>2
  <2> QED BY <2>1, <1>3 DEF HandlesOn
<1>6. ASSUME NEW b \in Apps \ {a}, NEW s \in Records, Holds(b, s) PROVE Holds(b, s)'
  <2>1. PICK e \in Descriptors : Handles[e].app = b /\ Handles[e].reg = s  BY <1>6 DEF Holds
  <2>2. e # d  BY <2>1
  <2> QED BY <2>1, <2>2, <1>1 DEF Holds
<1>7. \A b \in Apps : {e \in Descriptors : Handles'[e].app = b} = {e \in Descriptors : Handles[e].app = b} \ {d}
  BY <1>1, <1>2, NoneApart
<1> QED BY <1>4, <1>5, <1>6, <1>7

LEMMA ReleaseRings ==
  ASSUME BaseInv, NEW a \in Apps, NEW d \in Descriptors, Handles[d].app = a,
         NEW r, NEW last, NEW owner, Releases(a, d, r, last, owner)
  PROVE  /\ ListsSound' /\ BackInv'
         /\ \A s \in Records \ {r} : Link'[s] = Link[s]
         /\ HandlesOn(r) = {d} => Link'[r] = NoLink
<1>1. /\ r \in Records /\ d \in HandlesOn(r) /\ Link' = RemoveLink(r, d) /\ Registry[r].used
      /\ \A s \in Records \ {r} : Registry'[s] = Registry[s]
  BY DEF Releases
<1>2. \A s \in Records : HandlesOn(s) \in SUBSET Descriptors  BY DEF HandlesOn
<1>3. Link \in AllLinks  BY DEF BaseInv, RingsInv, TypeOK, AllLinks
<1>4. /\ RingOf(Link', r, HandlesOn(r) \ {d})
      /\ \A x \in (Records \cup Descriptors) \ (HandlesOn(r) \cup {r}) : Link'[x] = Link[x]
      /\ HandlesOn(r) = {d} => Link'[r] = NoLink
  <2>1. PICK q \in Records, G \in SUBSET Descriptors : q = r /\ G = HandlesOn(r)  BY <1>1, <1>2
  <2>2. d \in G /\ RingOf(Link, q, G)  BY <1>1, <2>1, BaseRings
  <2>3. /\ RingOf(RemoveLink(q, d), q, G \ {d})
        /\ \A x \in (Records \cup Descriptors) \ (G \cup {q}) : RemoveLink(q, d)[x] = Link[x]
        /\ G = {d} => RemoveLink(q, d)[q] = NoLink
    BY <2>2, <1>3, RemoveRing
  <2>4. Link' = RemoveLink(q, d)  BY <1>1, <2>1
  <2> QED BY <2>1, <2>3, <2>4
<1>5. HandlesOn(r)' = HandlesOn(r) \ {d} /\ \A s \in Records \ {r} : HandlesOn(s)' = HandlesOn(s)
  BY ReleaseHandles
<1>6. ASSUME NEW s \in Records, Registry'[s].used, s # r
      PROVE  RingOf(Link', s, HandlesOn(s)')
  <2>1. \A x \in HandlesOn(s) \cup {s} : x \in (Records \cup Descriptors) \ (HandlesOn(r) \cup {r})
    BY <1>1, <1>6, NoneApart DEF HandlesOn
  <2>2. \A x \in HandlesOn(s) \cup {s} : Link'[x] = Link[x]  BY <1>4, <2>1
  <2>3. RingOf(Link, s, HandlesOn(s))  BY <1>1, <1>6, BaseRings
  <2>4. RingOf(Link', s, HandlesOn(s))  BY <2>2, <2>3, <1>2, RingFrame
  <2> QED BY <2>4, <1>5, <1>6
<1>7. \A s \in Records : Registry'[s].used => RingOf(Link', s, HandlesOn(s)')
  BY <1>4, <1>5, <1>6
<1>8. \A s \in Records \ {r} : Link'[s] = Link[s]
  BY <1>4, NoneApart DEF HandlesOn
<1> QED BY <1>4, <1>7, <1>8 DEF ListsSound, BackInv, RingOf, Succ, Pred

LEMMA ReleaseEntries ==
  ASSUME BaseInv, NEW a \in Apps, NEW d \in Descriptors, Handles[d].app = a, app' = app,
         NEW r, NEW last, NEW owner, Releases(a, d, r, last, owner)
  PROVE  EntriesInv'
<1>0. TypeOK /\ EntriesInv  BY DEF BaseInv, RingsInv
<1>1. /\ r \in Records /\ d \in HandlesOn(r) /\ Registry[r].name \in Names
      /\ owner = IF Registry[r].owner = a THEN None ELSE Registry[r].owner
      /\ last <=> owner = None /\ HandlesOn(r) = {d}
      /\ Handles'[d] = FreeDesc /\ \A e \in Descriptors \ {d} : Handles'[e] = Handles[e]
      /\ last => Registry'[r] = FreeRec
      /\ ~last => /\ Registry'[r].used /\ Registry'[r].name = Registry[r].name
                  /\ Registry'[r].owner = owner
      /\ \A s \in Records \ {r} : Registry'[s] = Registry[s]
  BY DEF Releases
<1>2. /\ HandlesOn(r)' = HandlesOn(r) \ {d}
      /\ \A s \in Records \ {r} : HandlesOn(s)' = HandlesOn(s)
      /\ \A b \in Apps \ {a}, s \in Records : Holds(b, s) => Holds(b, s)'
  BY ReleaseHandles
<1>3. /\ \A s \in Records \ {r} : Link'[s] = Link[s]
      /\ HandlesOn(r) = {d} => Link'[r] = NoLink
  BY ReleaseRings
<1>4. \A s \in Records : Registry[s].owner \in Apps \cup {None}  BY <1>0 DEF TypeOK, Rec
<1>5. FreeRec.name = None /\ FreeRec.owner = None /\ ~FreeRec.used  BY DEF FreeRec
<1>6. ASSUME NEW s \in Records, Registry[s].name # None, Registry[s].owner # None, s # r \/ Registry[s].owner # a
      PROVE  Holds(Registry[s].owner, s)'
  <2>1. PICK e \in Descriptors : Handles[e].app = Registry[s].owner /\ Handles[e].reg = s
    BY <1>6, <1>0 DEF EntriesInv, Holds
  <2>2. e # d  BY <2>1, <1>6 DEF Releases
  <2>3. Handles'[e].app = Registry[s].owner /\ Handles'[e].reg = s  BY <2>1, <2>2, <1>1
  <2>4. Registry'[s].owner = Registry[s].owner
    <3>1. CASE s # r  BY <3>1, <1>1
    <3>2. CASE s = r  BY <3>2, <1>1, <1>6
    <3> QED BY <3>1, <3>2
  <2> QED BY <2>3, <2>4 DEF Holds
<1>7. ASSUME NEW s \in Records
      PROVE  /\ ~Registry'[s].used => Registry'[s] = FreeRec
             /\ Registry'[s].name = None =>
                  Link'[s] = NoLink /\ HandlesOn(s)' = {} /\ Registry'[s].owner = None
             /\ Registry'[s].name # None =>
                  /\ HandlesOn(s)' # {}
                  /\ Registry'[s].owner # None => Holds(Registry[s].owner, s)'
  <2>1. CASE s = r /\ last  BY <2>1, <1>1, <1>2, <1>3, <1>5
  <2>2. CASE s = r /\ ~last
    <3>1. Registry'[r].owner = owner /\ Registry'[r].name # None /\ Registry'[r].used
      BY <2>2, <1>1, NoneApart
    <3>2. owner # None => Registry[r].owner = owner /\ owner # a  BY <1>1
    <3>3. owner # None => Holds(Registry[r].owner, r)'  BY <3>2, <1>1, <1>6, NoneApart
    <3>4. HandlesOn(r)' # {}
      <4>1. CASE owner = None  BY <4>1, <2>2, <1>1, <1>2
      <4>2. CASE owner # None
        <5>1. Holds(Registry[r].owner, r) /\ Registry[r].owner \in Apps
          BY <4>2, <3>2, <1>0, <1>1, <1>4, NoneApart DEF EntriesInv
        <5>2. \E e \in Descriptors : Handles[e].app = Registry[r].owner /\ Handles[e].reg = r /\ e \in HandlesOn(r)
          BY <5>1, <1>0, <1>1, HoldsFacts
        <5> QED BY <5>2, <3>2, <4>2, <1>2
      <4> QED BY <4>1, <4>2
    <3> QED BY <2>2, <3>1, <3>3, <3>4
  <2>3. CASE s # r
    <3>1. Registry'[s] = Registry[s] /\ Link'[s] = Link[s] /\ HandlesOn(s)' = HandlesOn(s)
      BY <2>3, <1>1, <1>2, <1>3
    <3>2. Registry[s].name # None /\ Registry[s].owner # None => Holds(Registry[s].owner, s)'
      BY <2>3, <1>6
    <3> QED BY <3>1, <3>2, <1>0 DEF EntriesInv
  <2> QED BY <2>1, <2>2, <2>3
<1>8. ASSUME NEW e \in Descriptors
      PROVE  /\ ~Handles'[e].used => Handles'[e] = FreeDesc
             /\ Handles'[e].app = None <=> Handles'[e].reg = None
             /\ Handles'[e].app # None =>
                  app'[Handles'[e].app] # "out" /\ Registry'[Handles'[e].reg].name # None
  <2>1. CASE e = d  BY <2>1, <1>1 DEF FreeDesc
  <2>2. CASE e # d /\ Handles[e].app # None
    <3>1. Handles[e].reg \in Records /\ e \in HandlesOn(Handles[e].reg)  BY <2>2, <1>0, HandleFacts
    <3>2. Registry[Handles[e].reg].name # None  BY <2>2, <1>0 DEF EntriesInv
    <3>3. Registry'[Handles[e].reg].name # None
      <4>1. CASE Handles[e].reg # r  BY <4>1, <3>1, <3>2, <1>1
      <4>2. CASE Handles[e].reg = r
        <5>1. ~last  BY <4>2, <3>1, <2>2, <1>1
        <5> QED BY <5>1, <4>2, <3>2, <1>1
      <4> QED BY <4>1, <4>2
    <3> QED BY <3>3, <2>2, <1>0, <1>1 DEF EntriesInv
  <2>3. CASE e # d /\ Handles[e].app = None  BY <2>3, <1>0, <1>1 DEF EntriesInv
  <2> QED BY <2>1, <2>2, <2>3
<1>9. ASSUME NEW s \in Records, NEW q \in Records, Registry'[s].name = Registry'[q].name, Registry'[s].name # None
      PROVE  s = q
  <2>1. Registry'[s].name = Registry[s].name /\ Registry'[q].name = Registry[q].name
    BY <1>9, <1>1, <1>5
  <2> QED BY <2>1, <1>9, <1>0 DEF EntriesInv
<1> QED BY <1>7, <1>8, <1>9 DEF EntriesInv

LEMMA ReleaseBase ==
  ASSUME BaseInv, NEW a \in Apps, NEW d \in Descriptors, Handles[d].app = a, Release(a, d),
         Unlocked, copying[a].at = "No", todo' \in [Apps -> SUBSET Descriptors],
         \A b \in Apps : todo'[b] = todo[b] \ {d},
         UNCHANGED <<app, storeVars, op, copying, deleting, may>>
  PROVE  BaseInv'
<1>0. TypeOK /\ EntriesInv /\ CallsInv /\ BlocksWhole  BY DEF BaseInv, RingsInv
<1>1. /\ Registry' \in [Records -> Rec] /\ Handles' \in [Descriptors -> Desc]
      /\ Link' \in AllLinks /\ pool' \in Nat
  BY ReleaseTypes
<1>2. PICK last \in BOOLEAN, owner \in Apps \cup {None} : Releases(a, d, Handles[d].reg, last, owner)
  BY ReleaseTypes
<1>3. PICK r : r = Handles[d].reg  OBVIOUS
<1>4. Releases(a, d, r, last, owner)  BY <1>2, <1>3
<1>5. app' = app /\ copying' = copying /\ op' = op  OBVIOUS
<1>6. TypeOK'  BY <1>0, <1>1 DEF TypeOK, storeVars, AllLinks
<1>7. EntriesInv'  BY <1>4, <1>5, ReleaseEntries
<1>8. ListsSound' /\ BackInv'  BY <1>4, ReleaseRings
<1>9. CallsInv'
  <2>1. op' = Idle  BY <1>5 DEF Unlocked
  <2>2. ASSUME NEW b \in Apps
        PROVE  /\ copying'[b].at = "No" => copying'[b] = NotCopying
               /\ copying'[b].at # "No" => /\ app'[b] = "running"
                                           /\ copying'[b].rec \in Records /\ Holds(b, copying[b].rec)'
               /\ todo'[b] = IF app'[b] = "cleaning" THEN {e \in Descriptors : Handles'[e].app = b} ELSE {}
    <3>1. copying'[b].at = "No" => copying'[b] = NotCopying  BY <1>0, <1>5 DEF CallsInv
    <3>2. ASSUME copying'[b].at # "No"
          PROVE  app'[b] = "running" /\ copying'[b].rec \in Records /\ Holds(b, copying[b].rec)'
      <4>1. b \in Apps \ {a}  BY <3>2, <1>5
      <4>2. app[b] = "running" /\ copying[b].rec \in Records /\ Holds(b, copying[b].rec)
        BY <3>2, <1>0, <1>5 DEF CallsInv
      <4>3. \A s \in Records : Holds(b, s) => Holds(b, s)'  BY <4>1, <1>4, ReleaseHandles
      <4>4. PICK s \in Records : s = copying[b].rec  BY <4>2
      <4>5. Holds(b, s)'  BY <4>2, <4>3, <4>4
      <4>6. copying'[b].rec = s  BY <4>4, <1>5
      <4> QED BY <4>2, <4>4, <4>5, <4>6, <1>5 DEF Holds
    <3>3. {e \in Descriptors : Handles'[e].app = b} = {e \in Descriptors : Handles[e].app = b} \ {d}
      BY <1>4, ReleaseHandles
    <3>4. todo[b] = IF app[b] = "cleaning" THEN {e \in Descriptors : Handles[e].app = b} ELSE {}
      BY <1>0 DEF CallsInv
    <3>5. todo'[b] = IF app'[b] = "cleaning" THEN {e \in Descriptors : Handles'[e].app = b} ELSE {}
      BY <3>3, <3>4, <1>5
    <3> QED BY <3>1, <3>2, <3>5
  <2> QED BY <2>1, <2>2 DEF CallsInv, Idle
<1>10. BlocksWhole'
  <2>1. r \in Records /\ \A s \in Records \ {r} : Registry'[s].blocks = Registry[s].blocks
    BY <1>4 DEF Releases
  <2>2. Registry[r].blocks \in Nat /\ pool \in Nat  BY <2>1, <1>0 DEF TypeOK, Rec
  <2>3. pool' + Registry'[r].blocks = pool + Registry[r].blocks
    <3>1. CASE last
      <4>1. Registry'[r] = FreeRec /\ pool' = pool + Registry[r].blocks  BY <3>1, <1>4 DEF Releases
      <4>2. Registry'[r].blocks = 0  BY <4>1 DEF FreeRec
      <4> QED BY <4>1, <4>2, <2>2
    <3>2. CASE ~last
      <4>1. Registry'[r].blocks = Registry[r].blocks /\ pool' = pool  BY <3>2, <1>4 DEF Releases
      <4> QED BY <4>1, <2>2
    <3> QED BY <3>1, <3>2
  <2> QED BY <1>0, <1>6, <2>1, <2>3, BlocksMove
<1>11. ActiveInv'
  <2>1. op'.at = "Idle"  BY <1>5 DEF Unlocked, Idle
  <2>2. ASSUME NEW b \in Apps, NEW s \in Records, copying[b].at # "No", Holds(b, s)
        PROVE  Registry'[s].active = Registry[s].active
    <3>1. CASE s # r  BY <3>1, <1>4 DEF Releases
    <3>2. CASE s = r
      <4>1. \E e \in Descriptors : Handles[e].app = b /\ e \in HandlesOn(r)  BY <2>2, <3>2, <1>0, HoldsFacts
      <4>2. b # a  BY <2>2
      <4>3. HandlesOn(r) # {d}  BY <4>1, <4>2
      <4> QED BY <3>2, <4>3, <1>4 DEF Releases
    <3> QED BY <3>1, <3>2
  <2> QED BY <1>5, <2>1, <2>2, ActiveKept
<1> QED BY <1>6, <1>7, <1>8, <1>9, <1>10, <1>11 DEF BaseInv, RingsInv

LEMMA UnregisterBase ==
  ASSUME BaseInv, NEW a \in Apps, Unregister(a)
  PROVE  BaseInv'
<1>0. TypeOK /\ CallsInv  BY DEF BaseInv, RingsInv
<1>1. PICK d \in Descriptors :
    /\ MayCall(a) /\ Unlocked
    /\ Handles[d].app = a
    /\ Release(a, d)
    /\ UNCHANGED <<app, todo, storeVars, op, copying, deleting, may>>
  BY DEF Unregister
<1>2. copying[a].at = "No" /\ app[a] = "running"  BY <1>1 DEF MayCall, NotCopying
<1>3. \A b \in Apps : todo[b] = todo[b] \ {d}
  <2> SUFFICES ASSUME NEW b \in Apps PROVE d \notin todo[b]  OBVIOUS
  <2>1. todo[b] = IF app[b] = "cleaning" THEN {e \in Descriptors : Handles[e].app = b} ELSE {}
    BY <1>0 DEF CallsInv
  <2> QED BY <2>1, <1>1, <1>2
<1>4. todo' = todo /\ todo' \in [Apps -> SUBSET Descriptors]  BY <1>0, <1>1 DEF TypeOK
<1> QED BY <1>1, <1>2, <1>3, <1>4, ReleaseBase

LEMMA CleanUpAppBase ==
  ASSUME BaseInv, NEW a \in Apps, CleanUpApp(a)
  PROVE  BaseInv'
<1>0. TypeOK /\ CallsInv  BY DEF BaseInv, RingsInv
<1>1. PICK d \in todo[a] :
    /\ app[a] = "cleaning" /\ Unlocked
    /\ todo' = [todo EXCEPT ![a] = @ \ {d}]
    /\ Release(a, d)
    /\ UNCHANGED <<app, storeVars, op, copying, deleting, may>>
  BY DEF CleanUpApp
<1>2. d \in Descriptors /\ Handles[d].app = a  BY <1>0, <1>1 DEF CallsInv
<1>3. copying[a].at = "No"
  <2>1. copying[a].at # "No" => app[a] = "running"  BY <1>0 DEF CallsInv
  <2> QED BY <2>1, <1>1
<1>4. \A b \in Apps : todo'[b] = todo[b] \ {d}
  <2>1. todo'[a] = todo[a] \ {d} /\ \A b \in Apps \ {a} : todo'[b] = todo[b]  BY <1>0, <1>1 DEF TypeOK
  <2>2. ASSUME NEW b \in Apps \ {a} PROVE d \notin todo[b]
    <3>1. todo[b] = IF app[b] = "cleaning" THEN {e \in Descriptors : Handles[e].app = b} ELSE {}
      BY <1>0 DEF CallsInv
    <3> QED BY <3>1, <1>2
  <2> QED BY <2>1, <2>2
<1>5. todo' \in [Apps -> SUBSET Descriptors]  BY <1>0, <1>1 DEF TypeOK
<1> QED BY <1>1, <1>2, <1>3, <1>4, <1>5, ReleaseBase

-----------------------------------------------------------------------------
(* Edits of one field of a record                                          *)

\* S is R but for what record r says of its store and its image.
Edited(R, S, r) ==
  /\ S \in [Records -> Rec]
  /\ S[r].used = R[r].used /\ S[r].name = R[r].name /\ S[r].owner = R[r].owner
  /\ S[r].blocks = R[r].blocks /\ S[r].double = R[r].double
  /\ \A s \in Records \ {r} : S[s] = R[s]

SetCds(R, r, id) == [R EXCEPT ![r].cds = id]

LEMMA EditCds ==
  ASSUME NEW R \in [Records -> Rec], NEW r \in Records, NEW id \in 0..MaxStores
  PROVE  /\ Edited(R, SetCds(R, r, id), r)
         /\ SetCds(R, r, id)[r].cds = id
         /\ SetCds(R, r, id)[r].critical = R[r].critical
         /\ SetCds(R, r, id)[r].active = R[r].active
         /\ SetCds(R, r, id)[r].buffer = R[r].buffer
<1> DEFINE new == [R[r] EXCEPT !.cds = id]
<1>1. /\ new \in Rec /\ new.used = R[r].used /\ new.name = R[r].name /\ new.owner = R[r].owner
      /\ new.blocks = R[r].blocks /\ new.double = R[r].double
      /\ new.cds = id /\ new.critical = R[r].critical /\ new.active = R[r].active /\ new.buffer = R[r].buffer
  BY DEF Rec
<1>2. SetCds(R, r, id) = [R EXCEPT ![r] = new]  BY DEF SetCds
<1> HIDE DEF new
<1> QED BY <1>1, <1>2 DEF Edited

SetCritical(R, r) == [R EXCEPT ![r].critical = TRUE]

LEMMA EditCritical ==
  ASSUME NEW R \in [Records -> Rec], NEW r \in Records
  PROVE  /\ Edited(R, SetCritical(R, r), r)
         /\ SetCritical(R, r)[r].critical
         /\ SetCritical(R, r)[r].cds = R[r].cds
         /\ SetCritical(R, r)[r].active = R[r].active
         /\ SetCritical(R, r)[r].buffer = R[r].buffer
<1> DEFINE new == [R[r] EXCEPT !.critical = TRUE]
<1>1. /\ new \in Rec /\ new.used = R[r].used /\ new.name = R[r].name /\ new.owner = R[r].owner
      /\ new.blocks = R[r].blocks /\ new.double = R[r].double
      /\ new.critical /\ new.cds = R[r].cds /\ new.active = R[r].active /\ new.buffer = R[r].buffer
  BY DEF Rec
<1>2. SetCritical(R, r) = [R EXCEPT ![r] = new]  BY DEF SetCritical
<1> HIDE DEF new
<1> QED BY <1>1, <1>2 DEF Edited

SetActive(R, r, b) == [R EXCEPT ![r].active = b]

LEMMA EditActive ==
  ASSUME NEW R \in [Records -> Rec], NEW r \in Records, NEW b \in 0..2
  PROVE  /\ Edited(R, SetActive(R, r, b), r)
         /\ SetActive(R, r, b)[r].active = b
         /\ SetActive(R, r, b)[r].cds = R[r].cds
         /\ SetActive(R, r, b)[r].critical = R[r].critical
         /\ SetActive(R, r, b)[r].buffer = R[r].buffer
<1> DEFINE new == [R[r] EXCEPT !.active = b]
<1>1. /\ new \in Rec /\ new.used = R[r].used /\ new.name = R[r].name /\ new.owner = R[r].owner
      /\ new.blocks = R[r].blocks /\ new.double = R[r].double
      /\ new.active = b /\ new.cds = R[r].cds /\ new.critical = R[r].critical /\ new.buffer = R[r].buffer
  BY DEF Rec
<1>2. SetActive(R, r, b) = [R EXCEPT ![r] = new]  BY DEF SetActive
<1> HIDE DEF new
<1> QED BY <1>1, <1>2 DEF Edited

SetBuffer(R, r, b, v) == [R EXCEPT ![r].buffer[b] = v]

LEMMA EditBuffer ==
  ASSUME NEW R \in [Records -> Rec], NEW r \in Records, NEW b \in 1..2, NEW v \in Recovery
  PROVE  /\ Edited(R, SetBuffer(R, r, b, v), r)
         /\ SetBuffer(R, r, b, v)[r].buffer[b] = v
         /\ \A c \in (1..2) \ {b} : SetBuffer(R, r, b, v)[r].buffer[c] = R[r].buffer[c]
         /\ SetBuffer(R, r, b, v)[r].cds = R[r].cds
         /\ SetBuffer(R, r, b, v)[r].critical = R[r].critical
         /\ SetBuffer(R, r, b, v)[r].active = R[r].active
<1> DEFINE buf == [R[r].buffer EXCEPT ![b] = v]
           new == [R[r] EXCEPT !.buffer = buf]
<1>1. R[r].buffer \in [1..2 -> Images \cup {None}]  BY DEF Rec
<1>2. /\ buf \in [1..2 -> Images \cup {None}] /\ buf[b] = v
      /\ \A c \in (1..2) \ {b} : buf[c] = R[r].buffer[c]
  <2> DEFINE f == R[r].buffer
  <2> HIDE DEF f
  <2> QED BY <1>1 DEF Recovery, f
<1>3. SetBuffer(R, r, b, v) = [R EXCEPT ![r] = new]  BY DEF SetBuffer
<1> HIDE DEF buf
<1>4. /\ new \in Rec /\ new.used = R[r].used /\ new.name = R[r].name /\ new.owner = R[r].owner
      /\ new.blocks = R[r].blocks /\ new.double = R[r].double
      /\ new.buffer = buf /\ new.cds = R[r].cds /\ new.critical = R[r].critical /\ new.active = R[r].active
  BY <1>2 DEF Rec
<1> HIDE DEF new
<1> QED BY <1>2, <1>3, <1>4 DEF Edited

LEMMA EditsKeep ==
  ASSUME TypeOK, NEW r \in Records, Registry[r].used, Edited(Registry, Registry', r)
  PROVE  KeepsRecords /\ Registry' \in [Records -> Rec]
BY DEF Edited, KeepsRecords, KeepsRecord

(* Image v becomes active in buffer b of record r.                         *)
LEMMA ActivatesFacts ==
  ASSUME TypeOK, NEW r \in Records, NEW b \in 1..2, NEW v \in Recovery, Activates(r, b, v)
  PROVE  /\ Edited(Registry, Registry', r)
         /\ Registry'[r].active = b /\ Registry'[r].buffer[b] = v
         /\ \A c \in (1..2) \ {b} : Registry'[r].buffer[c] = Registry[r].buffer[c]
         /\ Registry'[r].cds = Registry[r].cds /\ Registry'[r].critical = Registry[r].critical
<1> DEFINE R1 == SetActive(Registry, r, b)
<1>1. Registry \in [Records -> Rec] /\ b \in 0..2  BY DEF TypeOK
<1>2. /\ Edited(Registry, R1, r) /\ R1[r].active = b /\ R1[r].cds = Registry[r].cds
      /\ R1[r].critical = Registry[r].critical /\ R1[r].buffer = Registry[r].buffer
  BY <1>1, EditActive
<1>3. Registry' = SetBuffer(R1, r, b, v)  BY DEF Activates, SetActive, SetBuffer
<1> HIDE DEF R1
<1>4. R1 \in [Records -> Rec]  BY <1>2 DEF Edited
<1>5. /\ Edited(R1, Registry', r) /\ Registry'[r].buffer[b] = v
      /\ \A c \in (1..2) \ {b} : Registry'[r].buffer[c] = R1[r].buffer[c]
      /\ Registry'[r].cds = R1[r].cds /\ Registry'[r].critical = R1[r].critical /\ Registry'[r].active = R1[r].active
  BY <1>3, <1>4, EditBuffer
<1>6. Edited(Registry, Registry', r)  BY <1>2, <1>5 DEF Edited
<1> QED BY <1>2, <1>5, <1>6

LEMMA NextBufferType ==
  ASSUME NEW r PROVE NextBuffer(r) \in 1..2
BY DEF NextBuffer

-----------------------------------------------------------------------------
(* Calls                                                                   *)

\* App a runs and has a handle on record r.
InCall(a, r) == a \in Apps /\ app[a] = "running" /\ r \in Records /\ Holds(a, r)

LEMMA CallFacts ==
  ASSUME BaseInv
  PROVE  /\ op.at # "Idle" => InCall(op.app, op.rec) /\ copying[op.app] = NotCopying
         /\ \A a \in Apps : copying[a].at # "No" => InCall(a, copying[a].rec)
BY DEF BaseInv, RingsInv, CallsInv, InCall

LEMMA InCallFacts ==
  ASSUME BaseInv, NEW a, NEW r, InCall(a, r)
  PROVE  a \in Apps /\ r \in Records /\ Registry[r].used /\ Registry[r].name \in Names
BY HoldsFacts DEF InCall, BaseInv, RingsInv

LEMMA HandleInCall ==
  ASSUME BaseInv, NEW a \in Apps, NEW d \in Descriptors, Handles[d].app = a, app[a] = "running"
  PROVE  InCall(a, Handles[d].reg)
<1>1. Handles[d].reg \in Records
  <2>1. Handles[d].app # None  BY NoneApart
  <2> QED BY <2>1, HandleFacts DEF BaseInv, RingsInv
<1> QED BY <1>1 DEF InCall, Holds

LEMMA CallsStep ==
  ASSUME BaseInv, UNCHANGED <<app, todo, Handles>>,
         op' = Idle \/ (op'.at # "Idle" /\ InCall(op'.app, op'.rec) /\ copying'[op'.app] = NotCopying),
         \A a \in Apps : copying'[a] = NotCopying \/ (copying'[a].at # "No" /\ InCall(a, copying'[a].rec))
  PROVE  CallsInv'
<1>1. app' = app /\ todo' = todo /\ Handles' = Handles  OBVIOUS
<1>2. /\ op'.at = "Idle" => op' = Idle
      /\ op'.at # "Idle" => /\ op'.app \in Apps /\ app'[op'.app] = "running" /\ copying'[op'.app] = NotCopying
                            /\ op'.rec \in Records /\ Holds(op.app, op.rec)'
  <2>1. CASE op' = Idle  BY <2>1 DEF Idle
  <2>2. CASE op'.at # "Idle" /\ InCall(op'.app, op'.rec) /\ copying'[op'.app] = NotCopying
    <3>1. Holds(op.app, op.rec)'  BY <2>2, <1>1 DEF InCall, Holds
    <3> QED BY <2>2, <3>1, <1>1 DEF InCall
  <2> QED BY <2>1, <2>2
<1>3. ASSUME NEW a \in Apps
      PROVE  /\ copying'[a].at = "No" => copying'[a] = NotCopying
             /\ copying'[a].at # "No" => /\ app'[a] = "running"
                                         /\ copying'[a].rec \in Records /\ Holds(a, copying[a].rec)'
             /\ todo'[a] = IF app'[a] = "cleaning" THEN {d \in Descriptors : Handles'[d].app = a} ELSE {}
  <2>1. CASE copying'[a] = NotCopying
    <3>1. copying'[a].at = "No"  BY <2>1 DEF NotCopying
    <3> QED BY <2>1, <3>1, <1>1 DEF BaseInv, RingsInv, CallsInv
  <2>2. CASE copying'[a].at # "No" /\ InCall(a, copying'[a].rec)
    <3>1. Holds(a, copying[a].rec)'  BY <2>2, <1>1 DEF InCall, Holds
    <3>2. todo'[a] = IF app'[a] = "cleaning" THEN {d \in Descriptors : Handles'[d].app = a} ELSE {}
      BY <1>1 DEF BaseInv, RingsInv, CallsInv
    <3> QED BY <2>2, <3>1, <3>2, <1>1 DEF InCall
  <2> QED BY <2>1, <2>2
<1> QED BY <1>2, <1>3 DEF CallsInv

(* The calls without the mutex go on.                                      *)
LEMMA CopyingSame ==
  ASSUME BaseInv, copying' = copying
  PROVE  \A a \in Apps : copying'[a] = NotCopying \/ (copying'[a].at # "No" /\ InCall(a, copying'[a].rec))
BY CallFacts DEF BaseInv, RingsInv, CallsInv

(* The call with the mutex goes on.                                        *)
LEMMA OpSame ==
  ASSUME BaseInv, op' = op, op.at # "Idle" => copying'[op.app] = copying[op.app]
  PROVE  op' = Idle \/ (op'.at # "Idle" /\ InCall(op'.app, op'.rec) /\ copying'[op'.app] = NotCopying)
BY CallFacts DEF BaseInv, RingsInv, CallsInv

LEMMA QuietBase ==
  ASSUME BaseInv, TypeOK', KeepsRecords, UNCHANGED <<Handles, Link, pool>>, CallsInv', ActiveInv',
         \A d \in Descriptors : Handles[d].app # None => app'[Handles[d].app] # "out"
  PROVE  BaseInv'
<1>1. EntriesInv'  BY EntriesKept DEF BaseInv, RingsInv
<1>2. ListsSound' /\ BackInv'  BY RingsKept DEF BaseInv, RingsInv
<1>3. BlocksWhole'  BY BlocksKept DEF BaseInv
<1> QED BY <1>1, <1>2, <1>3 DEF BaseInv, RingsInv

LEMMA HandlesIn ==
  ASSUME BaseInv
  PROVE  \A d \in Descriptors : Handles[d].app # None => Handles[d].app \in Apps /\ app[Handles[d].app] # "out"
BY HandleFacts DEF BaseInv, RingsInv, EntriesInv

(* The start and the end of an app change none of its entries.             *)
LEMMA AppBase ==
  ASSUME BaseInv, UNCHANGED <<handleVars, storeVars, op, copying, deleting, may>>,
         app' \in [Apps -> {"out", "running", "cleaning"}], todo' \in [Apps -> SUBSET Descriptors],
         \A b \in Apps : /\ app[b] = "running" /\ (copying[b] # NotCopying \/ (op.at # "Idle" /\ op.app = b))
                              => app'[b] = "running"
                         /\ todo'[b] = IF app'[b] = "cleaning" THEN {d \in Descriptors : Handles[d].app = b} ELSE {}
                         /\ app'[b] = "out" => \A d \in Descriptors : Handles[d].app # b
  PROVE  BaseInv'
<1>1. /\ Registry' = Registry /\ Handles' = Handles /\ Link' = Link /\ pool' = pool
      /\ op' = op /\ copying' = copying
  BY DEF handleVars
<1>2. TypeOK'  BY <1>1 DEF BaseInv, RingsInv, TypeOK, storeVars
<1>3. KeepsRecords  BY <1>1 DEF KeepsRecords, KeepsRecord
<1>4. ActiveInv'  BY <1>1 DEF BaseInv, RingsInv, ActiveInv
<1>5. CallsInv'
  <2>1. op.at = "Idle" => op = Idle  BY DEF BaseInv, RingsInv, CallsInv
  <2>2. op.at # "Idle" => /\ op.app \in Apps /\ app'[op.app] = "running" /\ copying[op.app] = NotCopying
                          /\ op.rec \in Records /\ Holds(op.app, op.rec)
    BY CallFacts DEF InCall
  <2>3. \A b \in Apps : copying[b].at = "No" => copying[b] = NotCopying
    BY DEF BaseInv, RingsInv, CallsInv
  <2>4. \A b \in Apps : copying[b].at # "No" => /\ app'[b] = "running"
                                                /\ copying[b].rec \in Records /\ Holds(b, copying[b].rec)
    BY CallFacts DEF InCall, NotCopying
  <2> QED BY <2>1, <2>2, <2>3, <2>4, <1>1 DEF CallsInv, Holds
<1>6. \A d \in Descriptors : Handles[d].app # None => app'[Handles[d].app] # "out"
  BY HandlesIn
<1> QED BY <1>1, <1>2, <1>3, <1>4, <1>5, <1>6, QuietBase

LEMMA StartAppBase ==
  ASSUME BaseInv, NEW a \in Apps, StartApp(a)
  PROVE  BaseInv'
<1>1. /\ app[a] = "out" /\ app' = [app EXCEPT ![a] = "running"] /\ todo' = todo
      /\ UNCHANGED <<handleVars, storeVars, op, copying, deleting, may>>
  BY DEF StartApp
<1>2. TypeOK  BY DEF BaseInv, RingsInv
<1>3. app'[a] = "running" /\ \A b \in Apps \ {a} : app'[b] = app[b]  BY <1>1, <1>2 DEF TypeOK
<1>4. app' \in [Apps -> {"out", "running", "cleaning"}] /\ todo' \in [Apps -> SUBSET Descriptors]
  BY <1>1, <1>2 DEF TypeOK
<1>5. ASSUME NEW b \in Apps
      PROVE  /\ app[b] = "running" /\ (copying[b] # NotCopying \/ (op.at # "Idle" /\ op.app = b))
                   => app'[b] = "running"
             /\ todo'[b] = IF app'[b] = "cleaning" THEN {d \in Descriptors : Handles[d].app = b} ELSE {}
             /\ app'[b] = "out" => \A d \in Descriptors : Handles[d].app # b
  <2>1. todo[b] = IF app[b] = "cleaning" THEN {d \in Descriptors : Handles[d].app = b} ELSE {}
    BY DEF BaseInv, RingsInv, CallsInv
  <2>2. app'[b] = "out" => app[b] = "out"  BY <1>1, <1>3
  <2>3. app[b] = "out" => \A d \in Descriptors : Handles[d].app # b  BY HandlesIn, NoneApart
  <2> QED BY <2>1, <2>2, <2>3, <1>1, <1>3
<1> QED BY <1>1, <1>4, <1>5, AppBase

LEMMA StopAppBase ==
  ASSUME BaseInv, NEW a \in Apps, StopApp(a)
  PROVE  BaseInv'
<1>1. /\ MayCall(a) /\ app' = [app EXCEPT ![a] = "cleaning"]
      /\ todo' = [todo EXCEPT ![a] = {d \in Descriptors : Handles[d].app = a}]
      /\ UNCHANGED <<handleVars, storeVars, op, copying, deleting, may>>
  BY DEF StopApp
<1>2. TypeOK  BY DEF BaseInv, RingsInv
<1>3. /\ app'[a] = "cleaning" /\ todo'[a] = {d \in Descriptors : Handles[d].app = a}
      /\ \A b \in Apps \ {a} : app'[b] = app[b] /\ todo'[b] = todo[b]
  BY <1>1, <1>2 DEF TypeOK
<1>4. app' \in [Apps -> {"out", "running", "cleaning"}] /\ todo' \in [Apps -> SUBSET Descriptors]
  BY <1>1, <1>2 DEF TypeOK
<1>5. ASSUME NEW b \in Apps
      PROVE  /\ app[b] = "running" /\ (copying[b] # NotCopying \/ (op.at # "Idle" /\ op.app = b))
                   => app'[b] = "running"
             /\ todo'[b] = IF app'[b] = "cleaning" THEN {d \in Descriptors : Handles[d].app = b} ELSE {}
             /\ app'[b] = "out" => \A d \in Descriptors : Handles[d].app # b
  <2>1. todo[b] = IF app[b] = "cleaning" THEN {d \in Descriptors : Handles[d].app = b} ELSE {}
    BY DEF BaseInv, RingsInv, CallsInv
  <2>2. app'[b] = "out" => app[b] = "out"  BY <1>1, <1>3
  <2>3. app[b] = "out" => \A d \in Descriptors : Handles[d].app # b  BY HandlesIn, NoneApart
  <2>4. b = a => copying[b] = NotCopying /\ op.app # b  BY <1>1 DEF MayCall
  <2> QED BY <2>1, <2>2, <2>3, <2>4, <1>3
<1> QED BY <1>1, <1>4, <1>5, AppBase

LEMMA CleanUpDoneBase ==
  ASSUME BaseInv, NEW a \in Apps, CleanUpDone(a)
  PROVE  BaseInv'
<1>1. /\ app[a] = "cleaning" /\ todo[a] = {} /\ app' = [app EXCEPT ![a] = "out"] /\ todo' = todo
      /\ UNCHANGED <<handleVars, storeVars, op, copying, deleting, may>>
  BY DEF CleanUpDone
<1>2. TypeOK  BY DEF BaseInv, RingsInv
<1>3. app'[a] = "out" /\ \A b \in Apps \ {a} : app'[b] = app[b]  BY <1>1, <1>2 DEF TypeOK
<1>4. app' \in [Apps -> {"out", "running", "cleaning"}] /\ todo' \in [Apps -> SUBSET Descriptors]
  BY <1>1, <1>2 DEF TypeOK
<1>5. ASSUME NEW b \in Apps
      PROVE  /\ app[b] = "running" /\ (copying[b] # NotCopying \/ (op.at # "Idle" /\ op.app = b))
                   => app'[b] = "running"
             /\ todo'[b] = IF app'[b] = "cleaning" THEN {d \in Descriptors : Handles[d].app = b} ELSE {}
             /\ app'[b] = "out" => \A d \in Descriptors : Handles[d].app # b
  <2>1. todo[b] = IF app[b] = "cleaning" THEN {d \in Descriptors : Handles[d].app = b} ELSE {}
    BY DEF BaseInv, RingsInv, CallsInv
  <2>2. app[b] = "out" => \A d \in Descriptors : Handles[d].app # b  BY HandlesIn, NoneApart
  <2>3. \A d \in Descriptors : Handles[d].app # a
    <3>1. todo[a] = {d \in Descriptors : Handles[d].app = a}  BY <1>1 DEF BaseInv, RingsInv, CallsInv
    <3> QED BY <3>1, <1>1
  <2> QED BY <2>1, <2>2, <2>3, <1>1, <1>3
<1> QED BY <1>1, <1>4, <1>5, AppBase

-----------------------------------------------------------------------------
(* Entries of the critical registry                                        *)

AllCrit == [1..MaxCritical -> Crit]

(* The entry found is the first for the store.                             *)
LEMMA InfoFacts ==
  ASSUME NEW reg \in AllCrit, NEW id
  PROVE  /\ Info(reg, id) \in 0..MaxCritical
         /\ Info(reg, id) # 0 => Info(reg, id) \in 1..MaxCritical /\ reg[Info(reg, id)].cds = id
         /\ \A e \in 1..MaxCritical : reg[e].cds = id => Info(reg, id) \in 1..e
<1> DEFINE found == {e \in 1..MaxCritical : reg[e].cds = id}
<1>1. CASE found = {}
  <2>1. Info(reg, id) = 0  BY <1>1 DEF Info
  <2> QED BY <2>1, <1>1, BoundAssumption
<1>2. CASE found # {}
  <2>1. found \subseteq Nat  BY BoundAssumption
  <2> DEFINE Less == {p \in Nat \X Nat : p[1] < p[2]}
  <2>2. IsWellFoundedOn(Less, Nat)
    <3>1. Less = OpToRel(<, Nat)  BY Zenon DEF OpToRel
    <3> QED BY <3>1, NatLessThanWellFounded, Zenon
  <2>3. PICK k \in found : \A j \in found : <<j, k>> \notin Less
    <3> HIDE DEF Less, found
    <3> QED BY <1>2, <2>1, <2>2, WFMin, Zenon
  <2>4. \A i, j \in Nat : i < j => <<i, j>> \in Less  OBVIOUS
  <2>5. \A j \in found : k <= j
    <3> HIDE DEF Less, found
    <3> SUFFICES ASSUME NEW j \in found PROVE k <= j  OBVIOUS
    <3>1. j \in Nat /\ k \in Nat  BY <2>1
    <3>2. ~(j < k)  BY <2>3, <2>4, <3>1, Zenon
    <3> QED BY <3>1, <3>2
  <2>6. Info(reg, id) = Min(found)  BY <1>2 DEF Info
  <2>7. Min(found) \in found /\ \A j \in found : Min(found) <= j
    <3> HIDE DEF found, Less
    <3> QED BY <2>5 DEF Min
  <2>8. \A e \in found : Min(found) \in 1..e  BY <2>7, BoundAssumption
  <2>9. \A e \in 1..MaxCritical : reg[e].cds = id => e \in found  OBVIOUS
  <2>10. Min(found) \in 1..MaxCritical /\ reg[Min(found)].cds = id  BY <2>7
  <2> HIDE DEF found
  <2> QED BY <2>6, <2>8, <2>9, <2>10, BoundAssumption
<1> QED BY <1>1, <1>2

LEMMA WithEntryType ==
  ASSUME TypeOK, NEW r \in Records
  PROVE  WithEntry(r) \in AllCrit
<1> DEFINE e == Info(CritReg, 0)
           R1 == [CritReg EXCEPT ![e].cds = Registry[r].cds]
<1>1. CritReg \in AllCrit /\ Registry[r].cds \in 0..MaxStores /\ Registry[r].name \in Names \cup {None}
  BY DEF TypeOK, AllCrit, Rec
<1>2. CASE e = 0  BY <1>1, <1>2 DEF WithEntry
<1>3. CASE e # 0
  <2>1. e \in 1..MaxCritical  BY <1>1, <1>3, InfoFacts
  <2>2. R1 \in AllCrit
    <3> HIDE DEF e
    <3> QED BY <1>1, <2>1 DEF AllCrit, Crit
  <2>3. WithEntry(r) = [R1 EXCEPT ![e].name = Registry[r].name]  BY <1>3 DEF WithEntry
  <2> HIDE DEF R1, e
  <2> QED BY <1>1, <2>1, <2>2, <2>3 DEF AllCrit, Crit
<1> QED BY <1>2, <1>3

LEMMA SaveEntryType ==
  ASSUME TypeOK, NEW r \in Records, SaveEntry(r)
  PROVE  CritReg' \in AllCrit /\ SavedCritReg' \in AllCrit
<1> DEFINE e == Info(CritReg, Registry[r].cds)
<1>1. CritReg \in AllCrit /\ SavedCritReg \in AllCrit  BY DEF TypeOK, AllCrit
<1>2. e # 0 => e \in 1..MaxCritical  BY <1>1, InfoFacts
<1>3. CritReg' = (IF e = 0 THEN CritReg ELSE [CritReg EXCEPT ![e].loaded = TRUE])
      /\ SavedCritReg' = IF e = 0 THEN SavedCritReg ELSE CritReg'
  BY DEF SaveEntry
<1> HIDE DEF e
<1> QED BY <1>1, <1>2, <1>3 DEF AllCrit, Crit

LEMMA CopyDataFacts ==
  ASSUME TypeOK, NEW r \in Records, Registry[r].name \in Names, NEW b \in 1..2, CopyData(r, b)
  PROVE  /\ Cds' \in [Names -> Store]
         /\ Cds'[Registry[r].name].image = Registry[r].buffer[b]
         /\ Cds'[Registry[r].name].id = Cds[Registry[r].name].id
         /\ \A n \in Names \ {Registry[r].name} : Cds'[n] = Cds[n]
<1> DEFINE v == Registry[r].buffer[b]
           n == Registry[r].name
<1>1. v \in Recovery
  <2>1. Registry[r].buffer \in [1..2 -> Images \cup {None}]  BY DEF TypeOK, Rec
  <2> QED BY <2>1 DEF Recovery
<1>2. Cds' = [Cds EXCEPT ![n].image = v] /\ Cds \in [Names -> Store]  BY DEF CopyData, TypeOK
<1> HIDE DEF v, n
<1>3. n \in Names  BY DEF n
<1>4. /\ Cds' \in [Names -> Store] /\ Cds'[n].image = v /\ Cds'[n].id = Cds[n].id
      /\ \A m \in Names \ {n} : Cds'[m] = Cds[m]
  BY <1>1, <1>2, <1>3 DEF Store
<1> QED BY <1>4 DEF n, v

LEMMA PromiseFacts ==
  ASSUME TypeOK, NEW n \in Names, NEW images \in SUBSET Recovery, Promise(n, images)
  PROVE  /\ may' \in [Names -> SUBSET Recovery] /\ may'[n] = images
         /\ \A m \in Names \ {n} : may'[m] = may[m]
BY DEF TypeOK, Promise

LEMMA KeptType ==
  ASSUME TypeOK, NEW r \in Records, Registry[r].active # 0
  PROVE  Kept(r) \in SUBSET Recovery /\ Registry[r].active \in 1..2
<1>1. Registry[r].active \in 1..2 /\ Registry[r].buffer \in [1..2 -> Images \cup {None}]
  BY DEF TypeOK, Rec
<1> QED BY <1>1 DEF Kept, Recovery

-----------------------------------------------------------------------------
(* What may be recovered and what is copied keep entries, rings, calls and *)
(* blocks                                                                  *)

(* An action that leaves entries and calls alone but for what the call     *)
(* with the mutex does next.                                               *)
LEMMA StoreBase ==
  ASSUME BaseInv, UNCHANGED <<app, todo, Handles, Link, pool>>, TypeOK', KeepsRecords,
         op' = Idle \/ (op'.at # "Idle" /\ InCall(op'.app, op'.rec) /\ copying'[op'.app] = NotCopying),
         \A a \in Apps : copying'[a] = NotCopying \/ (copying'[a].at # "No" /\ InCall(a, copying'[a].rec)),
         ActiveInv'
  PROVE  BaseInv'
<1>1. CallsInv'  BY CallsStep
<1>2. \A d \in Descriptors : Handles[d].app # None => app'[Handles[d].app] # "out"
  BY HandlesIn
<1> QED BY <1>1, <1>2, QuietBase

LEMMA SameRecords ==
  ASSUME Registry' = Registry
  PROVE  KeepsRecords
BY DEF KeepsRecords, KeepsRecord

(* How the attempt to get a store for the table ends.                      *)
NoStoreGot(n) == /\ Cds[n].id = 0 /\ op' = Idle
                 /\ Registry' = Registry /\ Cds' = Cds /\ may' = may

NewStoreGot(r, n, id, image) ==
  /\ Cds[n].id = 0 /\ id \in 1..MaxStores \ {Cds[m].id : m \in Names} /\ image \in Recovery
  /\ Cds' = [Cds EXCEPT ![n] = [id |-> id, image |-> image]]
  /\ Edited(Registry, Registry', r) /\ Registry'[r].cds = id /\ Registry'[r].critical = Registry[r].critical
  /\ Registry'[r].active = Registry[r].active /\ Registry'[r].buffer = Registry[r].buffer
  /\ op' = [op EXCEPT !.at = "SaveCrit"]
  /\ may' = IF LoadedOnce(CritReg, id) \/ LoadedOnce(SavedCritReg, id) THEN [may EXCEPT ![n] = Recovery] ELSE may

ImageRecovered(r, n) ==
  /\ Cds[n].id # 0 /\ Cds[n].image # None /\ LoadedOnce(CritReg, Cds[n].id)
  /\ Edited(Registry, Registry', r) /\ Registry'[r].cds = Cds[n].id /\ Registry'[r].critical
  /\ Registry'[r].active = 1 /\ Registry'[r].buffer[1] = Cds[n].image
  /\ op' = Idle /\ Cds' = Cds /\ may' = may

NothingRecovered(r, n) ==
  /\ Cds[n].id # 0 /\ ~(Cds[n].image # None /\ LoadedOnce(CritReg, Cds[n].id))
  /\ Edited(Registry, Registry', r) /\ Registry'[r].cds = Cds[n].id /\ Registry'[r].critical
  /\ Registry'[r].active = Registry[r].active /\ Registry'[r].buffer = Registry[r].buffer
  /\ op' = [op EXCEPT !.at = "SaveCrit"] /\ Cds' = Cds /\ may' = may

LEMMA RegisterCdsEnds ==
  ASSUME TypeOK, RegisterCds, NEW r \in Records, r = op.rec, NEW n \in Names, n = Registry[r].name
  PROVE  \/ NoStoreGot(n)
         \/ \E id \in 1..MaxStores, image \in Recovery : NewStoreGot(r, n, id, image)
         \/ ImageRecovered(r, n)
         \/ NothingRecovered(r, n)
<1>1. Registry \in [Records -> Rec] /\ Cds[n] \in Store  BY DEF TypeOK
<1>2. Cds[n].id \in 0..MaxStores /\ Cds[n].image \in Recovery  BY <1>1 DEF Store
<1>3. CASE /\ Cds[n].id = 0
           /\ op' = Idle
           /\ UNCHANGED <<Registry, Cds, may>>
  BY <1>3 DEF NoStoreGot
<1>4. ASSUME NEW id \in 1..MaxStores \ {Cds[m].id : m \in Names}, NEW image \in Recovery,
             /\ Cds[n].id = 0
             /\ Cds' = [Cds EXCEPT ![n] = [id |-> id, image |-> image]]
             /\ Registry' = [Registry EXCEPT ![r].cds = id]
             /\ op' = [op EXCEPT !.at = "SaveCrit"]
             /\ may' = IF LoadedOnce(CritReg, id) \/ LoadedOnce(SavedCritReg, id)
                       THEN [may EXCEPT ![n] = Recovery] ELSE may
      PROVE  NewStoreGot(r, n, id, image)
  <2>1. id \in 0..MaxStores  BY BoundAssumption
  <2>2. Registry' = SetCds(Registry, r, id)  BY <1>4 DEF SetCds
  <2>3. /\ Edited(Registry, Registry', r) /\ Registry'[r].cds = id /\ Registry'[r].critical = Registry[r].critical
        /\ Registry'[r].active = Registry[r].active /\ Registry'[r].buffer = Registry[r].buffer
    BY <2>1, <2>2, <1>1, EditCds
  <2> QED BY <1>4, <2>3 DEF NewStoreGot
<1>5. PICK R1 : R1 = SetCds(Registry, r, Cds[n].id)  OBVIOUS
<1>6. PICK R2 : R2 = SetCritical(R1, r)  OBVIOUS
<1>7. PICK R3 : R3 = SetActive(R2, r, 1)  OBVIOUS
<1>8. /\ Edited(Registry, R1, r) /\ R1[r].cds = Cds[n].id
      /\ R1[r].active = Registry[r].active /\ R1[r].buffer = Registry[r].buffer
  BY <1>1, <1>2, <1>5, EditCds
<1>9. R1 \in [Records -> Rec]  BY <1>8 DEF Edited
<1>10. /\ Edited(R1, R2, r) /\ R2[r].cds = R1[r].cds /\ R2[r].critical
       /\ R2[r].active = R1[r].active /\ R2[r].buffer = R1[r].buffer
  BY <1>6, <1>9, EditCritical
<1>11. R2 \in [Records -> Rec]  BY <1>10 DEF Edited
<1>12. /\ Edited(R2, R3, r) /\ R3[r].cds = R2[r].cds /\ R3[r].critical = R2[r].critical /\ R3[r].active = 1
  BY <1>7, <1>11, EditActive
<1>13. R3 \in [Records -> Rec]  BY <1>12 DEF Edited
<1>14. Edited(Registry, R2, r) /\ Edited(Registry, R3, r)  BY <1>8, <1>10, <1>12 DEF Edited
<1>15. CASE /\ Cds[n].id # 0 /\ Cds[n].image # None /\ LoadedOnce(CritReg, Cds[n].id)
            /\ Registry' = [Registry EXCEPT ![r].cds = Cds[n].id, ![r].critical = TRUE,
                              ![r].active = 1, ![r].buffer[1] = Cds[n].image]
            /\ op' = Idle
            /\ UNCHANGED <<Cds, may>>
  <2>1. Registry' = SetBuffer(R3, r, 1, Cds[n].image)
    BY <1>5, <1>6, <1>7, <1>15 DEF SetCds, SetCritical, SetActive, SetBuffer
  <2>2. /\ Edited(R3, Registry', r) /\ Registry'[r].buffer[1] = Cds[n].image
        /\ Registry'[r].cds = R3[r].cds /\ Registry'[r].critical = R3[r].critical /\ Registry'[r].active = R3[r].active
    BY <2>1, <1>13, <1>2, EditBuffer
  <2>3. Edited(Registry, Registry', r)  BY <2>2, <1>14 DEF Edited
  <2>4. ImageRecovered(r, n)  BY <1>15, <2>2, <2>3, <1>8, <1>10, <1>12 DEF ImageRecovered
  <2> QED BY <2>4
<1>16. CASE /\ Cds[n].id # 0 /\ ~(Cds[n].image # None /\ LoadedOnce(CritReg, Cds[n].id))
            /\ Registry' = [Registry EXCEPT ![r].cds = Cds[n].id, ![r].critical = TRUE]
            /\ op' = [op EXCEPT !.at = "SaveCrit"]
            /\ UNCHANGED <<Cds, may>>
  <2>1. Registry' = R2  BY <1>5, <1>6, <1>16 DEF SetCds, SetCritical
  <2>2. NothingRecovered(r, n)  BY <1>16, <2>1, <1>14, <1>8, <1>10 DEF NothingRecovered
  <2> QED BY <2>2
<1> QED BY <1>3, <1>4, <1>15, <1>16 DEF RegisterCds

LEMMA RegisterCdsBase ==
  ASSUME BaseInv, RegisterCds
  PROVE  BaseInv'
<1>0. TypeOK  BY DEF BaseInv, RingsInv
<1>1. op.at = "RegisterCds"  BY DEF RegisterCds
<1>2. InCall(op.app, op.rec) /\ copying[op.app] = NotCopying  BY <1>1, CallFacts
<1>3. PICK r \in Records : r = op.rec  BY <1>2, InCallFacts
<1>4. PICK n \in Names : n = Registry[r].name  BY <1>2, <1>3, InCallFacts
<1>5. Registry[r].used  BY <1>2, <1>3, InCallFacts
<1>6. UNCHANGED <<app, todo, Handles, Link, pool, CritReg, SavedCritReg, copying, deleting>>
  BY DEF RegisterCds
<1>7. \/ NoStoreGot(n)
      \/ \E id \in 1..MaxStores, image \in Recovery : NewStoreGot(r, n, id, image)
      \/ ImageRecovered(r, n)
      \/ NothingRecovered(r, n)
  BY <1>0, <1>3, <1>4, RegisterCdsEnds
<1>8. Edited(Registry, Registry', r)
  <2>1. CASE NoStoreGot(n)  BY <2>1, <1>0 DEF NoStoreGot, Edited, TypeOK
  <2> QED BY <2>1, <1>7 DEF NewStoreGot, ImageRecovered, NothingRecovered
<1>9. KeepsRecords /\ Registry' \in [Records -> Rec]  BY <1>0, <1>5, <1>8, EditsKeep
<1>10. Cds' \in [Names -> Store] /\ may' \in [Names -> SUBSET Recovery]
  <2>1. CASE \E id \in 1..MaxStores, image \in Recovery : NewStoreGot(r, n, id, image)
    <3>1. PICK id \in 1..MaxStores, image \in Recovery : NewStoreGot(r, n, id, image)  BY <2>1
    <3>2. [id |-> id, image |-> image] \in Store  BY BoundAssumption DEF Store
    <3>3. Cds' \in [Names -> Store]  BY <3>1, <3>2, <1>0 DEF NewStoreGot, TypeOK
    <3>4. may' \in [Names -> SUBSET Recovery]  BY <3>1, <1>0 DEF NewStoreGot, TypeOK
    <3> QED BY <3>3, <3>4
  <2> QED BY <2>1, <1>0, <1>7 DEF NoStoreGot, ImageRecovered, NothingRecovered, TypeOK
<1>11. op' = Idle \/ op' = [op EXCEPT !.at = "SaveCrit"]
  BY <1>7 DEF NoStoreGot, NewStoreGot, ImageRecovered, NothingRecovered
<1>12. /\ op' \in Call /\ op'.at \in {"Idle", "SaveCrit"}
       /\ op' = Idle \/ (op'.at # "Idle" /\ op'.app = op.app /\ op'.rec = op.rec)
  BY <1>0, <1>11, FreeTypes DEF TypeOK, Call, Idle
<1>13. TypeOK'  BY <1>0, <1>6, <1>9, <1>10, <1>12 DEF TypeOK
<1>14. ActiveInv'
  <2>1. ASSUME NEW b \in Apps, copying[b].at \in {"CopyData", "SaveEntry"}
        PROVE  copying[b].buf # 0 /\ Registry'[copying[b].rec].active # 0
    <3>1. copying[b].rec \in Records  BY <2>1, CallFacts, InCallFacts
    <3>2. copying[b].buf # 0 /\ Registry[copying[b].rec].active # 0  BY <2>1 DEF BaseInv, RingsInv, ActiveInv
    <3>3. Registry'[r].active = Registry[r].active \/ Registry'[r].active # 0
      BY <1>7 DEF NoStoreGot, NewStoreGot, ImageRecovered, NothingRecovered
    <3> QED BY <3>1, <3>2, <3>3, <1>8 DEF Edited
  <2> QED BY <2>1, <1>6, <1>12 DEF ActiveInv
<1>15. \A a \in Apps : copying'[a] = NotCopying \/ (copying'[a].at # "No" /\ InCall(a, copying'[a].rec))
  BY <1>6, CopyingSame
<1>16. op' = Idle \/ (op'.at # "Idle" /\ InCall(op'.app, op'.rec) /\ copying'[op'.app] = NotCopying)
  BY <1>2, <1>6, <1>12
<1> QED BY <1>6, <1>9, <1>13, <1>14, <1>15, <1>16, StoreBase

LEMMA RegisterWithCriticalBase ==
  ASSUME BaseInv, RegisterWithCriticalTableRegistry
  PROVE  BaseInv'
<1>0. TypeOK  BY DEF BaseInv, RingsInv
<1>1. op.at = "SaveCrit"  BY DEF RegisterWithCriticalTableRegistry
<1>2. InCall(op.app, op.rec)  BY <1>1, CallFacts
<1>3. PICK r \in Records : r = op.rec  BY <1>2, InCallFacts
<1>4. Registry[r].used /\ Registry[r].name \in Names  BY <1>2, <1>3, InCallFacts
<1>5. /\ CritReg' = WithEntry(r)
      /\ SavedCritReg' = IF Info(CritReg, 0) = 0 THEN SavedCritReg ELSE CritReg'
      /\ Registry' = SetCritical(Registry, r)
      /\ may' = IF LoadedOnce(CritReg', Registry[r].cds) THEN [may EXCEPT ![Registry[r].name] = Recovery] ELSE may
      /\ op' = Idle
      /\ UNCHANGED <<app, todo, Handles, Link, pool, Cds, copying, deleting>>
  BY <1>3 DEF RegisterWithCriticalTableRegistry, SetCritical
<1>6. Edited(Registry, Registry', r) /\ Registry'[r].active = Registry[r].active
  <2>1. Registry \in [Records -> Rec]  BY <1>0 DEF TypeOK
  <2> QED BY <2>1, <1>5, EditCritical
<1>7. KeepsRecords /\ Registry' \in [Records -> Rec]  BY <1>0, <1>4, <1>6, EditsKeep
<1>8. CritReg' \in AllCrit /\ SavedCritReg' \in AllCrit
  BY <1>0, <1>5, WithEntryType DEF TypeOK, AllCrit
<1>9. may' \in [Names -> SUBSET Recovery]  BY <1>0, <1>4, <1>5 DEF TypeOK
<1>10. TypeOK'  BY <1>0, <1>5, <1>7, <1>8, <1>9, FreeTypes DEF TypeOK, AllCrit
<1>11. op'.at = "Idle" /\ copying' = copying  BY <1>5 DEF Idle
<1>12. ActiveInv'
  <2>1. \A s \in Records : Registry'[s].active = Registry[s].active  BY <1>6 DEF Edited
  <2> QED BY <2>1, <1>11, ActiveKept
<1>13. \A a \in Apps : copying'[a] = NotCopying \/ (copying'[a].at # "No" /\ InCall(a, copying'[a].rec))
  BY <1>11, CopyingSame
<1> QED BY <1>5, <1>7, <1>10, <1>12, <1>13, StoreBase

LEMMA UpdateCDSBase ==
  ASSUME BaseInv, UpdateCDS
  PROVE  BaseInv'
<1>0. TypeOK  BY DEF BaseInv, RingsInv
<1>1. /\ op.at = "CopyData" /\ CopyData(op.rec, Registry[op.rec].active)
      /\ op' = [op EXCEPT !.at = "SaveEntry"]
      /\ app' = app /\ todo' = todo /\ Registry' = Registry /\ Handles' = Handles /\ Link' = Link /\ pool' = pool
      /\ UNCHANGED <<CritReg, SavedCritReg, copying, deleting, may>>
  BY DEF UpdateCDS, handleVars
<1>2. InCall(op.app, op.rec) /\ copying[op.app] = NotCopying  BY <1>1, CallFacts
<1>3. PICK r \in Records : r = op.rec  BY <1>2, InCallFacts
<1>4. Registry[r].name \in Names  BY <1>2, <1>3, InCallFacts
<1>5. Registry[r].active # 0  BY <1>1, <1>3 DEF BaseInv, RingsInv, ActiveInv
<1>6. Registry[r].active \in 1..2  BY <1>0, <1>5, KeptType
<1>7. Cds' \in [Names -> Store]  BY <1>0, <1>1, <1>3, <1>4, <1>6, CopyDataFacts
<1>8. op' \in Call /\ op'.at = "SaveEntry" /\ op'.app = op.app /\ op'.rec = op.rec
  BY <1>0, <1>1 DEF TypeOK, Call
<1>9. TypeOK'  BY <1>0, <1>1, <1>7, <1>8 DEF TypeOK
<1>10. ActiveInv'  BY <1>1, <1>8 DEF BaseInv, RingsInv, ActiveInv
<1>11. \A a \in Apps : copying'[a] = NotCopying \/ (copying'[a].at # "No" /\ InCall(a, copying'[a].rec))
  BY <1>1, CopyingSame
<1>12. op'.at # "Idle" /\ InCall(op'.app, op'.rec) /\ copying'[op'.app] = NotCopying
  BY <1>1, <1>2, <1>8
<1>13. KeepsRecords  BY <1>1, SameRecords
<1> QED BY <1>1, <1>9, <1>10, <1>11, <1>12, <1>13, StoreBase

LEMMA UpdateCritRegBase ==
  ASSUME BaseInv, UpdateCritReg
  PROVE  BaseInv'
<1>0. TypeOK  BY DEF BaseInv, RingsInv
<1>1. /\ op.at = "SaveEntry" /\ SaveEntry(op.rec) /\ op' = Idle
      /\ Promise(Registry[op.rec].name, IF op.raced THEN Recovery ELSE Kept(op.rec))
      /\ app' = app /\ todo' = todo /\ Registry' = Registry /\ Handles' = Handles /\ Link' = Link /\ pool' = pool
      /\ UNCHANGED <<Cds, copying, deleting>>
  BY DEF UpdateCritReg, handleVars
<1>2. InCall(op.app, op.rec)  BY <1>1, CallFacts
<1>3. PICK r \in Records : r = op.rec  BY <1>2, InCallFacts
<1>4. PICK n \in Names : n = Registry[r].name  BY <1>2, <1>3, InCallFacts
<1>5. Registry[r].active # 0  BY <1>1, <1>3 DEF BaseInv, RingsInv, ActiveInv
<1>6. CritReg' \in AllCrit /\ SavedCritReg' \in AllCrit  BY <1>0, <1>1, <1>3, SaveEntryType
<1>7. may' \in [Names -> SUBSET Recovery]
  <2>1. Kept(r) \in SUBSET Recovery  BY <1>0, <1>5, KeptType
  <2>2. PICK images \in SUBSET Recovery : images = IF op.raced THEN Recovery ELSE Kept(r)  BY <2>1
  <2>3. Promise(n, images)  BY <2>2, <1>1, <1>3, <1>4
  <2> QED BY <2>3, <1>0, PromiseFacts
<1>8. TypeOK'  BY <1>0, <1>1, <1>6, <1>7, FreeTypes DEF TypeOK, AllCrit
<1>9. op'.at = "Idle"  BY <1>1 DEF Idle
<1>10. ActiveInv'  BY <1>1, <1>9, ActiveKept
<1>11. \A a \in Apps : copying'[a] = NotCopying \/ (copying'[a].at # "No" /\ InCall(a, copying'[a].rec))
  BY <1>1, CopyingSame
<1>12. KeepsRecords  BY <1>1, SameRecords
<1> QED BY <1>1, <1>8, <1>10, <1>11, <1>12, StoreBase

LEMMA DeleteCDSCmdBase ==
  ASSUME BaseInv, NEW n \in Names, DeleteCDSCmd(n)
  PROVE  BaseInv'
<1>0. TypeOK  BY DEF BaseInv, RingsInv
<1>1. /\ Cds' = [Cds EXCEPT ![n] = NoStore] /\ Promise(n, {None})
      /\ app' = app /\ todo' = todo /\ Registry' = Registry /\ Handles' = Handles /\ Link' = Link /\ pool' = pool
      /\ UNCHANGED <<CritReg, SavedCritReg, op, copying>>
  BY DEF DeleteCDSCmd, handleVars
<1>2. deleting' \in 1..MaxCritical
  <2> DEFINE entries == {e \in 1..MaxCritical : CritReg[e].name = n}
  <2>1. deleting' = Min(entries) /\ entries # {}  BY DEF DeleteCDSCmd
  <2>2. entries \subseteq Nat  BY BoundAssumption
  <2> DEFINE Less == {p \in Nat \X Nat : p[1] < p[2]}
  <2>3. IsWellFoundedOn(Less, Nat)
    <3>1. Less = OpToRel(<, Nat)  BY Zenon DEF OpToRel
    <3> QED BY <3>1, NatLessThanWellFounded, Zenon
  <2>4. PICK k \in entries : \A j \in entries : <<j, k>> \notin Less
    <3> HIDE DEF Less, entries
    <3> QED BY <2>1, <2>2, <2>3, WFMin, Zenon
  <2>5. \A i, j \in Nat : i < j => <<i, j>> \in Less  OBVIOUS
  <2>6. \A j \in entries : k <= j
    <3> HIDE DEF Less, entries
    <3> SUFFICES ASSUME NEW j \in entries PROVE k <= j  OBVIOUS
    <3>1. j \in Nat /\ k \in Nat  BY <2>2
    <3>2. ~(j < k)  BY <2>4, <2>5, <3>1, Zenon
    <3> QED BY <3>1, <3>2
  <2>7. Min(entries) \in entries
    <3> HIDE DEF entries, Less
    <3> QED BY <2>6 DEF Min
  <2> QED BY <2>1, <2>7
<1>3. Cds' \in [Names -> Store]  BY <1>0, <1>1, FreeTypes DEF TypeOK
<1>4. may' \in [Names -> SUBSET Recovery]
  <2>1. {None} \in SUBSET Recovery  BY DEF Recovery
  <2> QED BY <2>1, <1>0, <1>1, PromiseFacts
<1>5. TypeOK'  BY <1>0, <1>1, <1>2, <1>3, <1>4, BoundAssumption DEF TypeOK
<1>6. ActiveInv'  BY <1>1 DEF BaseInv, RingsInv, ActiveInv
<1>7. \A a \in Apps : copying'[a] = NotCopying \/ (copying'[a].at # "No" /\ InCall(a, copying'[a].rec))
  BY <1>1, CopyingSame
<1>8. op' = Idle \/ (op'.at # "Idle" /\ InCall(op'.app, op'.rec) /\ copying'[op'.app] = NotCopying)
  BY <1>1, OpSame
<1>9. KeepsRecords  BY <1>1, SameRecords
<1> QED BY <1>1, <1>5, <1>6, <1>7, <1>8, <1>9, StoreBase

LEMMA FreeEntryBase ==
  ASSUME BaseInv, FreeEntry
  PROVE  BaseInv'
<1>0. TypeOK  BY DEF BaseInv, RingsInv
<1>1. /\ deleting # 0 /\ CritReg' = [CritReg EXCEPT ![deleting].cds = 0] /\ deleting' = 0
      /\ may' = [n \in Names |-> IF Cds[n].id # 0 /\ Cds[n].id = CritReg[deleting].cds THEN Recovery ELSE may[n]]
      /\ app' = app /\ todo' = todo /\ Registry' = Registry /\ Handles' = Handles /\ Link' = Link /\ pool' = pool
      /\ UNCHANGED <<SavedCritReg, Cds, op, copying>>
  BY DEF FreeEntry, handleVars
<1>2. CritReg' \in [1..MaxCritical -> Crit]
  <2>1. deleting \in 1..MaxCritical /\ 0 \in 0..MaxStores  BY <1>0, <1>1, BoundAssumption DEF TypeOK
  <2> QED BY <2>1, <1>0, <1>1 DEF TypeOK, Crit
<1>3. may' \in [Names -> SUBSET Recovery]  BY <1>0, <1>1 DEF TypeOK
<1>4. TypeOK'  BY <1>0, <1>1, <1>2, <1>3, BoundAssumption DEF TypeOK
<1>5. ActiveInv'  BY <1>1 DEF BaseInv, RingsInv, ActiveInv
<1>6. \A a \in Apps : copying'[a] = NotCopying \/ (copying'[a].at # "No" /\ InCall(a, copying'[a].rec))
  BY <1>1, CopyingSame
<1>7. op' = Idle \/ (op'.at # "Idle" /\ InCall(op'.app, op'.rec) /\ copying'[op'.app] = NotCopying)
  BY <1>1, OpSame
<1>8. KeepsRecords  BY <1>1, SameRecords
<1> QED BY <1>1, <1>4, <1>5, <1>6, <1>7, <1>8, StoreBase

LEMMA LoadBase ==
  ASSUME BaseInv, NEW a \in Apps, Load(a)
  PROVE  BaseInv'
<1>0. TypeOK  BY DEF BaseInv, RingsInv
<1>1. PICK d \in Descriptors :
    /\ MayCall(a) /\ Unlocked
    /\ Handles[d].app = a /\ Registry[Handles[d].reg].owner = a
    /\ copying' = [copying EXCEPT ![a] = [NotCopying EXCEPT !.at = "Load", !.rec = Handles[d].reg]]
    /\ UNCHANGED <<app, todo, handleVars, storeVars, op, deleting, may>>
  BY DEF Load
<1>2. /\ Registry' = Registry /\ Handles' = Handles /\ Link' = Link /\ pool' = pool
      /\ CritReg' = CritReg /\ SavedCritReg' = SavedCritReg /\ Cds' = Cds
  BY <1>1 DEF handleVars, storeVars
<1>3. InCall(a, Handles[d].reg)  BY <1>1, HandleInCall DEF MayCall
<1> DEFINE new == [NotCopying EXCEPT !.at = "Load", !.rec = Handles[d].reg]
<1>4. new \in Copy /\ new.at = "Load" /\ new.rec = Handles[d].reg
  <2>1. Handles[d].reg \in Records  BY <1>3 DEF InCall
  <2> QED BY <2>1, FreeTypes DEF NotCopying, Copy
<1>5. copying' = [copying EXCEPT ![a] = new]  BY <1>1
<1> HIDE DEF new
<1>6. /\ copying' \in [Apps -> Copy] /\ copying'[a] = new
      /\ \A b \in Apps \ {a} : copying'[b] = copying[b]
  BY <1>0, <1>4, <1>5 DEF TypeOK
<1>7. TypeOK'  BY <1>0, <1>1, <1>2, <1>6 DEF TypeOK
<1>8. op' = Idle  BY <1>1 DEF Unlocked
<1>9. ActiveInv'  BY <1>2, <1>4, <1>6, <1>8 DEF BaseInv, RingsInv, ActiveInv, Idle
<1>10. \A b \in Apps : copying'[b] = NotCopying \/ (copying'[b].at # "No" /\ InCall(b, copying'[b].rec))
  <2>1. copying'[a].at # "No" /\ InCall(a, copying'[a].rec)  BY <1>3, <1>4, <1>6
  <2>2. \A b \in Apps : copying[b] = NotCopying \/ (copying[b].at # "No" /\ InCall(b, copying[b].rec))
    BY CallFacts DEF BaseInv, RingsInv, CallsInv
  <2> QED BY <2>1, <2>2, <1>6
<1>11. KeepsRecords  BY <1>2, SameRecords
<1> QED BY <1>1, <1>2, <1>7, <1>8, <1>9, <1>10, <1>11, StoreBase

LEMMA CopyUnlockedBase ==
  ASSUME BaseInv, NEW a \in Apps, CopyUnlocked(a)
  PROVE  BaseInv'
<1>0. TypeOK  BY DEF BaseInv, RingsInv
<1>1. /\ copying[a].at = "CopyData" /\ copying' = [copying EXCEPT ![a].at = "SaveEntry"]
      /\ UNCHANGED <<app, todo, handleVars, CritReg, SavedCritReg, op, deleting, may>>
  BY DEF CopyUnlocked
<1>2. /\ Registry' = Registry /\ Handles' = Handles /\ Link' = Link /\ pool' = pool
  BY <1>1 DEF handleVars
<1>3. InCall(a, copying[a].rec)  BY <1>1, CallFacts
<1>4. PICK r \in Records : r = copying[a].rec  BY <1>3, InCallFacts
<1>5. Registry[r].name \in Names  BY <1>3, <1>4, InCallFacts
<1>6. Registry[r].active # 0 /\ copying[a].buf # 0  BY <1>1, <1>4 DEF BaseInv, RingsInv, ActiveInv
<1>7. Registry[r].active \in 1..2 /\ copying[a].buf \in 1..2
  <2>1. copying[a] \in Copy  BY <1>0 DEF TypeOK
  <2> QED BY <2>1, <1>0, <1>6, KeptType DEF Copy
<1>8. PICK b \in 1..2 : CopyData(r, b)  BY <1>4, <1>7 DEF CopyUnlocked
<1>9. Cds' \in [Names -> Store]  BY <1>0, <1>5, <1>8, CopyDataFacts
<1>10. /\ copying' \in [Apps -> Copy] /\ \A b2 \in Apps \ {a} : copying'[b2] = copying[b2]
       /\ copying'[a].at = "SaveEntry" /\ copying'[a].rec = copying[a].rec /\ copying'[a].buf = copying[a].buf
  BY <1>0, <1>1 DEF TypeOK, Copy
<1>11. TypeOK'  BY <1>0, <1>1, <1>2, <1>9, <1>10 DEF TypeOK
<1>12. ActiveInv'  BY <1>1, <1>2, <1>4, <1>6, <1>10 DEF BaseInv, RingsInv, ActiveInv
<1>13. \A b2 \in Apps : copying'[b2] = NotCopying \/ (copying'[b2].at # "No" /\ InCall(b2, copying'[b2].rec))
  <2>1. \A b2 \in Apps : copying[b2] = NotCopying \/ (copying[b2].at # "No" /\ InCall(b2, copying[b2].rec))
    BY CallFacts DEF BaseInv, RingsInv, CallsInv
  <2> QED BY <2>1, <1>3, <1>10
<1>14. op' = Idle \/ (op'.at # "Idle" /\ InCall(op'.app, op'.rec) /\ copying'[op'.app] = NotCopying)
  <2>1. op.at # "Idle" => op.app # a /\ op.app \in Apps  BY <1>1, CallFacts DEF NotCopying, InCall
  <2>2. op.at # "Idle" => copying'[op.app] = copying[op.app]  BY <2>1, <1>10
  <2> QED BY <2>2, <1>1, OpSame
<1>15. KeepsRecords  BY <1>2, SameRecords
<1> QED BY <1>1, <1>2, <1>11, <1>12, <1>13, <1>14, <1>15, StoreBase

LEMMA SaveUnlockedBase ==
  ASSUME BaseInv, NEW a \in Apps, SaveUnlocked(a)
  PROVE  BaseInv'
<1>0. TypeOK  BY DEF BaseInv, RingsInv
<1>1. /\ copying[a].at = "SaveEntry" /\ SaveEntry(copying[a].rec)
      /\ copying' = [copying EXCEPT ![a] = NotCopying]
      /\ Promise(Registry[copying[a].rec].name, IF copying[a].raced THEN Recovery ELSE Kept(copying[a].rec))
      /\ UNCHANGED <<app, todo, handleVars, Cds, op, deleting>>
  BY DEF SaveUnlocked
<1>2. /\ Registry' = Registry /\ Handles' = Handles /\ Link' = Link /\ pool' = pool
  BY <1>1 DEF handleVars
<1>3. InCall(a, copying[a].rec)  BY <1>1, CallFacts
<1>4. PICK r \in Records : r = copying[a].rec  BY <1>3, InCallFacts
<1>5. PICK n \in Names : n = Registry[r].name  BY <1>3, <1>4, InCallFacts
<1>6. Registry[r].active # 0  BY <1>1, <1>4 DEF BaseInv, RingsInv, ActiveInv
<1>7. CritReg' \in AllCrit /\ SavedCritReg' \in AllCrit  BY <1>0, <1>1, <1>4, SaveEntryType
<1>8. may' \in [Names -> SUBSET Recovery]
  <2>1. Kept(r) \in SUBSET Recovery  BY <1>0, <1>6, KeptType
  <2>2. PICK images \in SUBSET Recovery : images = IF copying[a].raced THEN Recovery ELSE Kept(r)  BY <2>1
  <2>3. Promise(n, images)  BY <2>2, <1>1, <1>4, <1>5
  <2> QED BY <2>3, <1>0, PromiseFacts
<1>9. /\ copying' \in [Apps -> Copy] /\ copying'[a] = NotCopying
      /\ \A b \in Apps \ {a} : copying'[b] = copying[b]
  BY <1>0, <1>1, FreeTypes DEF TypeOK
<1>10. TypeOK'  BY <1>0, <1>1, <1>2, <1>7, <1>8, <1>9 DEF TypeOK, AllCrit
<1>11. ActiveInv'  BY <1>1, <1>2, <1>9 DEF BaseInv, RingsInv, ActiveInv, NotCopying
<1>12. \A b \in Apps : copying'[b] = NotCopying \/ (copying'[b].at # "No" /\ InCall(b, copying'[b].rec))
  <2>1. \A b \in Apps : copying[b] = NotCopying \/ (copying[b].at # "No" /\ InCall(b, copying[b].rec))
    BY CallFacts DEF BaseInv, RingsInv, CallsInv
  <2> QED BY <2>1, <1>9
<1>13. op' = Idle \/ (op'.at # "Idle" /\ InCall(op'.app, op'.rec) /\ copying'[op'.app] = NotCopying)
  <2>1. op.at # "Idle" => op.app # a /\ op.app \in Apps  BY <1>1, CallFacts DEF NotCopying, InCall
  <2>2. op.at # "Idle" => copying'[op.app] = copying[op.app]  BY <2>1, <1>9
  <2> QED BY <2>2, <1>1, OpSame
<1>14. KeepsRecords  BY <1>2, SameRecords
<1> QED BY <1>1, <1>2, <1>10, <1>11, <1>12, <1>13, <1>14, StoreBase

-----------------------------------------------------------------------------
(* Changes of a table                                                      *)

LEMMA CopiersFacts ==
  ASSUME BaseInv, NEW r \in Records, NEW m \in Copiers(r)
  PROVE  m \in Apps /\ copying[m].rec = r /\ copying[m].at \in {"CopyData", "SaveEntry"}
<1>1. m \in Apps /\ copying[m].rec = r /\ copying[m].at # "Load"  BY DEF Copiers
<1>2. copying[m].at # "No"
  <2>1. copying[m].at = "No" => copying[m] = NotCopying  BY <1>1 DEF BaseInv, RingsInv, CallsInv
  <2> QED BY <2>1, <1>1, NoneApart DEF NotCopying
<1>3. copying[m] \in Copy  BY <1>1 DEF BaseInv, RingsInv, TypeOK
<1> QED BY <1>1, <1>2, <1>3 DEF Copy

\* Calls c are those of now, and the copiers of record r have raced.
Races(r, c) ==
  \A m \in Apps : /\ c[m] \in Copy /\ c[m].at = copying[m].at /\ c[m].rec = copying[m].rec
                  /\ c[m].buf = copying[m].buf
                  /\ m \in Copiers(r) => c[m].raced
                  /\ m \notin Copiers(r) => c[m] = copying[m]

Raced(m) == [copying[m] EXCEPT !.raced = TRUE]

LEMMA RacesFacts ==
  ASSUME BaseInv, NEW r \in Records
  PROVE  Races(r, [m \in Apps |-> IF m \in Copiers(r) THEN Raced(m) ELSE copying[m]])
<1> SUFFICES ASSUME NEW m \in Apps
             PROVE  LET c == IF m \in Copiers(r) THEN Raced(m) ELSE copying[m]
                    IN  /\ c \in Copy /\ c.at = copying[m].at /\ c.rec = copying[m].rec
                        /\ c.buf = copying[m].buf
                        /\ m \in Copiers(r) => c.raced
                        /\ m \notin Copiers(r) => c = copying[m]
  BY DEF Races
<1>1. copying[m] \in Copy  BY DEF BaseInv, RingsInv, TypeOK
<1>2. /\ Raced(m) \in Copy /\ Raced(m).at = copying[m].at /\ Raced(m).rec = copying[m].rec
      /\ Raced(m).buf = copying[m].buf /\ Raced(m).raced
  BY <1>1 DEF Raced, Copy
<1> QED BY <1>1, <1>2

\* A call of app a that is to copy buffer b of record r.
CopyOf(r, b) == [at |-> "CopyData", rec |-> r, buf |-> b, raced |-> Copiers(r) # {}]

LEMMA CopiesNextFacts ==
  ASSUME BaseInv, NEW a \in Apps, NEW r \in Records, NEW b \in 1..2, NEW v \in Images,
         Registry[r].name \in Names, CopiesNext(a, r, b, v)
  PROVE  /\ copying' \in [Apps -> Copy] /\ copying'[a] = CopyOf(r, b)
         /\ \A m \in Apps \ {a} :
              /\ copying'[m].at = copying[m].at /\ copying'[m].rec = copying[m].rec /\ copying'[m].buf = copying[m].buf
              /\ m \in Copiers(r) => copying'[m].raced
              /\ m \notin Copiers(r) => copying'[m] = copying[m]
         /\ may' \in [Names -> SUBSET Recovery]
         /\ may'[Registry[r].name] = may[Registry[r].name] \cup {v, None}
         /\ \A n \in Names \ {Registry[r].name} : may'[n] = may[n]
<1> DEFINE c == [m \in Apps |-> IF m \in Copiers(r) THEN Raced(m) ELSE copying[m]]
<1>1. Races(r, c)  BY RacesFacts
<1>2. copying' = [m \in Apps |-> IF m = a THEN CopyOf(r, b) ELSE c[m]]
  BY DEF CopiesNext, CopyOf, Raced
<1> HIDE DEF c
<1>3. CopyOf(r, b) \in Copy  BY DEF CopyOf, Copy
<1>4. copying' \in [Apps -> Copy]  BY <1>1, <1>2, <1>3 DEF Races
<1>5. copying'[a] = CopyOf(r, b) /\ \A m \in Apps \ {a} : copying'[m] = c[m]  BY <1>2
<1>6. PICK images \in SUBSET Recovery : images = may[Registry[r].name] \cup {v, None}
  BY DEF BaseInv, RingsInv, TypeOK, Recovery
<1>7. Promise(Registry[r].name, images)  BY <1>6 DEF CopiesNext
<1>8. /\ may' \in [Names -> SUBSET Recovery] /\ may'[Registry[r].name] = images
      /\ \A n \in Names \ {Registry[r].name} : may'[n] = may[n]
  BY <1>7, PromiseFacts DEF BaseInv, RingsInv
<1> QED BY <1>1, <1>4, <1>5, <1>6, <1>8 DEF Races

\* The call of app a that copies the active image of record r with the mutex.
CallOf(a, r) == [at |-> "CopyData", app |-> a, rec |-> r, raced |-> Copiers(r) # {}]

LEMMA CallOfType ==
  ASSUME NEW a \in Apps, NEW r \in Records
  PROVE  CallOf(a, r) \in Call /\ CallOf(a, r).at = "CopyData" /\ CallOf(a, r).app = a /\ CallOf(a, r).rec = r
BY DEF CallOf, Call

LEMMA UpdateBase ==
  ASSUME BaseInv, NEW a \in Apps, NEW v \in Images, Update(a, v)
  PROVE  BaseInv'
<1>0. TypeOK  BY DEF BaseInv, RingsInv
<1>1. PICK d, r : /\ d \in Descriptors /\ r = Handles[d].reg /\ MayCall(a) /\ Unlocked
                  /\ Handles[d].app = a /\ Activates(r, NextBuffer(r), v)
                  /\ IF Registry[r].critical
                     THEN /\ op' = [at |-> "CopyData", app |-> a, rec |-> r, raced |-> Copiers(r) # {}]
                          /\ copying' = [m \in Apps |-> IF m \in Copiers(r)
                                                        THEN [copying[m] EXCEPT !.raced = TRUE]
                                                        ELSE copying[m]]
                          /\ Promise(Registry[r].name, may[Registry[r].name] \cup {v, None})
                     ELSE UNCHANGED <<op, may, copying>>
                  /\ UNCHANGED <<app, todo, Handles, Link, pool, storeVars, deleting>>
  BY DEF Update
<1>2. InCall(a, r) /\ copying[a] = NotCopying  BY <1>1, HandleInCall DEF MayCall
<1>3. r \in Records /\ Registry[r].used /\ Registry[r].name \in Names  BY <1>2, InCallFacts
<1>4. NextBuffer(r) \in 1..2 /\ v \in Recovery  BY NextBufferType DEF Recovery
<1>5. Edited(Registry, Registry', r) /\ Registry'[r].active # 0
  BY <1>0, <1>1, <1>3, <1>4, ActivatesFacts
<1>6. KeepsRecords /\ Registry' \in [Records -> Rec]  BY <1>0, <1>3, <1>5, EditsKeep
<1>7. /\ (copying' \in [Apps -> Copy] /\ Races(r, copying')) \/ copying' = copying
      /\ may' \in [Names -> SUBSET Recovery]
      /\ op' \in Call
      /\ op' = Idle \/ (op'.at = "CopyData" /\ op'.app = a /\ op'.rec = r)
  <2>1. CASE Registry[r].critical
    <3>1. Races(r, [m \in Apps |-> IF m \in Copiers(r) THEN Raced(m) ELSE copying[m]])
      BY <1>3, RacesFacts
    <3>2. copying' = [m \in Apps |-> IF m \in Copiers(r) THEN Raced(m) ELSE copying[m]]
      BY <1>1, <2>1 DEF Raced
    <3>3. copying' \in [Apps -> Copy] /\ Races(r, copying')  BY <3>1, <3>2 DEF Races
    <3>4. PICK images \in SUBSET Recovery : images = may[Registry[r].name] \cup {v, None}
      BY <1>0, <1>3 DEF TypeOK, Recovery
    <3>5. Promise(Registry[r].name, images)  BY <1>1, <2>1, <3>4
    <3>6. may' \in [Names -> SUBSET Recovery]  BY <1>0, <1>3, <3>5, PromiseFacts
    <3>7. op' \in Call /\ op'.at = "CopyData" /\ op'.app = a /\ op'.rec = r
      <4>1. op' = CallOf(a, r)  BY <1>1, <2>1 DEF CallOf
      <4> QED BY <4>1, <1>3, CallOfType
    <3> QED BY <3>3, <3>6, <3>7
  <2>2. CASE ~Registry[r].critical
    BY <2>2, <1>0, <1>1 DEF TypeOK, Unlocked
  <2> QED BY <2>1, <2>2
<1>8. a \notin Copiers(r)  BY <1>2, <1>3, NoneApart DEF Copiers, NotCopying
<1>9. copying'[a] = NotCopying  BY <1>2, <1>7, <1>8 DEF Races
<1>10. \A m \in Apps : /\ copying'[m].at = copying[m].at /\ copying'[m].rec = copying[m].rec
                       /\ copying'[m].buf = copying[m].buf
                       /\ copying[m] = NotCopying => copying'[m] = NotCopying
  BY <1>3, <1>7, NoneApart DEF Races, Copiers, NotCopying
<1>11. TypeOK'  BY <1>0, <1>1, <1>6, <1>7 DEF TypeOK, storeVars
<1>12. ActiveInv'
  <2>1. op'.at \in {"CopyData", "SaveEntry"} => Registry'[op'.rec].active # 0
    BY <1>5, <1>7 DEF Idle
  <2>2. ASSUME NEW m \in Apps, copying'[m].at \in {"CopyData", "SaveEntry"}
        PROVE  copying'[m].buf # 0 /\ Registry'[copying'[m].rec].active # 0
    <3>1. copying[m].buf # 0 /\ Registry[copying[m].rec].active # 0 /\ copying[m].rec \in Records
      BY <2>2, <1>10, CallFacts, InCallFacts DEF BaseInv, RingsInv, ActiveInv
    <3>2. Registry'[copying[m].rec].active # 0  BY <3>1, <1>5 DEF Edited
    <3> QED BY <3>1, <3>2, <1>10
  <2> QED BY <2>1, <2>2 DEF ActiveInv
<1>13. \A m \in Apps : copying'[m] = NotCopying \/ (copying'[m].at # "No" /\ InCall(m, copying'[m].rec))
  <2>1. \A m \in Apps : copying[m] = NotCopying \/ (copying[m].at # "No" /\ InCall(m, copying[m].rec))
    BY CallFacts DEF BaseInv, RingsInv, CallsInv
  <2> QED BY <2>1, <1>10
<1>14. op' = Idle \/ (op'.at # "Idle" /\ InCall(op'.app, op'.rec) /\ copying'[op'.app] = NotCopying)
  BY <1>2, <1>7, <1>9
<1> QED BY <1>1, <1>6, <1>11, <1>12, <1>13, <1>14, StoreBase

(* A change that is copied without the mutex, or need not be copied.       *)
LEMMA ChangeBase ==
  ASSUME BaseInv, NEW a \in Apps, NEW r \in Records, NEW b \in 1..2, NEW v \in Images,
         InCall(a, r), op.at # "Idle" => op.app # a, Activates(r, b, v),
         CopiesNext(a, r, b, v)
           \/ (may' = may /\ (copying' = copying \/ copying' = [copying EXCEPT ![a] = NotCopying])),
         UNCHANGED <<app, todo, Handles, Link, pool, storeVars, op, deleting>>
  PROVE  BaseInv'
<1>0. TypeOK  BY DEF BaseInv, RingsInv
<1>1. Registry[r].used /\ Registry[r].name \in Names /\ v \in Recovery  BY InCallFacts DEF Recovery
<1>2. Edited(Registry, Registry', r) /\ Registry'[r].active # 0  BY <1>0, <1>1, ActivatesFacts
<1>3. KeepsRecords /\ Registry' \in [Records -> Rec]  BY <1>0, <1>1, <1>2, EditsKeep
<1>4. /\ copying' \in [Apps -> Copy] /\ may' \in [Names -> SUBSET Recovery]
      /\ copying'[a] = copying[a] \/ copying'[a] = NotCopying \/ copying'[a] = CopyOf(r, b)
      /\ \A m \in Apps \ {a} :
           /\ copying'[m].at = copying[m].at /\ copying'[m].rec = copying[m].rec /\ copying'[m].buf = copying[m].buf
           /\ m \notin Copiers(r) => copying'[m] = copying[m]
  <2>1. CASE CopiesNext(a, r, b, v)  BY <2>1, <1>1, CopiesNextFacts
  <2>2. CASE may' = may /\ copying' = copying  BY <2>2, <1>0 DEF TypeOK
  <2>3. CASE may' = may /\ copying' = [copying EXCEPT ![a] = NotCopying]
    BY <2>3, <1>0, FreeTypes DEF TypeOK
  <2> QED BY <2>1, <2>2, <2>3
<1>5. CopyOf(r, b).at = "CopyData" /\ CopyOf(r, b).rec = r /\ CopyOf(r, b).buf = b  BY DEF CopyOf
<1>6. \A m \in Apps : copying[m] = NotCopying \/ (copying[m].at # "No" /\ InCall(m, copying[m].rec))
  BY CallFacts DEF BaseInv, RingsInv, CallsInv
<1>7. \A m \in Apps \ {a} : copying[m] = NotCopying => copying'[m] = NotCopying
  BY <1>4, NoneApart DEF Copiers, NotCopying
<1>8. \A m \in Apps : copying'[m] = NotCopying \/ (copying'[m].at # "No" /\ InCall(m, copying'[m].rec))
  BY <1>4, <1>5, <1>6, <1>7
<1>9. op' = Idle \/ (op'.at # "Idle" /\ InCall(op'.app, op'.rec) /\ copying'[op'.app] = NotCopying)
  <2>1. op.at # "Idle" => op.app \in Apps \ {a} /\ copying[op.app] = NotCopying /\ InCall(op.app, op.rec)
    BY CallFacts DEF InCall
  <2>2. op.at = "Idle" => op = Idle  BY DEF BaseInv, RingsInv, CallsInv
  <2> QED BY <2>1, <2>2, <1>7
<1>10. TypeOK'  BY <1>0, <1>3, <1>4 DEF TypeOK, storeVars
<1>11. ActiveInv'
  <2>1. op'.at \in {"CopyData", "SaveEntry"} => Registry'[op'.rec].active # 0
    <3>1. op.at \in {"CopyData", "SaveEntry"} => Registry[op.rec].active # 0 /\ op.rec \in Records
      BY CallFacts, InCallFacts DEF BaseInv, RingsInv, ActiveInv
    <3> QED BY <3>1, <1>2 DEF Edited
  <2>2. ASSUME NEW m \in Apps, copying'[m].at \in {"CopyData", "SaveEntry"}
        PROVE  copying'[m].buf # 0 /\ Registry'[copying'[m].rec].active # 0
    <3>1. CASE copying'[m] = CopyOf(r, b)  BY <3>1, <1>2, <1>5
    <3>2. CASE copying'[m].at = copying[m].at /\ copying'[m].rec = copying[m].rec /\ copying'[m].buf = copying[m].buf
      <4>1. copying[m].buf # 0 /\ Registry[copying[m].rec].active # 0 /\ copying[m].rec \in Records
        BY <2>2, <3>2, CallFacts, InCallFacts DEF BaseInv, RingsInv, ActiveInv
      <4>2. Registry'[copying[m].rec].active # 0  BY <4>1, <1>2 DEF Edited
      <4> QED BY <4>1, <4>2, <3>2
    <3>3. CASE copying'[m] = NotCopying  BY <3>3, <2>2 DEF NotCopying
    <3> QED BY <3>1, <3>2, <3>3, <1>4
  <2> QED BY <2>1, <2>2 DEF ActiveInv
<1> QED BY <1>3, <1>8, <1>9, <1>10, <1>11, StoreBase

LEMMA LoadFinishBase ==
  ASSUME BaseInv, NEW a \in Apps, NEW v \in Images, LoadFinish(a, v)
  PROVE  BaseInv'
<1>1. PICK r : r = copying[a].rec  OBVIOUS
<1>2. /\ copying[a].at = "Load"
      /\ Activates(r, NextBuffer(r), v)
      /\ IF Registry[r].critical THEN CopiesNext(a, r, NextBuffer(r), v)
         ELSE copying' = [copying EXCEPT ![a] = NotCopying] /\ UNCHANGED may
      /\ UNCHANGED <<app, todo, Handles, Link, pool, storeVars, op, deleting>>
  BY <1>1 DEF LoadFinish
<1>3. InCall(a, r) /\ r \in Records  BY <1>1, <1>2, CallFacts DEF InCall
<1>4. op.at # "Idle" => op.app # a  BY <1>2, CallFacts DEF NotCopying
<1>5. NextBuffer(r) \in 1..2  BY NextBufferType
<1>6. CopiesNext(a, r, NextBuffer(r), v)
        \/ (may' = may /\ (copying' = copying \/ copying' = [copying EXCEPT ![a] = NotCopying]))
  BY <1>2
<1> QED BY <1>2, <1>3, <1>4, <1>5, <1>6, ChangeBase

LEMMA ModifiedBase ==
  ASSUME BaseInv, NEW a \in Apps, NEW v \in Images, Modified(a, v)
  PROVE  BaseInv'
<1>1. PICK d, r, b :
        /\ d \in Descriptors /\ r = Handles[d].reg /\ b = Registry[r].active
        /\ MayCall(a) /\ Unlocked
        /\ Handles[d].app = a /\ b # 0
        /\ Activates(r, b, v)
        /\ IF Registry[r].critical THEN CopiesNext(a, r, b, v) ELSE UNCHANGED <<copying, may>>
        /\ UNCHANGED <<app, todo, Handles, Link, pool, storeVars, op, deleting>>
  BY DEF Modified
<1>2. InCall(a, r) /\ r \in Records  BY <1>1, HandleInCall DEF MayCall, InCall
<1>3. op.at # "Idle" => op.app # a  BY <1>1 DEF MayCall
<1>4. b \in 1..2  BY <1>1, <1>2 DEF BaseInv, RingsInv, TypeOK, Rec
<1>5. CopiesNext(a, r, b, v)
        \/ (may' = may /\ (copying' = copying \/ copying' = [copying EXCEPT ![a] = NotCopying]))
  BY <1>1
<1> QED BY <1>1, <1>2, <1>3, <1>4, <1>5, ChangeBase

-----------------------------------------------------------------------------
(* Start and reset                                                         *)

LEMMA InitBase ==
  ASSUME Init
  PROVE  BaseInv
<1>1. TypeOK
  <2>1. /\ PoolBlocks \in Nat /\ 0 \in 0..MaxCritical /\ {None} \in SUBSET Recovery
    BY BoundAssumption DEF Recovery
  <2> QED BY <2>1, FreeTypes DEF Init, TypeOK
<1>2. \A r \in Records : Registry[r] = FreeRec /\ Link[r] = NoLink /\ HandlesOn(r) = {}
  BY DEF Init, HandlesOn, FreeDesc
<1>3. EntriesInv
  BY <1>2 DEF Init, EntriesInv, FreeRec, FreeDesc
<1>4. CallsInv  BY NoneApart DEF Init, CallsInv, Idle, NotCopying
<1>5. ActiveInv  BY DEF Init, ActiveInv, Idle, NotCopying
<1>6. ListsSound /\ BackInv  BY <1>2 DEF ListsSound, BackInv, FreeRec
<1>7. BlocksWhole
  <2>1. \A x \in Records \X (1..2) : x[1] \in Records /\ x[2] \in 1..2  OBVIOUS
  <2>2. \A x \in Records \X (1..2) : Registry[x[1]].blocks = 0  BY <1>2 DEF FreeRec
  <2>3. \A x \in Records \X (1..2) : ~(x[2] <= Registry[x[1]].blocks)  BY <2>1, <2>2
  <2>4. Taken = {}  BY <2>3 DEF Taken
  <2>5. Cardinality(Taken) = 0  BY <2>4, FS_EmptySet
  <2> QED BY <2>5, BoundAssumption DEF BlocksWhole, Init
<1> QED BY <1>1, <1>3, <1>4, <1>5, <1>6, <1>7 DEF BaseInv, RingsInv

\* Registry R with one field of entry e as in registry N.
HalfCds(R, N, e)  == [R EXCEPT ![e].cds = N[e].cds]
HalfName(R, N, e) == [R EXCEPT ![e].name = N[e].name]

LEMMA HalfEntryType ==
  ASSUME NEW R \in AllCrit, NEW N \in AllCrit, NEW e \in 1..MaxCritical
  PROVE  HalfCds(R, N, e) \in AllCrit /\ HalfName(R, N, e) \in AllCrit
<1>1. N[e].cds \in 0..MaxStores /\ N[e].name \in Names \cup {None}  BY DEF AllCrit, Crit
<1>2. HalfCds(R, N, e) \in AllCrit
  <2> DEFINE c == N[e].cds
  <2>1. c \in 0..MaxStores  BY <1>1
  <2> HIDE DEF c
  <2>2. [R EXCEPT ![e].cds = c] \in AllCrit  BY <2>1 DEF AllCrit, Crit
  <2> QED BY <2>2 DEF c, HalfCds
<1>3. HalfName(R, N, e) \in AllCrit
  <2> DEFINE c == N[e].name
  <2>1. c \in Names \cup {None}  BY <1>1
  <2> HIDE DEF c
  <2>2. [R EXCEPT ![e].name = c] \in AllCrit  BY <2>1 DEF AllCrit, Crit
  <2> QED BY <2>2 DEF c, HalfName
<1> QED BY <1>2, <1>3

\* What a reset leaves in the store of the critical registry.
SavedAtReset ==
  \/ SavedCritReg' = SavedCritReg
  \/ /\ op.at = "SaveCrit"
     /\ \E e \in 1..MaxCritical : \/ SavedCritReg' = HalfCds(CritReg, WithEntry(op.rec), e)
                                  \/ SavedCritReg' = HalfName(CritReg, WithEntry(op.rec), e)

LEMMA ResetType ==
  ASSUME BaseInv, Reset
  PROVE  TypeOK'
<1>0. TypeOK  BY DEF BaseInv, RingsInv
<1>1. /\ CritReg' = SavedCritReg'
      /\ app' = [a \in Apps |-> "out"]
      /\ todo' = [a \in Apps |-> {}]
      /\ Registry' = [r \in Records |-> FreeRec]
      /\ Handles' = [d \in Descriptors |-> FreeDesc]
      /\ Link' = [x \in Records \cup Descriptors |-> NoLink]
      /\ pool' = PoolBlocks
      /\ op' = Idle
      /\ copying' = [a \in Apps |-> NotCopying]
      /\ deleting' = 0
      /\ SavedAtReset
  BY DEF Reset, SavedAtReset, HalfCds, HalfName
<1>2. Cds' \in [Names -> Store]
  <2>1. PICK lost : Cds' = [n \in Names |-> IF n \in lost THEN [Cds[n] EXCEPT !.image = None] ELSE Cds[n]]
    BY DEF Reset
  <2>2. ASSUME NEW n \in Names
        PROVE  [Cds[n] EXCEPT !.image = None] \in Store /\ Cds[n] \in Store
    BY <1>0 DEF TypeOK, Store, Recovery
  <2> QED BY <2>1, <2>2
<1>3. SavedCritReg' \in AllCrit
  <2>1. CASE SavedCritReg' = SavedCritReg  BY <2>1, <1>0 DEF TypeOK, AllCrit
  <2>2. CASE op.at = "SaveCrit" /\ SavedCritReg' # SavedCritReg
    <3>1. op.rec \in Records  BY <2>2, CallFacts DEF InCall
    <3>2. PICK N \in AllCrit : N = WithEntry(op.rec)  BY <3>1, <1>0, WithEntryType
    <3>3. CritReg \in AllCrit  BY <1>0 DEF TypeOK, AllCrit
    <3>4. PICK e \in 1..MaxCritical : \/ SavedCritReg' = HalfCds(CritReg, N, e)
                                      \/ SavedCritReg' = HalfName(CritReg, N, e)
      BY <1>1, <2>2, <3>2 DEF SavedAtReset
    <3> QED BY <3>2, <3>3, <3>4, HalfEntryType
  <2> QED BY <2>1, <2>2, <1>1 DEF SavedAtReset
<1>4. may' \in [Names -> SUBSET Recovery]
  <2>1. CASE op.at = "SaveCrit" /\ Promise(Registry[op.rec].name, Recovery)
    <3>1. Registry[op.rec].name \in Names  BY <2>1, CallFacts, InCallFacts
    <3>2. PICK n \in Names, images \in SUBSET Recovery : n = Registry[op.rec].name /\ images = Recovery  BY <3>1
    <3>3. Promise(n, images)  BY <2>1, <3>2
    <3> QED BY <1>0, <3>3, PromiseFacts
  <2>2. CASE may' = may  BY <2>2, <1>0 DEF TypeOK
  <2> QED BY <2>1, <2>2 DEF Reset
<1>5. PoolBlocks \in Nat /\ 0 \in 0..MaxCritical  BY BoundAssumption
<1> QED BY <1>1, <1>2, <1>3, <1>4, <1>5, FreeTypes DEF TypeOK, AllCrit

LEMMA ResetBase ==
  ASSUME BaseInv, Reset
  PROVE  BaseInv'
<1>1. /\ app' = [a \in Apps |-> "out"]
      /\ todo' = [a \in Apps |-> {}]
      /\ Registry' = [r \in Records |-> FreeRec]
      /\ Handles' = [d \in Descriptors |-> FreeDesc]
      /\ Link' = [x \in Records \cup Descriptors |-> NoLink]
      /\ pool' = PoolBlocks
      /\ op' = Idle
      /\ copying' = [a \in Apps |-> NotCopying]
  BY DEF Reset
<1>2. \A r \in Records : Registry'[r] = FreeRec /\ Link'[r] = NoLink /\ HandlesOn(r)' = {}
  BY <1>1 DEF HandlesOn, FreeDesc
<1>3. EntriesInv'  BY <1>1, <1>2 DEF EntriesInv, FreeRec, FreeDesc
<1>4. CallsInv'  BY <1>1, NoneApart DEF CallsInv, Idle, NotCopying, FreeDesc
<1>5. ActiveInv'  BY <1>1 DEF ActiveInv, Idle, NotCopying
<1>6. ListsSound' /\ BackInv'  BY <1>2 DEF ListsSound, BackInv, FreeRec
<1>7. BlocksWhole'
  <2>1. \A x \in Records \X (1..2) : x[1] \in Records /\ x[2] \in 1..2  OBVIOUS
  <2>2. \A x \in Records \X (1..2) : Registry'[x[1]].blocks = 0  BY <1>2 DEF FreeRec
  <2>3. \A x \in Records \X (1..2) : ~(x[2] <= Registry'[x[1]].blocks)  BY <2>1, <2>2
  <2>4. Taken' = {}  BY <2>3 DEF Taken
  <2>5. Cardinality(Taken') = 0  BY <2>4, FS_EmptySet
  <2> QED BY <2>5, <1>1, BoundAssumption DEF BlocksWhole
<1> QED BY <1>3, <1>4, <1>5, <1>6, <1>7, ResetType DEF BaseInv, RingsInv

-----------------------------------------------------------------------------
(* Every step keeps entries, rings, calls and blocks                       *)

LEMMA BaseStep == BaseInv /\ [Next]_vars => BaseInv'
<1> SUFFICES ASSUME BaseInv, [Next]_vars PROVE BaseInv'  OBVIOUS
<1>1. CASE RegisterCds  BY <1>1, RegisterCdsBase
<1>2. CASE RegisterWithCriticalTableRegistry  BY <1>2, RegisterWithCriticalBase
<1>3. CASE UpdateCDS  BY <1>3, UpdateCDSBase
<1>4. CASE UpdateCritReg  BY <1>4, UpdateCritRegBase
<1>5. CASE FreeEntry  BY <1>5, FreeEntryBase
<1>6. CASE Reset  BY <1>6, ResetBase
<1>7. CASE \E n \in Names : DeleteCDSCmd(n)  BY <1>7, DeleteCDSCmdBase
<1>8. ASSUME NEW a \in Apps,
             StartApp(a) \/ StopApp(a) \/ CleanUpApp(a) \/ CleanUpDone(a) \/ Unregister(a) \/ Load(a)
               \/ CopyUnlocked(a) \/ SaveUnlocked(a)
      PROVE  BaseInv'
  BY <1>8, StartAppBase, StopAppBase, CleanUpAppBase, CleanUpDoneBase, UnregisterBase, LoadBase,
     CopyUnlockedBase, SaveUnlockedBase
<1>9. ASSUME NEW a \in Apps, NEW n \in Names, Share(a, n) PROVE BaseInv'
  BY <1>9, ShareBase
<1>10. ASSUME NEW a \in Apps, NEW n \in Names, NEW kind \in Kinds[n],
              Register(a, n, kind) \/ RegisterFails(a, n, kind)
       PROVE  BaseInv'
  BY <1>10, RegisterBase, RegisterFailsBase
<1>11. ASSUME NEW a \in Apps, NEW v \in Images, Update(a, v) \/ LoadFinish(a, v) \/ Modified(a, v)
       PROVE  BaseInv'
  BY <1>11, UpdateBase, LoadFinishBase, ModifiedBase
<1>12. CASE UNCHANGED vars
  <2>1. UNCHANGED <<app, todo, Registry, Handles, Link, pool, CritReg, SavedCritReg, Cds, op, copying, deleting, may>>
    BY <1>12 DEF vars, handleVars, storeVars
  <2>2. TypeOK' /\ KeepsRecords  BY <2>1 DEF BaseInv, RingsInv, TypeOK, KeepsRecords, KeepsRecord
  <2>3. ActiveInv'  BY <2>1 DEF BaseInv, RingsInv, ActiveInv
  <2> QED BY <2>1, <2>2, <2>3, OpSame, CopyingSame, StoreBase
<1> QED BY <1>1, <1>2, <1>3, <1>4, <1>5, <1>6, <1>7, <1>8, <1>9, <1>10, <1>11, <1>12 DEF Next

LEMMA BaseAlways == Spec => []BaseInv
<1>1. Init => BaseInv  BY InitBase
<1>2. BaseInv /\ [Next]_vars => BaseInv'  BY BaseStep
<1> QED BY <1>1, <1>2, PTL DEF Spec

(* The list of each record is one ring through all handles on it, in both  *)
(* directions, whatever the order in which handles come and go             *)
(* (CFE_TBL_HandleListInsertLink, CFE_TBL_HandleListRemoveLink).           *)
THEOREM ListsHold == Spec => []ListsSound
<1>1. BaseInv => ListsSound  BY DEF BaseInv, RingsInv
<1> QED BY <1>1, BaseAlways, PTL

(* Registry, handles and buffers agree at every step of any clean up, and  *)
(* no block is lost (CFE_TBL_TxnReleaseAccDesc, CFE_TBL_CleanUpApp).       *)
THEOREM RegistryWhole == Spec => []NothingLost
<1>1. BaseInv => NothingLost
  <2> SUFFICES ASSUME BaseInv PROVE NothingLost  OBVIOUS
  <2>1. ASSUME NEW r \in Records, Registry[r].used, Registry[r].name # None
        PROVE  /\ HandlesOn(r) # {}
               /\ Registry[r].owner # None => /\ app[Registry[r].owner] # "out"
                                              /\ \E d \in HandlesOn(r) : Handles[d].app = Registry[r].owner
    <3>1. HandlesOn(r) # {}  BY <2>1 DEF BaseInv, RingsInv, EntriesInv
    <3>2. ASSUME Registry[r].owner # None
          PROVE  /\ app[Registry[r].owner] # "out"
                 /\ \E d \in HandlesOn(r) : Handles[d].app = Registry[r].owner
      <4>1. PICK d \in Descriptors : Handles[d].app = Registry[r].owner /\ Handles[d].reg = r
        BY <2>1, <3>2 DEF BaseInv, RingsInv, EntriesInv, Holds
      <4>2. d \in HandlesOn(r)  BY <3>2, <4>1, HandleFacts DEF BaseInv, RingsInv
      <4> QED BY <3>2, <4>1, <4>2, HandlesIn
    <3> QED BY <3>1, <3>2
  <2>2. ASSUME NEW d \in Descriptors, Handles[d].app # None
        PROVE  app[Handles[d].app] # "out" /\ Registry[Handles[d].reg].used
    BY <2>2, HandlesIn, HandleFacts DEF BaseInv, RingsInv
  <2>3. pool + Cardinality(Taken) = PoolBlocks  BY DEF BaseInv, BlocksWhole
  <2> QED BY <2>1, <2>2, <2>3 DEF NothingLost
<1> QED BY <1>1, BaseAlways, PTL

-----------------------------------------------------------------------------
(* Critical tables: what the invariants speak of                           *)

(* Whether an image is to be recovered depends on the entry of the store alone. *)
LEMMA LoadedSame ==
  ASSUME NEW R \in AllCrit, NEW S \in AllCrit, NEW id,
         \A e \in 1..MaxCritical : /\ R[e].cds = id <=> S[e].cds = id
                                   /\ R[e].cds = id => R[e].loaded = S[e].loaded
  PROVE  LoadedOnce(R, id) <=> LoadedOnce(S, id)
<1>1. {e \in 1..MaxCritical : R[e].cds = id} = {e \in 1..MaxCritical : S[e].cds = id}
  OBVIOUS
<1>2. Info(R, id) = Info(S, id)  BY <1>1 DEF Info
<1>3. Info(R, id) # 0 => R[Info(R, id)].loaded = S[Info(R, id)].loaded
  BY InfoFacts
<1> QED BY <1>2, <1>3 DEF LoadedOnce

LEMMA CritTypes ==
  ASSUME BaseInv
  PROVE  CritReg \in AllCrit /\ SavedCritReg \in AllCrit
BY DEF BaseInv, RingsInv, TypeOK, AllCrit

LEMMA CritTypesNext ==
  ASSUME BaseInv, [Next]_vars
  PROVE  CritReg' \in AllCrit /\ SavedCritReg' \in AllCrit
BY BaseStep DEF BaseInv, RingsInv, TypeOK, AllCrit

LEMMA NamesApart ==
  ASSUME BaseInv, NEW r \in Records, NEW s \in Records, Registry[r].name = Registry[s].name,
         Registry[r].name \in Names
  PROVE  r = s
BY NoneApart DEF BaseInv, RingsInv, EntriesInv

(* One who copies.                                                         *)
LEMMA CopierFacts ==
  ASSUME BaseInv, NEW a \in Apps, copying[a].at \in {"CopyData", "SaveEntry"}
  PROVE  /\ InCall(a, copying[a].rec) /\ copying[a].rec \in Records
         /\ Registry[copying[a].rec].used /\ Registry[copying[a].rec].name \in Names
         /\ a \in Copiers(copying[a].rec)
         /\ Registry[copying[a].rec].active \in 1..2 /\ copying[a].buf \in 1..2
<1>1. InCall(a, copying[a].rec)  BY CallFacts
<1>2. copying[a].rec \in Records /\ Registry[copying[a].rec].used /\ Registry[copying[a].rec].name \in Names
  BY <1>1, InCallFacts
<1>3. copying[a] \in Copy /\ TypeOK  BY DEF BaseInv, RingsInv, TypeOK
<1>4. copying[a].buf # 0 /\ Registry[copying[a].rec].active # 0  BY DEF BaseInv, RingsInv, ActiveInv
<1>5. Registry[copying[a].rec].active \in 1..2  BY <1>2, <1>3, <1>4, KeptType
<1>6. copying[a].buf \in 1..2  BY <1>3, <1>4 DEF Copy
<1> QED BY <1>1, <1>2, <1>5, <1>6 DEF Copiers

LEMMA OpFacts ==
  ASSUME BaseInv, op.at # "Idle"
  PROVE  /\ InCall(op.app, op.rec) /\ op.app \in Apps /\ op.rec \in Records
         /\ Registry[op.rec].used /\ Registry[op.rec].name \in Names
         /\ copying[op.app] = NotCopying
         /\ op.at \in {"CopyData", "SaveEntry"} => Registry[op.rec].active \in 1..2
<1>1. InCall(op.app, op.rec) /\ copying[op.app] = NotCopying  BY CallFacts
<1>2. op.app \in Apps /\ op.rec \in Records /\ Registry[op.rec].used /\ Registry[op.rec].name \in Names
  BY <1>1, InCallFacts
<1>3. op.at \in {"CopyData", "SaveEntry"} => Registry[op.rec].active \in 1..2
  BY <1>2, KeptType DEF BaseInv, RingsInv, ActiveInv
<1> QED BY <1>1, <1>2, <1>3

(* What app a is about to load into is a record in use.                    *)
LEMMA LoaderFacts ==
  ASSUME BaseInv, NEW a \in Apps, copying[a].at # "No"
  PROVE  copying[a].rec \in Records /\ Registry[copying[a].rec].used /\ Registry[copying[a].rec].name \in Names
BY CallFacts, InCallFacts

(* A buffer has an image or none in it.                                    *)
LEMMA BufferType ==
  ASSUME BaseInv, NEW r \in Records, NEW b \in 1..2
  PROVE  Registry[r].buffer[b] \in Recovery
<1>1. Registry[r].buffer \in [1..2 -> Images \cup {None}]  BY DEF BaseInv, RingsInv, TypeOK, Rec
<1> QED BY <1>1 DEF Recovery

\* What record r says of its name and its image stays.
SameImage(r) ==
  /\ Registry'[r].name = Registry[r].name /\ Registry'[r].critical = Registry[r].critical
  /\ Registry'[r].active = Registry[r].active /\ Registry'[r].buffer = Registry[r].buffer

LEMMA CopyFrame ==
  ASSUME BaseInv, CopiesInv, NEW a \in Apps, NEW r \in Records,
         copying[a].at \in {"CopyData", "SaveEntry"} => r = copying[a].rec /\ SameImage(r),
         copying'[a] = copying[a],
         copying[a].at \in {"CopyData", "SaveEntry"} => may[Registry[r].name] \subseteq may'[Registry[r].name],
         copying[a].at \in {"CopyData", "SaveEntry"} /\ ~copying[a].raced =>
           /\ Cds'[Registry[r].name].image = Cds[Registry[r].name].image
           /\ Copiers(r)' = Copiers(r) /\ op'.rec # r
  PROVE  CopyInv(a)'
<1> SUFFICES ASSUME copying[a].at \in {"CopyData", "SaveEntry"} PROVE CopyInv(a)'
  BY DEF CopyInv
<1> DEFINE n == Registry[r].name
           b == copying[a].buf
<1>1. /\ Registry[r].critical
      /\ copying[a].at = "CopyData" => {None, Active(r), Registry[r].buffer[b]} \subseteq may[n]
      /\ ~copying[a].raced =>
           /\ Copiers(r) = {a}
           /\ copying[a].at = "CopyData" => b = Registry[r].active
           /\ copying[a].at = "SaveEntry" => Cds[n].image = Active(r)
  BY DEF CopiesInv, CopyInv
<1>2. /\ Registry'[r].name = n /\ Registry'[r].critical = Registry[r].critical
      /\ Registry'[r].active = Registry[r].active /\ Registry'[r].buffer = Registry[r].buffer
      /\ Active(r)' = Active(r)
  BY DEF SameImage, Active
<1>3. may[n] \subseteq may'[n] /\ copying'[a].rec = r  OBVIOUS
<1>4. ~copying[a].raced => Cds'[n].image = Cds[n].image /\ Copiers(r)' = Copiers(r) /\ op'.rec # r
  OBVIOUS
<1>5. Active(copying[a].rec)' = Active(r) /\ Copiers(copying[a].rec)' = Copiers(r)'
  BY <1>2, <1>3 DEF Active, Copiers
<1> HIDE DEF n
<1> QED BY <1>1, <1>2, <1>3, <1>4, <1>5 DEF CopyInv

LEMMA OpFrame ==
  ASSUME BaseInv, CopiesInv, op' = op,
         op.at \in {"CopyData", "SaveEntry"} =>
           /\ SameImage(op.rec) /\ Registry'[op.rec].owner = Registry[op.rec].owner
           /\ may[Registry[op.rec].name] \subseteq may'[Registry[op.rec].name]
           /\ ~op.raced => /\ Cds'[Registry[op.rec].name].image = Cds[Registry[op.rec].name].image
                           /\ Copiers(op.rec)' = Copiers(op.rec)
  PROVE  OpCopyInv'
<1> SUFFICES ASSUME op.at \in {"CopyData", "SaveEntry"} PROVE OpCopyInv'
  BY DEF OpCopyInv
<1> DEFINE r == op.rec
           n == Registry[r].name
<1>1. /\ Registry[r].critical /\ Registry[r].owner = op.app
      /\ op.at = "CopyData" => {None, Active(r)} \subseteq may[n]
      /\ ~op.raced => /\ Copiers(r) = {}
                      /\ op.at = "SaveEntry" => Cds[n].image = Active(r)
  BY DEF CopiesInv, OpCopyInv
<1>2. /\ Registry'[r].name = n /\ Registry'[r].critical = Registry[r].critical
      /\ Active(op.rec)' = Active(r)
  BY DEF SameImage, Active
<1>3. /\ Registry'[r].owner = Registry[r].owner
      /\ may[n] \subseteq may'[n]
      /\ ~op.raced => Cds'[n].image = Cds[n].image /\ Copiers(op.rec)' = Copiers(r)
  OBVIOUS
<1> HIDE DEF n
<1> QED BY <1>1, <1>2, <1>3 DEF OpCopyInv, r

(* What is promised grows, and stores and entries stay.                    *)
LEMMA PromiseFrame ==
  ASSUME PromiseInv, UNCHANGED storeVars, \A n \in Names : may[n] \subseteq may'[n]
  PROVE  PromiseInv'
<1>1. CritReg' = CritReg /\ SavedCritReg' = SavedCritReg /\ Cds' = Cds  BY DEF storeVars
<1>2. \A n \in Names : /\ Recovered(CritReg', Cds'[n]) = Recovered(CritReg, Cds[n])
                       /\ Recovered(SavedCritReg', Cds'[n]) = Recovered(SavedCritReg, Cds[n])
  BY <1>1
<1> QED BY <1>2 DEF PromiseInv

-----------------------------------------------------------------------------
(* Critical tables: what leaves the stores and the calls that copy alone   *)

LEMMA QuietCritical ==
  ASSUME BaseInv, CriticalInv, UNCHANGED storeVars, copying' = copying, may' = may,
         \A s \in Records : Registry'[s].critical =>
           Registry[s].critical /\ Registry'[s].name = Registry[s].name /\ Registry'[s].cds = Registry[s].cds,
         \A b \in Apps : copying[b].at # "No" => SameImage(copying[b].rec),
         \A b \in Apps : copying[b].at = "Load" =>
           Registry'[copying[b].rec].owner = Registry[copying[b].rec].owner,
         \/ op' = op /\ (op.at # "Idle" => Registry'[op.rec] = Registry[op.rec])
         \/ op' = Idle
         \/ /\ op'.at = "RegisterCds" /\ op'.rec \in Records
            /\ Registry'[op'.rec].active = 0 /\ ~Registry'[op'.rec].critical
            /\ \A b \in Apps : copying[b].rec # op'.rec
  PROVE  CriticalInv'
<1>1. StoresInv /\ RegistrationInv /\ CopiesInv /\ PromiseInv  BY DEF CriticalInv
<1>2. CritReg' = CritReg /\ SavedCritReg' = SavedCritReg /\ Cds' = Cds  BY DEF storeVars
<1>3. StoresInv'
  <2>1. \A m, n \in Names : Cds'[m].id = Cds'[n].id /\ Cds'[m].id # 0 => m = n  BY <1>1, <1>2 DEF StoresInv
  <2>2. \A r \in Records : Registry'[r].critical =>
          /\ Registry'[r].name # None
          /\ Registry'[r].cds = Cds'[Registry'[r].name].id /\ Registry'[r].cds # 0
    BY <1>1, <1>2 DEF StoresInv
  <2> QED BY <2>1, <2>2 DEF StoresInv
<1>4. RegistrationInv'
  <2>1. CASE op' = op /\ (op.at # "Idle" => Registry'[op.rec] = Registry[op.rec])
    BY <2>1, <1>1, <1>2 DEF RegistrationInv
  <2>2. CASE op' = Idle  BY <2>2 DEF RegistrationInv, Idle
  <2>3. CASE /\ op'.at = "RegisterCds" /\ op'.rec \in Records
             /\ Registry'[op'.rec].active = 0 /\ ~Registry'[op'.rec].critical
             /\ \A b \in Apps : copying[b].rec # op'.rec
    BY <2>3 DEF RegistrationInv
  <2> QED BY <2>1, <2>2, <2>3
<1>5. OpCopyInv'
  <2>1. CASE op' = op /\ (op.at # "Idle" => Registry'[op.rec] = Registry[op.rec])
    <3>1. op.at \in {"CopyData", "SaveEntry"} => SameImage(op.rec) /\ Registry'[op.rec].owner = Registry[op.rec].owner
      BY <2>1 DEF SameImage
    <3>2. Copiers(op.rec)' = Copiers(op.rec)  BY <2>1 DEF Copiers
    <3> QED BY <2>1, <3>1, <3>2, <1>1, <1>2, OpFrame
  <2>2. CASE op' = Idle  BY <2>2 DEF OpCopyInv, Idle
  <2>3. CASE op'.at = "RegisterCds"  BY <2>3 DEF OpCopyInv
  <2> QED BY <2>1, <2>2, <2>3
<1>6. ASSUME NEW a \in Apps PROVE CopyInv(a)' /\ LoadInv(a)'
  <2>1. CASE copying[a].at \in {"CopyData", "SaveEntry"}
    <3>1. PICK r \in Records : r = copying[a].rec  BY <2>1, CopierFacts
    <3>2. SameImage(r) /\ copying'[a] = copying[a]  BY <2>1, <3>1
    <3>3. Copiers(r)' = Copiers(r)  BY DEF Copiers
    <3>4. ASSUME ~copying[a].raced PROVE op'.rec # r
      <4>1. op.rec # r  BY <3>4, <2>1, <3>1, <1>1 DEF CopiesInv, CopyInv
      <4> QED BY <4>1, <3>1, NoneApart DEF Idle
    <3>5. CopyInv(a)'  BY <3>1, <3>2, <3>3, <3>4, <1>1, <1>2, CopyFrame
    <3> QED BY <3>5, <2>1 DEF LoadInv
  <2>2. CASE copying[a].at \notin {"CopyData", "SaveEntry"}
    BY <2>2, <1>1 DEF CopyInv, LoadInv, CopiesInv
  <2> QED BY <2>1, <2>2
<1>7. PromiseInv'  BY <1>1, PromiseFrame
<1> QED BY <1>3, <1>4, <1>5, <1>6, <1>7 DEF CriticalInv, CopiesInv

LEMMA AppCritical ==
  ASSUME BaseInv, CriticalInv, UNCHANGED <<Registry, storeVars, op, copying, may>>
  PROVE  CriticalInv'
<1>1. \A s : SameImage(s)  BY DEF SameImage
<1> QED BY <1>1, QuietCritical

LEMMA RegisterCritical ==
  ASSUME BaseInv, CriticalInv, NEW a \in Apps, NEW n \in Names, NEW kind \in Kinds[n],
         Register(a, n, kind) \/ RegisterFails(a, n, kind)
  PROVE  CriticalInv'
<1>0. TypeOK /\ EntriesInv  BY DEF BaseInv, RingsInv
<1>1. PICK r, new :
        /\ r \in Records /\ ~Registry[r].used /\ Registry' = [Registry EXCEPT ![r] = new]
        /\ ~new.critical /\ new.active = 0
        /\ op' = Idle \/ (op'.at = "RegisterCds" /\ op'.rec = r)
        /\ UNCHANGED <<storeVars, copying, may>>
  <2>1. CASE Register(a, n, kind)
    <3>1. PICK r \in Records :
            /\ Registers(a, n, r)
            /\ Registry' = [Registry EXCEPT ![r] = NewRec(a, n, kind)]
            /\ op' = IF kind.critical THEN [Idle EXCEPT !.at = "RegisterCds", !.app = a, !.rec = r] ELSE Idle
            /\ UNCHANGED <<storeVars, copying, may>>
      BY <2>1 DEF Register, NewRec
    <3>2. ~NewRec(a, n, kind).critical /\ NewRec(a, n, kind).active = 0  BY DEF NewRec, FreeRec
    <3>3. op' = Idle \/ (op'.at = "RegisterCds" /\ op'.rec = r)  BY <3>1 DEF Idle
    <3>4. ~Registry[r].used  BY <3>1 DEF Registers, FreeRecords
    <3> HIDE DEF NewRec
    <3> QED BY <3>1, <3>2, <3>3, <3>4
  <2>2. CASE RegisterFails(a, n, kind)
    <3>1. PICK r \in Records :
            /\ Registers(a, n, r)
            /\ \/ Registry' = [Registry EXCEPT ![r] = [FreeRec EXCEPT !.used = TRUE]]
               \/ Registry' = [Registry EXCEPT ![r] = [FreeRec EXCEPT !.used = TRUE, !.blocks = pool]]
            /\ UNCHANGED <<storeVars, op, copying, may>>
      BY <2>2 DEF RegisterFails
    <3>2. PICK new : Registry' = [Registry EXCEPT ![r] = new] /\ ~new.critical /\ new.active = 0
      <4>1. ~[FreeRec EXCEPT !.used = TRUE].critical /\ [FreeRec EXCEPT !.used = TRUE].active = 0
        BY DEF FreeRec
      <4>2. /\ ~[FreeRec EXCEPT !.used = TRUE, !.blocks = pool].critical
            /\ [FreeRec EXCEPT !.used = TRUE, !.blocks = pool].active = 0
        BY DEF FreeRec
      <4> QED BY <3>1, <4>1, <4>2
    <3>3. ~Registry[r].used /\ op' = Idle  BY <3>1 DEF Registers, FreeRecords, Unlocked
    <3> QED BY <3>1, <3>2, <3>3
  <2> QED BY <2>1, <2>2
<1>2. Registry'[r] = new /\ \A s \in Records \ {r} : Registry'[s] = Registry[s]
  BY <1>0, <1>1 DEF TypeOK
<1>3. ASSUME NEW b \in Apps PROVE copying[b].rec # r
  <2>1. CASE copying[b].at # "No"  BY <2>1, <1>1, LoaderFacts
  <2>2. CASE copying[b].at = "No"
    <3>1. copying[b] = NotCopying  BY <2>2 DEF BaseInv, RingsInv, CallsInv
    <3> QED BY <3>1, <1>1, NoneApart DEF NotCopying
  <2> QED BY <2>1, <2>2
<1>4. \A b \in Apps : copying[b].at # "No" => Registry'[copying[b].rec] = Registry[copying[b].rec]
  BY <1>2, <1>3, LoaderFacts
<1>5. \A b \in Apps : copying[b].at # "No" => SameImage(copying[b].rec)  BY <1>4 DEF SameImage
<1>6. \A s \in Records : Registry'[s].critical =>
        Registry[s].critical /\ Registry'[s].name = Registry[s].name /\ Registry'[s].cds = Registry[s].cds
  BY <1>1, <1>2
<1> QED BY <1>1, <1>2, <1>3, <1>4, <1>5, <1>6, QuietCritical

LEMMA ReleaseCritical ==
  ASSUME BaseInv, CriticalInv, NEW a \in Apps, NEW d \in Descriptors, Handles[d].app = a, Release(a, d),
         Unlocked, copying[a].at = "No", UNCHANGED <<storeVars, op, copying, may>>
  PROVE  CriticalInv'
<1>1. PICK last \in BOOLEAN, owner \in Apps \cup {None} : Releases(a, d, Handles[d].reg, last, owner)
  BY ReleaseTypes
<1>2. PICK r : r = Handles[d].reg  OBVIOUS
<1>3. /\ r \in Records /\ d \in HandlesOn(r)
      /\ owner = IF Registry[r].owner = a THEN None ELSE Registry[r].owner
      /\ last <=> owner = None /\ HandlesOn(r) = {d}
      /\ last => Registry'[r] = FreeRec
      /\ ~last => /\ Registry'[r].name = Registry[r].name /\ Registry'[r].owner = owner
                  /\ Registry'[r].critical = Registry[r].critical /\ Registry'[r].cds = Registry[r].cds
                  /\ Registry'[r].active = Registry[r].active /\ Registry'[r].buffer = Registry[r].buffer
      /\ \A s \in Records \ {r} : Registry'[s] = Registry[s]
  BY <1>1, <1>2 DEF Releases
<1>4. \A s \in Records : Registry'[s].critical =>
        Registry[s].critical /\ Registry'[s].name = Registry[s].name /\ Registry'[s].cds = Registry[s].cds
  BY <1>3 DEF FreeRec
<1>5. ASSUME NEW b \in Apps, copying[b].at # "No" PROVE SameImage(copying[b].rec)
  <2>1. InCall(b, copying[b].rec) /\ copying[b].rec \in Records  BY <1>5, CallFacts, LoaderFacts
  <2>2. CASE copying[b].rec # r  BY <2>1, <2>2, <1>3 DEF SameImage
  <2>3. CASE copying[b].rec = r
    <3>1. \E e \in Descriptors : Handles[e].app = b /\ e \in HandlesOn(r)
      BY <2>1, <2>3, <1>3, <1>5, HoldsFacts DEF InCall, BaseInv, RingsInv
    <3>2. b # a  BY <1>5
    <3>3. ~last  BY <3>1, <3>2, <1>3
    <3> QED BY <2>3, <3>3, <1>3 DEF SameImage
  <2> QED BY <2>2, <2>3
<1>6. ASSUME NEW b \in Apps, copying[b].at = "Load"
      PROVE  Registry'[copying[b].rec].owner = Registry[copying[b].rec].owner
  <2>1. Registry[copying[b].rec].owner = b /\ copying[b].rec \in Records /\ b # a
    BY <1>6, LoaderFacts DEF CriticalInv, CopiesInv, LoadInv
  <2>2. CASE copying[b].rec # r  BY <2>1, <2>2, <1>3
  <2>3. CASE copying[b].rec = r
    <3>1. owner = b  BY <2>1, <2>3, <1>3
    <3>2. ~last  BY <3>1, <1>3, NoneApart
    <3> QED BY <3>1, <3>2, <2>1, <2>3, <1>3
  <2> QED BY <2>2, <2>3
<1>7. op' = Idle  BY DEF Unlocked
<1> QED BY <1>4, <1>5, <1>6, <1>7, QuietCritical

LEMMA HandlesCritical ==
  ASSUME BaseInv, CriticalInv, NEW a \in Apps,
         StartApp(a) \/ StopApp(a) \/ CleanUpApp(a) \/ CleanUpDone(a) \/ Unregister(a)
           \/ \E n \in Names : Share(a, n)
  PROVE  CriticalInv'
<1>1. CASE StartApp(a) \/ StopApp(a) \/ CleanUpDone(a)
  BY <1>1, AppCritical DEF StartApp, StopApp, CleanUpDone, handleVars
<1>2. CASE \E n \in Names : Share(a, n)
  BY <1>2, AppCritical DEF Share
<1>3. CASE Unregister(a)
  <2>1. PICK d \in Descriptors :
          /\ MayCall(a) /\ Unlocked /\ Handles[d].app = a /\ Release(a, d)
          /\ UNCHANGED <<storeVars, op, copying, may>>
    BY <1>3 DEF Unregister
  <2>2. copying[a].at = "No"  BY <2>1 DEF MayCall, NotCopying
  <2> QED BY <2>1, <2>2, ReleaseCritical
<1>4. CASE CleanUpApp(a)
  <2>1. PICK d \in todo[a] :
          /\ app[a] = "cleaning" /\ Unlocked /\ Release(a, d)
          /\ UNCHANGED <<storeVars, op, copying, may>>
    BY <1>4 DEF CleanUpApp
  <2>2. d \in Descriptors /\ Handles[d].app = a
    <3>1. todo[a] = {e \in Descriptors : Handles[e].app = a}  BY <2>1 DEF BaseInv, RingsInv, CallsInv
    <3> QED BY <3>1, <2>1
  <2>3. copying[a].at = "No"
    <3>1. copying[a].at # "No" => app[a] = "running"  BY DEF BaseInv, RingsInv, CallsInv
    <3> QED BY <3>1, <2>1
  <2> QED BY <2>1, <2>2, <2>3, ReleaseCritical
<1> QED BY <1>1, <1>2, <1>3, <1>4

-----------------------------------------------------------------------------
(* Critical tables: changes of what is active                              *)

LEMMA StoresFrame ==
  ASSUME StoresInv, \A n \in Names : Cds'[n].id = Cds[n].id, BaseInv,
         \A s \in Records : /\ Registry'[s].critical = Registry[s].critical
                            /\ Registry'[s].name = Registry[s].name /\ Registry'[s].cds = Registry[s].cds
  PROVE  StoresInv'
<1>1. \A m, n \in Names : Cds'[m].id = Cds'[n].id /\ Cds'[m].id # 0 => m = n  BY DEF StoresInv
<1>2. ASSUME NEW r \in Records, Registry'[r].critical
      PROVE  /\ Registry'[r].name # None
             /\ Registry'[r].cds = Cds'[Registry'[r].name].id /\ Registry'[r].cds # 0
  <2>1. Registry[r].name # None /\ Registry[r].cds = Cds[Registry[r].name].id /\ Registry[r].cds # 0
    BY <1>2 DEF StoresInv
  <2>2. Registry[r].name \in Names  BY <2>1 DEF BaseInv, RingsInv, TypeOK, Rec
  <2> QED BY <2>1, <2>2
<1> QED BY <1>1, <1>2 DEF StoresInv

LEMMA RegistrationFrame ==
  ASSUME BaseInv, RegistrationInv, op' = op, \A n \in Names : Cds'[n].id = Cds[n].id,
         op.at \in {"RegisterCds", "SaveCrit"} =>
           /\ Registry'[op.rec] = Registry[op.rec]
           /\ may[Registry[op.rec].name] \subseteq may'[Registry[op.rec].name]
           /\ \A m \in Apps : copying'[m].rec # op.rec
  PROVE  RegistrationInv'
<1> SUFFICES ASSUME op.at \in {"RegisterCds", "SaveCrit"} PROVE RegistrationInv'
  BY DEF RegistrationInv
<1>1. Registry[op.rec].name \in Names  BY OpFacts
<1> QED BY <1>1 DEF RegistrationInv

LEMMA ActiveChanges ==
  ASSUME BaseInv, NEW r \in Records, NEW b \in 1..2, NEW v \in Images, Activates(r, b, v)
  PROVE  /\ Active(r)' = v /\ Registry'[r].active = b /\ Registry'[r].buffer[b] = v
         /\ \A c \in 1..2 : Registry'[r].buffer[c] \in {v, Registry[r].buffer[c]}
         /\ Registry'[r].owner = Registry[r].owner
         /\ \A s \in Records : /\ Registry'[s].critical = Registry[s].critical
                               /\ Registry'[s].name = Registry[s].name /\ Registry'[s].cds = Registry[s].cds
                               /\ s # r => Registry'[s] = Registry[s] /\ SameImage(s)
<1>1. v \in Recovery /\ TypeOK  BY DEF Recovery, BaseInv, RingsInv
<1>2. /\ Edited(Registry, Registry', r) /\ Registry'[r].active = b /\ Registry'[r].buffer[b] = v
      /\ \A c \in (1..2) \ {b} : Registry'[r].buffer[c] = Registry[r].buffer[c]
      /\ Registry'[r].cds = Registry[r].cds /\ Registry'[r].critical = Registry[r].critical
  BY <1>1, ActivatesFacts
<1>3. Registry'[r].name = Registry[r].name /\ Registry'[r].owner = Registry[r].owner
      /\ \A s \in Records \ {r} : Registry'[s] = Registry[s]
  BY <1>2 DEF Edited
<1>4. Active(r)' = v  BY <1>2 DEF Active
<1> QED BY <1>2, <1>3, <1>4 DEF SameImage

(* A critical table's copier, when another image has become active.        *)
LEMMA RacedCopyInv ==
  ASSUME BaseInv, CriticalInv, NEW r \in Records, NEW b \in 1..2, NEW v \in Images, Activates(r, b, v),
         NEW m \in Apps, copying[m].at \in {"CopyData", "SaveEntry"}, copying[m].rec = r,
         copying'[m].at = copying[m].at, copying'[m].rec = r, copying'[m].buf = copying[m].buf,
         copying'[m].raced, may'[Registry[r].name] = may[Registry[r].name] \cup {v, None}
  PROVE  CopyInv(m)'
<1>1. /\ Registry[r].critical
      /\ copying[m].at = "CopyData" => {None, Active(r), Registry[r].buffer[copying[m].buf]} \subseteq may[Registry[r].name]
  BY DEF CriticalInv, CopiesInv, CopyInv
<1>2. copying[m].buf \in 1..2  BY CopierFacts
<1>3. /\ Active(r)' = v /\ Registry'[r].name = Registry[r].name /\ Registry'[r].critical
      /\ Registry'[r].buffer[copying[m].buf] \in {v, Registry[r].buffer[copying[m].buf]}
  BY <1>1, <1>2, ActiveChanges
<1>4. Active(copying[m].rec)' = v  BY <1>3 DEF Active
<1> QED BY <1>1, <1>3, <1>4 DEF CopyInv

LEMMA ChangeCritical ==
  ASSUME BaseInv, CriticalInv, NEW a \in Apps, NEW r \in Records, NEW b \in 1..2, NEW v \in Images,
         Registry[r].name \in Names, Registry[r].critical, Activates(r, b, v),
         op.at # "Idle" => op.app # a, op.rec # r, op' = op, copying[a].at \notin {"CopyData", "SaveEntry"},
         CopiesNext(a, r, b, v), UNCHANGED storeVars
  PROVE  CriticalInv'
<1>1. StoresInv /\ RegistrationInv /\ CopiesInv /\ PromiseInv  BY DEF CriticalInv
<1>2. Cds' = Cds  BY DEF storeVars
<1>3. /\ copying'[a] = CopyOf(r, b)
      /\ \A m \in Apps \ {a} :
           /\ copying'[m].at = copying[m].at /\ copying'[m].rec = copying[m].rec /\ copying'[m].buf = copying[m].buf
           /\ m \in Copiers(r) => copying'[m].raced
           /\ m \notin Copiers(r) => copying'[m] = copying[m]
      /\ may'[Registry[r].name] = may[Registry[r].name] \cup {v, None}
      /\ \A n \in Names \ {Registry[r].name} : may'[n] = may[n]
  BY CopiesNextFacts
<1>4. /\ Active(r)' = v /\ Registry'[r].active = b /\ Registry'[r].buffer[b] = v
      /\ \A s \in Records : /\ Registry'[s].critical = Registry[s].critical
                            /\ Registry'[s].name = Registry[s].name /\ Registry'[s].cds = Registry[s].cds
                            /\ s # r => Registry'[s] = Registry[s] /\ SameImage(s)
  BY ActiveChanges
<1>5. \A n \in Names : may[n] \subseteq may'[n]  BY <1>3
<1>6. CopyOf(r, b).rec = r /\ CopyOf(r, b).at = "CopyData" /\ CopyOf(r, b).buf = b
      /\ (CopyOf(r, b).raced <=> Copiers(r) # {})
  BY DEF CopyOf
<1>7. \A s \in Records : Copiers(s)' = Copiers(s) \cup (IF s = r THEN {a} ELSE {})
  <2> SUFFICES ASSUME NEW s \in Records, NEW m \in Apps
               PROVE  (copying'[m].rec = s /\ copying'[m].at # "Load")
                        <=> (copying[m].rec = s /\ copying[m].at # "Load") \/ (m = a /\ s = r)
    BY DEF Copiers
  <2>1. a \notin Copiers(s)  BY CopiersFacts
  <2> QED BY <2>1, <1>3, <1>6 DEF Copiers
<1>8. StoresInv'  BY <1>1, <1>2, <1>4, StoresFrame
<1>9. RegistrationInv'
  <2>1. ASSUME op.at \in {"RegisterCds", "SaveCrit"}
        PROVE  /\ Registry'[op.rec] = Registry[op.rec]
               /\ may[Registry[op.rec].name] \subseteq may'[Registry[op.rec].name]
               /\ \A m \in Apps : copying'[m].rec # op.rec
    <3>1. op.rec \in Records /\ Registry[op.rec].name \in Names  BY <2>1, OpFacts
    <3>2. \A m \in Apps : copying[m].rec # op.rec  BY <2>1, <1>1 DEF RegistrationInv
    <3> QED BY <3>1, <3>2, <1>3, <1>4, <1>5, <1>6
  <2> QED BY <2>1, <1>1, <1>2, RegistrationFrame
<1>10. OpCopyInv'
  <2>1. ASSUME op.at \in {"CopyData", "SaveEntry"}
        PROVE  /\ SameImage(op.rec) /\ Registry'[op.rec].owner = Registry[op.rec].owner
               /\ may[Registry[op.rec].name] \subseteq may'[Registry[op.rec].name]
               /\ ~op.raced => /\ Cds'[Registry[op.rec].name].image = Cds[Registry[op.rec].name].image
                               /\ Copiers(op.rec)' = Copiers(op.rec)
    <3>1. op.rec \in Records /\ Registry[op.rec].name \in Names  BY <2>1, OpFacts
    <3>2. Copiers(op.rec)' = Copiers(op.rec)
      <4>1. PICK s \in Records : s = op.rec /\ s # r  BY <3>1
      <4>2. Copiers(s)' = Copiers(s)  BY <4>1, <1>7
      <4> QED BY <4>1, <4>2 DEF Copiers
    <3> QED BY <3>1, <3>2, <1>2, <1>4, <1>5
  <2> QED BY <2>1, <1>1, OpFrame
<1>11. ASSUME NEW m \in Apps PROVE CopyInv(m)' /\ LoadInv(m)'
  <2>1. CASE m = a
    <3>1. copying'[a].at = "CopyData" /\ copying'[a].rec = r /\ copying'[a].buf = b
          /\ (copying'[a].raced <=> Copiers(r) # {})
      BY <1>3, <1>6
    <3>2. Active(copying[a].rec)' = v /\ Copiers(copying[a].rec)' = Copiers(r) \cup {a}
      BY <3>1, <1>4, <1>7 DEF Active, Copiers
    <3>3. CopyInv(a)'  BY <3>1, <3>2, <1>3, <1>4 DEF CopyInv
    <3>4. LoadInv(a)'  BY <3>1 DEF LoadInv
    <3> QED BY <3>3, <3>4, <2>1
  <2>2. CASE m # a /\ copying[m].at \in {"CopyData", "SaveEntry"}
    <3>1. PICK s \in Records : s = copying[m].rec  BY <2>2, CopierFacts
    <3>2. m \in Copiers(s) /\ Registry[s].name \in Names  BY <2>2, <3>1, CopierFacts
    <3>3. CASE s = r
      <4>1. copying'[m].raced  BY <3>2, <3>3, <2>2, <1>3
      <4>3. /\ copying'[m].at = copying[m].at /\ copying'[m].rec = r /\ copying'[m].buf = copying[m].buf
            /\ copying[m].rec = r /\ may'[Registry[r].name] = may[Registry[r].name] \cup {v, None}
        BY <3>1, <3>3, <2>2, <1>3
      <4>2. CopyInv(m)'  BY <4>1, <4>3, <2>2, RacedCopyInv
      <4> QED BY <4>2, <2>2, <1>3 DEF LoadInv
    <3>4. CASE s # r
      <4>1. copying'[m] = copying[m]  BY <3>1, <3>4, <2>2, <1>3 DEF Copiers
      <4>2. Copiers(s)' = Copiers(s)  BY <3>4, <1>7
      <4>3. ~copying[m].raced => op'.rec # s  BY <2>2, <3>1, <1>1 DEF CopiesInv, CopyInv
      <4>4. may[Registry[s].name] \subseteq may'[Registry[s].name]  BY <1>5, <3>2
      <4>5. CopyInv(m)'  BY <4>1, <4>2, <4>3, <4>4, <3>1, <3>4, <1>1, <1>2, <1>4, CopyFrame
      <4> QED BY <4>1, <4>5, <2>2 DEF LoadInv
    <3> QED BY <3>3, <3>4
  <2>3. CASE m # a /\ copying[m].at \notin {"CopyData", "SaveEntry"}
    <3>1. copying'[m].at = copying[m].at /\ copying'[m].rec = copying[m].rec  BY <2>3, <1>3
    <3>2. CopyInv(m)'  BY <3>1, <2>3 DEF CopyInv
    <3>3. LoadInv(m)'
      <4>1. ASSUME copying[m].at = "Load" PROVE Registry'[copying[m].rec].owner = m
        <5>1. Registry[copying[m].rec].owner = m /\ copying[m].rec \in Records
          BY <4>1, <1>1, LoaderFacts DEF CopiesInv, LoadInv
        <5> QED BY <5>1, <1>4, ActiveChanges
      <4> QED BY <4>1, <3>1 DEF LoadInv
    <3> QED BY <3>2, <3>3
  <2> QED BY <2>1, <2>2, <2>3
<1>12. PromiseInv'  BY <1>1, <1>5, PromiseFrame
<1> QED BY <1>8, <1>9, <1>10, <1>11, <1>12 DEF CriticalInv, CopiesInv

(* A change of a table that is not critical touches no copy.               *)
LEMMA ChangePlain ==
  ASSUME BaseInv, CriticalInv, NEW a \in Apps, NEW r \in Records, NEW b \in 1..2, NEW v \in Images,
         ~Registry[r].critical, Activates(r, b, v), op.rec # r, op' = op, may' = may, UNCHANGED storeVars,
         copying' = copying \/ (copying[a].at \notin {"CopyData", "SaveEntry"} /\ copying' = [copying EXCEPT ![a] = NotCopying])
  PROVE  CriticalInv'
<1>1. StoresInv /\ RegistrationInv /\ CopiesInv /\ PromiseInv  BY DEF CriticalInv
<1>2. Cds' = Cds  BY DEF storeVars
<1>3. \A s \in Records : /\ Registry'[s].critical = Registry[s].critical
                         /\ Registry'[s].name = Registry[s].name /\ Registry'[s].cds = Registry[s].cds
                         /\ Registry'[s].owner = Registry[s].owner
                         /\ s # r => Registry'[s] = Registry[s] /\ SameImage(s)
  BY ActiveChanges
<1>4. \A m \in Apps : copying'[m] = copying[m] \/ (m = a /\ copying[a].at \notin {"CopyData", "SaveEntry"} /\ copying'[a] = NotCopying)
  BY DEF BaseInv, RingsInv, TypeOK
<1>5. \A s \in Records : Copiers(s)' = Copiers(s)
  <2> SUFFICES ASSUME NEW s \in Records, NEW m \in Apps
               PROVE  (copying'[m].rec = s /\ copying'[m].at # "Load") <=> (copying[m].rec = s /\ copying[m].at # "Load")
    BY DEF Copiers
  <2>1. CASE copying'[m] = copying[m]  BY <2>1
  <2>2. CASE m = a /\ copying[a].at \notin {"CopyData", "SaveEntry"} /\ copying'[a] = NotCopying
    <3>1. a \notin Copiers(s)  BY <2>2, CopiersFacts
    <3> QED BY <2>2, <3>1, NoneApart DEF Copiers, NotCopying
  <2> QED BY <2>1, <2>2, <1>4
<1>6. StoresInv'  BY <1>1, <1>2, <1>3, StoresFrame
<1>7. RegistrationInv'
  <2>1. ASSUME op.at \in {"RegisterCds", "SaveCrit"}
        PROVE  /\ Registry'[op.rec] = Registry[op.rec]
               /\ \A m \in Apps : copying'[m].rec # op.rec
    <3>1. op.rec \in Records  BY <2>1, OpFacts
    <3>2. \A m \in Apps : copying[m].rec # op.rec  BY <2>1, <1>1 DEF RegistrationInv
    <3> QED BY <3>1, <3>2, <1>3, <1>4, NoneApart DEF NotCopying
  <2> QED BY <2>1, <1>1, <1>2, RegistrationFrame
<1>8. OpCopyInv'
  <2>1. ASSUME op.at \in {"CopyData", "SaveEntry"}
        PROVE  /\ SameImage(op.rec) /\ Registry'[op.rec].owner = Registry[op.rec].owner
               /\ Copiers(op.rec)' = Copiers(op.rec)
    <3>1. PICK s \in Records : s = op.rec  BY <2>1, OpFacts
    <3>2. Copiers(s)' = Copiers(s)  BY <1>5
    <3> QED BY <3>1, <3>2, <1>3 DEF Copiers
  <2> QED BY <2>1, <1>1, <1>2, OpFrame
<1>9. ASSUME NEW m \in Apps PROVE CopyInv(m)' /\ LoadInv(m)'
  <2>1. CASE copying[m].at \in {"CopyData", "SaveEntry"}
    <3>1. PICK s \in Records : s = copying[m].rec  BY <2>1, CopierFacts
    <3>2. Registry[s].critical /\ (~copying[m].raced => op'.rec # s)
      BY <2>1, <3>1, <1>1 DEF CopiesInv, CopyInv
    <3>3. s # r /\ copying'[m] = copying[m]  BY <3>2, <2>1, <1>4
    <3>4. SameImage(s) /\ Copiers(s)' = Copiers(s)  BY <3>3, <1>3, <1>5
    <3>5. CopyInv(m)'  BY <3>1, <3>2, <3>3, <3>4, <1>1, <1>2, CopyFrame
    <3> QED BY <3>3, <3>5, <2>1 DEF LoadInv
  <2>2. CASE copying[m].at \notin {"CopyData", "SaveEntry"}
    <3>1. copying'[m].at \notin {"CopyData", "SaveEntry"}  BY <2>2, <1>4 DEF NotCopying
    <3>2. ASSUME copying'[m].at = "Load" PROVE Registry'[copying'[m].rec].owner = m
      <4>1. copying'[m] = copying[m]  BY <3>2, <1>4 DEF NotCopying
      <4>2. Registry[copying[m].rec].owner = m /\ copying[m].rec \in Records
        BY <3>2, <4>1, <1>1, LoaderFacts DEF CopiesInv, LoadInv
      <4> QED BY <4>1, <4>2, <1>3
    <3> QED BY <3>1, <3>2 DEF CopyInv, LoadInv
  <2> QED BY <2>1, <2>2
<1>10. PromiseInv'  BY <1>1, PromiseFrame
<1> QED BY <1>6, <1>7, <1>8, <1>9, <1>10 DEF CriticalInv, CopiesInv

LEMMA LoadCritical ==
  ASSUME BaseInv, CriticalInv, NEW a \in Apps, Load(a)
  PROVE  CriticalInv'
<1>0. TypeOK  BY DEF BaseInv, RingsInv
<1>1. PICK d \in Descriptors :
    /\ MayCall(a) /\ Unlocked
    /\ Handles[d].app = a /\ Registry[Handles[d].reg].owner = a
    /\ copying' = [copying EXCEPT ![a] = [NotCopying EXCEPT !.at = "Load", !.rec = Handles[d].reg]]
    /\ UNCHANGED <<app, todo, handleVars, storeVars, op, deleting, may>>
  BY DEF Load
<1>2. Registry' = Registry /\ Cds' = Cds /\ may' = may /\ op' = Idle
  BY <1>1 DEF handleVars, storeVars, Unlocked
<1>3. PICK new : new = [NotCopying EXCEPT !.at = "Load", !.rec = Handles[d].reg]  OBVIOUS
<1>4. new.at = "Load" /\ new.rec = Handles[d].reg  BY <1>3 DEF NotCopying
<1>5. copying'[a] = new /\ \A m \in Apps \ {a} : copying'[m] = copying[m]
  BY <1>0, <1>1, <1>3 DEF TypeOK
<1>6. copying[a].at = "No"  BY <1>1 DEF MayCall, NotCopying
<1>7. ASSUME NEW s \in Records PROVE Copiers(s)' = Copiers(s)
  <2>1. a \notin Copiers(s)  BY <1>6, CopiersFacts
  <2> QED BY <2>1, <1>4, <1>5 DEF Copiers
<1>8. StoresInv /\ CopiesInv /\ PromiseInv  BY DEF CriticalInv
<1>9. StoresInv'  BY <1>2, <1>8 DEF StoresInv
<1>10. RegistrationInv' /\ OpCopyInv'  BY <1>2 DEF RegistrationInv, OpCopyInv, Idle
<1>11. ASSUME NEW m \in Apps PROVE CopyInv(m)' /\ LoadInv(m)'
  <2>1. CASE m = a  BY <2>1, <1>1, <1>2, <1>4, <1>5 DEF CopyInv, LoadInv
  <2>2. CASE m # a /\ copying[m].at \in {"CopyData", "SaveEntry"}
    <3>1. PICK s \in Records : s = copying[m].rec  BY <2>2, CopierFacts
    <3>2. SameImage(s) /\ Copiers(s)' = Copiers(s) /\ op'.rec # s
      BY <1>2, <1>7, NoneApart DEF SameImage, Idle
    <3>3. CopyInv(m)'  BY <2>2, <3>1, <3>2, <1>2, <1>5, <1>8, CopyFrame
    <3> QED BY <2>2, <3>3, <1>5 DEF LoadInv
  <2>3. CASE m # a /\ copying[m].at \notin {"CopyData", "SaveEntry"}
    BY <2>3, <1>2, <1>5, <1>8 DEF CopyInv, LoadInv, CopiesInv
  <2> QED BY <2>1, <2>2, <2>3
<1>12. PromiseInv'  BY <1>1, <1>2, <1>8, PromiseFrame
<1> QED BY <1>9, <1>10, <1>11, <1>12 DEF CriticalInv, CopiesInv

LEMMA UpdateCriticalTable ==
  ASSUME BaseInv, CriticalInv, NEW a \in Apps, NEW r \in Records, NEW b \in 1..2, NEW v \in Images,
         Registry[r].name \in Names, Registry[r].critical, Registry[r].owner = a, Activates(r, b, v),
         op' = CallOf(a, r), Races(r, copying'), UNCHANGED storeVars,
         Promise(Registry[r].name, may[Registry[r].name] \cup {v, None})
  PROVE  CriticalInv'
<1>1. StoresInv /\ RegistrationInv /\ CopiesInv /\ PromiseInv  BY DEF CriticalInv
<1>2. Cds' = Cds  BY DEF storeVars
<1>3. /\ may'[Registry[r].name] = may[Registry[r].name] \cup {v, None}
      /\ \A n \in Names \ {Registry[r].name} : may'[n] = may[n]
  <2>1. PICK images \in SUBSET Recovery : images = may[Registry[r].name] \cup {v, None}
    BY DEF BaseInv, RingsInv, TypeOK, Recovery
  <2>2. TypeOK /\ Promise(Registry[r].name, images)  BY <2>1 DEF BaseInv, RingsInv
  <2> QED BY <2>1, <2>2, PromiseFacts
<1>4. /\ Active(r)' = v /\ Registry'[r].owner = a
      /\ \A s \in Records : /\ Registry'[s].critical = Registry[s].critical
                            /\ Registry'[s].name = Registry[s].name /\ Registry'[s].cds = Registry[s].cds
                            /\ s # r => Registry'[s] = Registry[s] /\ SameImage(s)
  BY ActiveChanges
<1>5. \A n \in Names : may[n] \subseteq may'[n]  BY <1>3
<1>6. /\ op'.at = "CopyData" /\ op'.app = a /\ op'.rec = r /\ (op'.raced <=> Copiers(r) # {})
  BY DEF CallOf
<1>7. \A s \in Records : Copiers(s)' = Copiers(s)  BY DEF Races, Copiers
<1>8. StoresInv'  BY <1>1, <1>2, <1>4, StoresFrame
<1>9. RegistrationInv'  BY <1>6 DEF RegistrationInv
<1>10. OpCopyInv'
  <2>1. Active(op.rec)' = v /\ Copiers(op.rec)' = Copiers(r)
    <3>1. Copiers(op.rec)' = Copiers(r)'  BY <1>6 DEF Copiers
    <3>2. Active(op.rec)' = Active(r)'  BY <1>6 DEF Active
    <3> QED BY <3>1, <3>2, <1>4, <1>7
  <2> QED BY <2>1, <1>3, <1>4, <1>6 DEF OpCopyInv
<1>11. ASSUME NEW m \in Apps PROVE CopyInv(m)' /\ LoadInv(m)'
  <2>0. /\ copying'[m].at = copying[m].at /\ copying'[m].rec = copying[m].rec /\ copying'[m].buf = copying[m].buf
        /\ m \in Copiers(r) => copying'[m].raced
        /\ m \notin Copiers(r) => copying'[m] = copying[m]
    BY DEF Races
  <2>1. CASE copying[m].at \in {"CopyData", "SaveEntry"}
    <3>1. PICK s \in Records : s = copying[m].rec  BY <2>1, CopierFacts
    <3>2. m \in Copiers(s) /\ Registry[s].name \in Names  BY <2>1, <3>1, CopierFacts
    <3>3. CASE s = r
      <4>1. /\ copying'[m].raced /\ copying'[m].rec = r /\ copying[m].rec = r
            /\ copying'[m].at = copying[m].at /\ copying'[m].buf = copying[m].buf
        BY <2>0, <3>1, <3>2, <3>3
      <4>2. CopyInv(m)'  BY <4>1, <2>1, <1>3, RacedCopyInv
      <4> QED BY <4>2, <2>0, <2>1 DEF LoadInv
    <3>4. CASE s # r
      <4>1. copying'[m] = copying[m]  BY <2>0, <3>1, <3>4 DEF Copiers
      <4>2. Copiers(s)' = Copiers(s) /\ SameImage(s) /\ op'.rec # s  BY <3>4, <1>4, <1>6, <1>7
      <4>3. may[Registry[s].name] \subseteq may'[Registry[s].name]  BY <1>5, <3>2
      <4>4. CopyInv(m)'  BY <4>1, <4>2, <4>3, <3>1, <1>1, <1>2, CopyFrame
      <4> QED BY <4>1, <4>4, <2>1 DEF LoadInv
    <3> QED BY <3>3, <3>4
  <2>2. CASE copying[m].at \notin {"CopyData", "SaveEntry"}
    <3>1. CopyInv(m)'  BY <2>0, <2>2 DEF CopyInv
    <3>2. ASSUME copying[m].at = "Load" PROVE Registry'[copying[m].rec].owner = m
      <4>1. Registry[copying[m].rec].owner = m /\ copying[m].rec \in Records
        BY <3>2, <1>1, LoaderFacts DEF CopiesInv, LoadInv
      <4> QED BY <4>1, <1>4
    <3> QED BY <3>1, <3>2, <2>0 DEF LoadInv
  <2> QED BY <2>1, <2>2
<1>12. PromiseInv'  BY <1>1, <1>5, PromiseFrame
<1> QED BY <1>8, <1>9, <1>10, <1>11, <1>12 DEF CriticalInv, CopiesInv

LEMMA UpdateCritical ==
  ASSUME BaseInv, CriticalInv, NEW a \in Apps, NEW v \in Images, Update(a, v)
  PROVE  CriticalInv'
<1>1. PICK d, r : /\ d \in Descriptors /\ r = Handles[d].reg /\ MayCall(a) /\ Unlocked
                  /\ Handles[d].app = a /\ Registry[r].owner = a /\ Activates(r, NextBuffer(r), v)
                  /\ IF Registry[r].critical
                     THEN /\ op' = [at |-> "CopyData", app |-> a, rec |-> r, raced |-> Copiers(r) # {}]
                          /\ copying' = [m \in Apps |-> IF m \in Copiers(r)
                                                        THEN [copying[m] EXCEPT !.raced = TRUE]
                                                        ELSE copying[m]]
                          /\ Promise(Registry[r].name, may[Registry[r].name] \cup {v, None})
                     ELSE UNCHANGED <<op, may, copying>>
                  /\ UNCHANGED <<app, todo, Handles, Link, pool, storeVars, deleting>>
  BY DEF Update
<1>2. InCall(a, r)  BY <1>1, HandleInCall DEF MayCall
<1>3. r \in Records /\ Registry[r].used /\ Registry[r].name \in Names  BY <1>2, InCallFacts
<1>4. NextBuffer(r) \in 1..2  BY NextBufferType
<1>5. CASE Registry[r].critical
  <2>1. Races(r, [m \in Apps |-> IF m \in Copiers(r) THEN Raced(m) ELSE copying[m]])
    BY <1>3, RacesFacts
  <2>2. copying' = [m \in Apps |-> IF m \in Copiers(r) THEN Raced(m) ELSE copying[m]]
    BY <1>1, <1>5 DEF Raced
  <2>3. Races(r, copying')  BY <2>1, <2>2
  <2>4. op' = CallOf(a, r)  BY <1>1, <1>5 DEF CallOf
  <2> QED BY <2>3, <2>4, <1>1, <1>3, <1>4, <1>5, UpdateCriticalTable
<1>6. CASE ~Registry[r].critical
  <2>1. op.rec # r /\ op' = op /\ may' = may /\ copying' = copying
    BY <1>1, <1>3, <1>6, NoneApart DEF Unlocked, Idle
  <2> QED BY <2>1, <1>1, <1>3, <1>4, <1>6, ChangePlain
<1> QED BY <1>5, <1>6

LEMMA LoadFinishCritical ==
  ASSUME BaseInv, CriticalInv, NEW a \in Apps, NEW v \in Images, LoadFinish(a, v)
  PROVE  CriticalInv'
<1>1. PICK r : r = copying[a].rec  OBVIOUS
<1>2. /\ copying[a].at = "Load"
      /\ Activates(r, NextBuffer(r), v)
      /\ IF Registry[r].critical THEN CopiesNext(a, r, NextBuffer(r), v)
         ELSE copying' = [copying EXCEPT ![a] = NotCopying] /\ UNCHANGED may
      /\ UNCHANGED <<app, todo, Handles, Link, pool, storeVars, op, deleting>>
  BY <1>1 DEF LoadFinish
<1>3. r \in Records /\ Registry[r].name \in Names  BY <1>1, <1>2, LoaderFacts
<1>4. op.at # "Idle" => op.app # a  BY <1>2, CallFacts DEF NotCopying
<1>5. NextBuffer(r) \in 1..2  BY NextBufferType
<1>6. Registry[r].owner = a  BY <1>1, <1>2 DEF CriticalInv, CopiesInv, LoadInv
<1>7. op.rec # r
  <2>1. CASE op.at = "Idle"
    <3>1. op = Idle  BY <2>1 DEF BaseInv, RingsInv, CallsInv
    <3> QED BY <3>1, <1>3, NoneApart DEF Idle
  <2>2. CASE op.at \in {"RegisterCds", "SaveCrit"}
    BY <2>2, <1>1 DEF CriticalInv, RegistrationInv
  <2>3. CASE op.at \in {"CopyData", "SaveEntry"}
    <3>1. Registry[op.rec].owner = op.app  BY <2>3 DEF CriticalInv, CopiesInv, OpCopyInv
    <3> QED BY <3>1, <2>3, <1>4, <1>6
  <2> QED BY <2>1, <2>2, <2>3 DEF BaseInv, RingsInv, TypeOK, Call
<1>8. CASE Registry[r].critical
  BY <1>2, <1>3, <1>4, <1>5, <1>7, <1>8, ChangeCritical
<1>9. CASE ~Registry[r].critical
  BY <1>2, <1>3, <1>5, <1>7, <1>9, ChangePlain
<1> QED BY <1>8, <1>9

LEMMA ModifiedCritical ==
  ASSUME BaseInv, CriticalInv, NEW a \in Apps, NEW v \in Images, Modified(a, v)
  PROVE  CriticalInv'
<1>1. PICK d, r, b :
        /\ d \in Descriptors /\ r = Handles[d].reg /\ b = Registry[r].active
        /\ MayCall(a) /\ Unlocked
        /\ Handles[d].app = a /\ b # 0
        /\ Activates(r, b, v)
        /\ IF Registry[r].critical THEN CopiesNext(a, r, b, v) ELSE UNCHANGED <<copying, may>>
        /\ UNCHANGED <<app, todo, Handles, Link, pool, storeVars, op, deleting>>
  BY DEF Modified
<1>2. InCall(a, r)  BY <1>1, HandleInCall DEF MayCall
<1>3. r \in Records /\ Registry[r].name \in Names  BY <1>2, InCallFacts
<1>4. b \in 1..2  BY <1>1, <1>3 DEF BaseInv, RingsInv, TypeOK, Rec
<1>5. op.at = "Idle" /\ op.rec # r  BY <1>1, <1>3, NoneApart DEF Unlocked, Idle
<1>6. copying[a].at \notin {"CopyData", "SaveEntry"}  BY <1>1 DEF MayCall, NotCopying
<1>7. CASE Registry[r].critical
  BY <1>1, <1>3, <1>4, <1>5, <1>6, <1>7, ChangeCritical
<1>8. CASE ~Registry[r].critical
  BY <1>1, <1>3, <1>4, <1>5, <1>8, ChangePlain
<1> QED BY <1>7, <1>8

-----------------------------------------------------------------------------
(* Critical tables: registration                                           *)

LEMMA RecoveredType ==
  ASSUME BaseInv, NEW reg, NEW n \in Names
  PROVE  Recovered(reg, Cds[n]) \in Recovery
<1>1. Cds[n] \in Store  BY DEF BaseInv, RingsInv, TypeOK
<1> QED BY <1>1 DEF Recovered, Store, Recovery

LEMMA StoreFacts ==
  ASSUME BaseInv, NEW n \in Names
  PROVE  Cds[n].id \in 0..MaxStores /\ Cds[n].image \in Recovery /\ may[n] \in SUBSET Recovery
BY DEF BaseInv, RingsInv, TypeOK, Store

LEMMA WithEntryPoints ==
  ASSUME TypeOK, NEW r \in Records, NEW e \in 1..MaxCritical
  PROVE  /\ WithEntry(r)[e].loaded = CritReg[e].loaded
         /\ \/ WithEntry(r)[e].cds = CritReg[e].cds
            \/ CritReg[e].cds = 0 /\ WithEntry(r)[e].cds = Registry[r].cds
<1> DEFINE i == Info(CritReg, 0)
           R1 == [CritReg EXCEPT ![i].cds = Registry[r].cds]
<1>1. CritReg \in AllCrit  BY DEF TypeOK, AllCrit
<1>2. CASE i = 0  BY <1>1, <1>2 DEF WithEntry
<1>3. CASE i # 0
  <2>1. i \in 1..MaxCritical /\ CritReg[i].cds = 0  BY <1>1, <1>3, InfoFacts
  <2>2. WithEntry(r) = [R1 EXCEPT ![i].name = Registry[r].name]  BY <1>3 DEF WithEntry
  <2>3. /\ R1[i].cds = Registry[r].cds /\ R1[i].loaded = CritReg[i].loaded
        /\ \A j \in (1..MaxCritical) \ {i} : R1[j] = CritReg[j]
        /\ DOMAIN R1 = 1..MaxCritical /\ DOMAIN R1[i] = {"cds", "name", "loaded"}
    <3> HIDE DEF i
    <3> QED BY <1>1, <2>1 DEF AllCrit, Crit
  <2> HIDE DEF R1, i
  <2>4. WithEntry(r)[i].cds = Registry[r].cds /\ WithEntry(r)[i].loaded = CritReg[i].loaded
    BY <2>1, <2>2, <2>3
  <2>5. e # i => WithEntry(r)[e] = CritReg[e]  BY <2>2, <2>3
  <2> QED BY <2>1, <2>4, <2>5
<1> QED BY <1>2, <1>3

LEMMA WithEntryLoaded ==
  ASSUME BaseInv, NEW r \in Records, NEW id, id # 0, id # Registry[r].cds
  PROVE  LoadedOnce(WithEntry(r), id) <=> LoadedOnce(CritReg, id)
<1>1. TypeOK /\ CritReg \in AllCrit  BY CritTypes DEF BaseInv, RingsInv
<1>2. PICK N \in AllCrit : N = WithEntry(r)  BY <1>1, WithEntryType
<1>3. \A e \in 1..MaxCritical : /\ N[e].cds = id <=> CritReg[e].cds = id
                                /\ N[e].cds = id => N[e].loaded = CritReg[e].loaded
  BY <1>1, <1>2, WithEntryPoints
<1> QED BY <1>1, <1>2, <1>3, LoadedSame

(* A registration of its table leaves the copies of other tables alone.    *)
LEMMA RegistrationCopies ==
  ASSUME BaseInv, CriticalInv, op.at \in {"RegisterCds", "SaveCrit"}, NEW r \in Records, r = op.rec,
         Edited(Registry, Registry', r), copying' = copying, op'.rec \in {None, r},
         \A m \in Names : may[m] \subseteq may'[m],
         \A m \in Names \ {Registry[r].name} : Cds'[m] = Cds[m]
  PROVE  \A a \in Apps : CopyInv(a)' /\ LoadInv(a)'
<1> SUFFICES ASSUME NEW a \in Apps PROVE CopyInv(a)' /\ LoadInv(a)'  OBVIOUS
<1>1. CopiesInv /\ copying[a].rec # r  BY DEF CriticalInv, RegistrationInv
<1>2. Registry[r].name \in Names  BY OpFacts
<1>3. CASE copying[a].at \in {"CopyData", "SaveEntry"}
  <2>1. PICK s \in Records : s = copying[a].rec  BY <1>3, CopierFacts
  <2>2. s # r /\ Registry[s].name \in Names  BY <1>1, <1>3, <2>1, CopierFacts
  <2>3. Registry[s].name # Registry[r].name  BY <1>2, <2>2, NamesApart
  <2>4. SameImage(s)  BY <2>2 DEF SameImage, Edited
  <2>5. Copiers(s)' = Copiers(s)  BY DEF Copiers
  <2>6. op'.rec # s  BY <2>2, NoneApart
  <2>7. Cds'[Registry[s].name] = Cds[Registry[s].name] /\ may[Registry[s].name] \subseteq may'[Registry[s].name]
    BY <2>2, <2>3
  <2>8. CopyInv(a)'  BY <1>1, <1>3, <2>1, <2>4, <2>5, <2>6, <2>7, CopyFrame
  <2> QED BY <2>8, <1>3 DEF LoadInv
<1>4. CASE copying[a].at \notin {"CopyData", "SaveEntry"}
  <2>1. CopyInv(a)'  BY <1>4 DEF CopyInv
  <2>2. ASSUME copying[a].at = "Load" PROVE Registry'[copying[a].rec].owner = a
    <3>1. Registry[copying[a].rec].owner = a /\ copying[a].rec \in Records
      BY <2>2, <1>1, LoaderFacts DEF CopiesInv, LoadInv
    <3> QED BY <3>1 DEF Edited
  <2> QED BY <2>1, <2>2 DEF LoadInv
<1> QED BY <1>3, <1>4

LEMMA NewStoreCritical ==
  ASSUME BaseInv, CriticalInv, op.at = "RegisterCds", NEW r \in Records, r = op.rec,
         NEW n \in Names, n = Registry[r].name, NEW id \in 1..MaxStores, NEW image \in Recovery,
         NewStoreGot(r, n, id, image), UNCHANGED <<CritReg, SavedCritReg, copying>>
  PROVE  CriticalInv'
<1>0. StoresInv /\ RegistrationInv /\ CopiesInv /\ PromiseInv /\ TypeOK  BY DEF CriticalInv, BaseInv, RingsInv
<1>1. /\ Cds[n].id = 0 /\ id # 0 /\ \A m \in Names : Cds[m].id # id
      /\ Edited(Registry, Registry', r) /\ Registry'[r].cds = id /\ Registry'[r].critical = Registry[r].critical
      /\ Registry'[r].active = Registry[r].active
  BY DEF NewStoreGot
<1>2. PICK store \in Store : store = [id |-> id, image |-> image]
  <2>1. id \in 0..MaxStores  BY BoundAssumption
  <2> QED BY <2>1 DEF Store
<1>3. Cds'[n] = store /\ \A m \in Names \ {n} : Cds'[m] = Cds[m]  BY <1>0, <1>2 DEF NewStoreGot, TypeOK
<1>4. store.id = id /\ store.image = image  BY <1>2
<1>5. op'.at = "SaveCrit" /\ op'.rec = r  BY <1>0 DEF NewStoreGot, TypeOK, Call
<1>6. Registry'[r].name = n /\ \A s \in Records \ {r} : Registry'[s] = Registry[s]  BY <1>1 DEF Edited
<1>7. /\ \A m \in Names \ {n} : may'[m] = may[m]
      /\ may'[n] = IF LoadedOnce(CritReg, id) \/ LoadedOnce(SavedCritReg, id) THEN Recovery ELSE may[n]
  BY <1>0 DEF NewStoreGot, TypeOK
<1>8. \A m \in Names : may[m] \subseteq may'[m]  BY <1>7, StoreFacts
<1>9. None \in may[n]  BY <1>0, <1>1 DEF PromiseInv, Recovered
<1>10. StoresInv'
  <2>1. ASSUME NEW s \in Records, Registry'[s].critical
        PROVE  /\ Registry'[s].name # None
               /\ Registry'[s].cds = Cds'[Registry'[s].name].id /\ Registry'[s].cds # 0
    <3>1. s # r  BY <2>1, <1>0, <1>1 DEF RegistrationInv
    <3>2. Registry[s].name # None /\ Registry[s].cds = Cds[Registry[s].name].id /\ Registry[s].cds # 0
      BY <3>1, <2>1, <1>0, <1>6 DEF StoresInv
    <3>3. Registry[s].name \in Names \ {n}  BY <3>2, <1>0, <1>1 DEF TypeOK, Rec
    <3> QED BY <3>1, <3>2, <3>3, <1>3, <1>6
  <2>2. ASSUME NEW l \in Names, NEW m \in Names, Cds'[l].id = Cds'[m].id, Cds'[l].id # 0 PROVE l = m
    BY <2>2, <1>0, <1>1, <1>3, <1>4 DEF StoresInv
  <2> QED BY <2>1, <2>2 DEF StoresInv
<1>11. RegistrationInv'
  <2>1. Registry'[r].active = 0 /\ \A a \in Apps : copying'[a].rec # r  BY <1>0, <1>1 DEF RegistrationInv
  <2>2. Registry'[r].cds = Cds'[n].id /\ Cds'[n].id # 0 /\ None \in may'[n]
    BY <1>1, <1>3, <1>4, <1>8, <1>9
  <2> QED BY <2>1, <2>2, <1>5, <1>6 DEF RegistrationInv
<1>12. OpCopyInv'  BY <1>5 DEF OpCopyInv
<1>13. \A a \in Apps : CopyInv(a)' /\ LoadInv(a)'  BY <1>1, <1>3, <1>5, <1>8, RegistrationCopies
<1>14. PromiseInv'
  <2>1. ASSUME NEW m \in Names \ {n}
        PROVE  {Recovered(CritReg', Cds'[m]), Recovered(SavedCritReg', Cds'[m])} \subseteq may'[m]
    BY <1>0, <1>3, <1>7 DEF PromiseInv
  <2>2. {Recovered(CritReg, store), Recovered(SavedCritReg, store)} \subseteq may'[n]
    BY <1>1, <1>4, <1>7, <1>9 DEF Recovered, Recovery
  <2> QED BY <2>1, <2>2, <1>3 DEF PromiseInv
<1> QED BY <1>10, <1>11, <1>12, <1>13, <1>14 DEF CriticalInv, CopiesInv

LEMMA RegisterCdsCritical ==
  ASSUME BaseInv, CriticalInv, RegisterCds
  PROVE  CriticalInv'
<1>0. StoresInv /\ RegistrationInv /\ CopiesInv /\ PromiseInv /\ TypeOK  BY DEF CriticalInv, BaseInv, RingsInv
<1>1. op.at = "RegisterCds" /\ UNCHANGED <<CritReg, SavedCritReg, copying>>  BY DEF RegisterCds
<1>2. PICK r \in Records : r = op.rec  BY <1>1, OpFacts
<1>3. PICK n \in Names : n = Registry[r].name  BY <1>1, <1>2, OpFacts
<1>4. \/ NoStoreGot(n)
      \/ \E id \in 1..MaxStores, image \in Recovery : NewStoreGot(r, n, id, image)
      \/ ImageRecovered(r, n)
      \/ NothingRecovered(r, n)
  BY <1>0, <1>2, <1>3, RegisterCdsEnds
<1>5. CASE NoStoreGot(n)
  <2>1. \A s : SameImage(s)  BY <1>5 DEF NoStoreGot, SameImage
  <2>2. op' = Idle /\ Registry' = Registry /\ UNCHANGED storeVars /\ may' = may
    BY <1>1, <1>5 DEF NoStoreGot, storeVars
  <2> QED BY <2>1, <2>2, <1>1, QuietCritical
<1>6. CASE \E id \in 1..MaxStores, image \in Recovery : NewStoreGot(r, n, id, image)
  BY <1>1, <1>2, <1>3, <1>6, NewStoreCritical
<1>7. CASE ImageRecovered(r, n) \/ NothingRecovered(r, n)
  <2>1. /\ Cds[n].id # 0 /\ Edited(Registry, Registry', r) /\ Registry'[r].cds = Cds[n].id
        /\ Cds' = Cds /\ may' = may
        /\ op' = Idle \/ op' = [op EXCEPT !.at = "SaveCrit"]
    BY <1>7 DEF ImageRecovered, NothingRecovered
  <2>2. Registry'[r].name = n /\ \A s \in Records \ {r} : Registry'[s] = Registry[s]  BY <2>1, <1>3 DEF Edited
  <2>3. op' = Idle \/ (op'.at = "SaveCrit" /\ op'.rec = r)  BY <2>1, <1>0, <1>2 DEF TypeOK, Call
  <2>4. StoresInv'
    <3>1. ASSUME NEW s \in Records, Registry'[s].critical
          PROVE  /\ Registry'[s].name # None
                 /\ Registry'[s].cds = Cds'[Registry'[s].name].id /\ Registry'[s].cds # 0
      <4>1. CASE s = r  BY <4>1, <2>1, <2>2, NoneApart
      <4>2. CASE s # r  BY <4>2, <3>1, <2>1, <2>2, <1>0 DEF StoresInv
      <4> QED BY <4>1, <4>2
    <3> QED BY <3>1, <2>1, <1>0 DEF StoresInv
  <2>5. RegistrationInv'
    <3>1. CASE op' = Idle  BY <3>1 DEF RegistrationInv, Idle
    <3>2. CASE op' # Idle
      <4>1. NothingRecovered(r, n)  BY <1>7, <3>2 DEF ImageRecovered
      <4>2. Recovered(CritReg, Cds[n]) = None  BY <4>1 DEF NothingRecovered, Recovered
      <4>3. None \in may[n]  BY <4>2, <1>0 DEF PromiseInv
      <4>4. Registry'[r].active = 0 /\ \A a \in Apps : copying'[a].rec # r
        BY <4>1, <1>0, <1>1, <1>2 DEF RegistrationInv, NothingRecovered
      <4> QED BY <4>3, <4>4, <3>2, <2>1, <2>2, <2>3 DEF RegistrationInv
    <3> QED BY <3>1, <3>2
  <2>6. OpCopyInv'  BY <2>3 DEF OpCopyInv, Idle
  <2>7. op'.rec \in {None, r}  BY <2>3 DEF Idle
  <2>8. \A a \in Apps : CopyInv(a)' /\ LoadInv(a)'  BY <1>1, <1>2, <2>1, <2>7, RegistrationCopies
  <2>9. PromiseInv'  BY <1>0, <1>1, <2>1 DEF PromiseInv
  <2> QED BY <2>4, <2>5, <2>6, <2>8, <2>9 DEF CriticalInv, CopiesInv
<1> QED BY <1>4, <1>5, <1>6, <1>7

LEMMA RegisterWithCritical ==
  ASSUME BaseInv, CriticalInv, RegisterWithCriticalTableRegistry
  PROVE  CriticalInv'
<1>0. StoresInv /\ RegistrationInv /\ CopiesInv /\ PromiseInv /\ TypeOK  BY DEF CriticalInv, BaseInv, RingsInv
<1>1. op.at = "SaveCrit"  BY DEF RegisterWithCriticalTableRegistry
<1>2. PICK r \in Records : r = op.rec  BY <1>1, OpFacts
<1>3. PICK n \in Names : n = Registry[r].name  BY <1>1, <1>2, OpFacts
<1>4. /\ CritReg' = WithEntry(r)
      /\ SavedCritReg' = SavedCritReg \/ SavedCritReg' = CritReg'
      /\ Registry' = SetCritical(Registry, r)
      /\ may' = IF LoadedOnce(CritReg', Registry[r].cds) THEN [may EXCEPT ![n] = Recovery] ELSE may
      /\ op' = Idle
      /\ UNCHANGED <<Cds, copying>>
  BY <1>2, <1>3 DEF RegisterWithCriticalTableRegistry, SetCritical
<1>5. Edited(Registry, Registry', r) /\ Registry'[r].cds = Registry[r].cds
  <2>1. Registry \in [Records -> Rec]  BY <1>0 DEF TypeOK
  <2> QED BY <2>1, <1>4, EditCritical
<1>6. Registry[r].cds = Cds[n].id /\ Cds[n].id # 0 /\ None \in may[n]
  BY <1>0, <1>1, <1>2, <1>3 DEF RegistrationInv
<1>7. /\ \A m \in Names \ {n} : may'[m] = may[m]
      /\ may'[n] = IF LoadedOnce(CritReg', Cds[n].id) THEN Recovery ELSE may[n]
  BY <1>0, <1>4, <1>6 DEF TypeOK
<1>8. \A m \in Names : may[m] \subseteq may'[m]  BY <1>7, StoreFacts
<1>9. Registry'[r].name = n /\ \A s \in Records \ {r} : Registry'[s] = Registry[s]  BY <1>3, <1>5 DEF Edited
<1>10. StoresInv'
  <2>1. ASSUME NEW s \in Records, Registry'[s].critical
        PROVE  /\ Registry'[s].name # None
               /\ Registry'[s].cds = Cds'[Registry'[s].name].id /\ Registry'[s].cds # 0
    <3>1. CASE s = r  BY <3>1, <1>4, <1>5, <1>6, <1>9, NoneApart
    <3>2. CASE s # r  BY <3>2, <2>1, <1>0, <1>4, <1>9 DEF StoresInv
    <3> QED BY <3>1, <3>2
  <2> QED BY <2>1, <1>0, <1>4 DEF StoresInv
<1>11. RegistrationInv' /\ OpCopyInv'  BY <1>4 DEF RegistrationInv, OpCopyInv, Idle
<1>12. op'.rec \in {None, r}  BY <1>4 DEF Idle
<1>13. \A a \in Apps : CopyInv(a)' /\ LoadInv(a)'
  BY <1>1, <1>2, <1>4, <1>5, <1>8, <1>12, RegistrationCopies
<1>14. ASSUME NEW m \in Names PROVE Recovered(CritReg', Cds[m]) \in may'[m]
  <2>1. CASE m = n
    BY <2>1, <1>6, <1>7, RecoveredType DEF Recovered
  <2>2. CASE m # n
    <3>1. Cds[m].id # 0 => Cds[m].id # Registry[r].cds  BY <2>2, <1>0, <1>6 DEF StoresInv
    <3>2. Cds[m].id # 0 => (LoadedOnce(CritReg', Cds[m].id) <=> LoadedOnce(CritReg, Cds[m].id))
      BY <3>1, <1>4, WithEntryLoaded
    <3>3. Recovered(CritReg', Cds[m]) = Recovered(CritReg, Cds[m])  BY <3>2 DEF Recovered
    <3> QED BY <2>2, <3>3, <1>0, <1>7 DEF PromiseInv
  <2> QED BY <2>1, <2>2
<1>15. ASSUME NEW m \in Names PROVE Recovered(SavedCritReg', Cds[m]) \in may'[m]
  BY <1>0, <1>4, <1>8, <1>14 DEF PromiseInv
<1>16. PromiseInv'  BY <1>4, <1>14, <1>15 DEF PromiseInv
<1> QED BY <1>10, <1>11, <1>13, <1>16 DEF CriticalInv, CopiesInv

-----------------------------------------------------------------------------
(* Critical tables: copies to the store                                    *)

(* An image that is promised comes into the store of name n.               *)
LEMMA StoredPromise ==
  ASSUME PromiseInv, NEW n \in Names, UNCHANGED <<CritReg, SavedCritReg, may>>,
         Cds'[n].id = Cds[n].id, Cds'[n].image \in may[n], None \in may[n],
         \A m \in Names \ {n} : Cds'[m] = Cds[m]
  PROVE  PromiseInv'
<1> SUFFICES ASSUME NEW m \in Names
             PROVE  {Recovered(CritReg, Cds'[m]), Recovered(SavedCritReg, Cds'[m])} \subseteq may[m]
  BY DEF PromiseInv
<1>1. CASE m = n  BY <1>1 DEF Recovered
<1>2. CASE m # n  BY <1>2 DEF PromiseInv
<1> QED BY <1>1, <1>2

(* The copies of other records go on when one of record r is stored.       *)
LEMMA OtherCopies ==
  ASSUME BaseInv, CriticalInv, NEW r \in Records, Registry[r].name \in Names, Registry' = Registry,
         \A m \in Names \ {Registry[r].name} : Cds'[m] = Cds[m] /\ may[m] \subseteq may'[m],
         NEW m \in Apps, copying'[m] = copying[m],
         copying[m].at \in {"CopyData", "SaveEntry"} /\ copying[m].rec = r =>
           copying[m].raced /\ may[Registry[r].name] \subseteq may'[Registry[r].name],
         \A s \in Records \ {r} : Copiers(s)' = Copiers(s),
         op' = Idle \/ op'.rec = op.rec
  PROVE  CopyInv(m)' /\ LoadInv(m)'
<1>1. CopiesInv  BY DEF CriticalInv
<1>2. CASE copying[m].at \in {"CopyData", "SaveEntry"}
  <2>1. PICK s \in Records : s = copying[m].rec /\ Registry[s].name \in Names  BY <1>2, CopierFacts
  <2>2. SameImage(s)  BY DEF SameImage
  <2>3. ~copying[m].raced => op.rec # s  BY <1>1, <1>2, <2>1 DEF CopiesInv, CopyInv
  <2>4. ~copying[m].raced => op'.rec # s  BY <2>1, <2>3, NoneApart DEF Idle
  <2>5. CASE s = r
    <3>1. CopyInv(m)'  BY <1>1, <1>2, <2>1, <2>2, <2>5, CopyFrame
    <3> QED BY <3>1, <1>2 DEF LoadInv
  <2>6. CASE s # r
    <3>1. Registry[s].name # Registry[r].name  BY <2>1, <2>6, NamesApart
    <3>2. Cds'[Registry[s].name] = Cds[Registry[s].name] /\ may[Registry[s].name] \subseteq may'[Registry[s].name]
      BY <3>1, <2>1
    <3>3. Copiers(s)' = Copiers(s)  BY <2>6
    <3>4. CopyInv(m)'  BY <1>1, <1>2, <2>1, <2>2, <2>4, <3>2, <3>3, CopyFrame
    <3> QED BY <3>4, <1>2 DEF LoadInv
  <2> QED BY <2>5, <2>6
<1>3. CASE copying[m].at \notin {"CopyData", "SaveEntry"}
  BY <1>1, <1>3 DEF CopyInv, LoadInv, CopiesInv
<1> QED BY <1>2, <1>3

LEMMA StoresSame ==
  ASSUME StoresInv, BaseInv, Registry' = Registry, \A n \in Names : Cds'[n].id = Cds[n].id
  PROVE  StoresInv'
BY StoresFrame

LEMMA UpdateCDSCritical ==
  ASSUME BaseInv, CriticalInv, UpdateCDS
  PROVE  CriticalInv'
<1>0. StoresInv /\ RegistrationInv /\ CopiesInv /\ PromiseInv /\ TypeOK  BY DEF CriticalInv, BaseInv, RingsInv
<1>1. /\ op.at = "CopyData" /\ CopyData(op.rec, Registry[op.rec].active)
      /\ op' = [op EXCEPT !.at = "SaveEntry"] /\ Registry' = Registry
      /\ UNCHANGED <<CritReg, SavedCritReg, copying, may>>
  BY DEF UpdateCDS, handleVars
<1>2. PICK r \in Records : r = op.rec /\ Registry[r].active \in 1..2  BY <1>1, OpFacts
<1>3. PICK n \in Names : n = Registry[r].name  BY <1>1, <1>2, OpFacts
<1>4. PICK b \in 1..2 : b = Registry[r].active  BY <1>2
<1>5. /\ Cds'[n].image = Active(r) /\ Cds'[n].id = Cds[n].id
      /\ \A m \in Names \ {n} : Cds'[m] = Cds[m]
  <2>1. CopyData(r, b)  BY <1>1, <1>2, <1>4
  <2> QED BY <2>1, <1>0, <1>3, <1>4, CopyDataFacts DEF Active
<1>6. /\ Registry[r].critical /\ Registry[r].owner = op.app /\ {None, Active(r)} \subseteq may[n]
      /\ ~op.raced => Copiers(r) = {}
  BY <1>0, <1>1, <1>2, <1>3 DEF CopiesInv, OpCopyInv
<1>7. op'.at = "SaveEntry" /\ op'.rec = r /\ op'.app = op.app /\ op'.raced = op.raced
  BY <1>0, <1>1, <1>2 DEF TypeOK, Call
<1>8. \A s : Copiers(s)' = Copiers(s)  BY <1>1 DEF Copiers
<1>9. StoresInv'  BY <1>0, <1>1, <1>5, StoresSame
<1>10. RegistrationInv'  BY <1>7 DEF RegistrationInv
<1>11. OpCopyInv'
  <2>1. Active(op.rec)' = Active(r) /\ Copiers(op.rec)' = Copiers(r)
    BY <1>1, <1>7 DEF Active, Copiers
  <2> QED BY <2>1, <1>1, <1>3, <1>5, <1>6, <1>7 DEF OpCopyInv
<1>12. ASSUME NEW m \in Apps PROVE CopyInv(m)' /\ LoadInv(m)'
  <2>1. copying[m].at \in {"CopyData", "SaveEntry"} /\ copying[m].rec = r => copying[m].raced
    BY <1>0, <1>2 DEF CopiesInv, CopyInv
  <2> QED BY <2>1, <1>1, <1>2, <1>3, <1>5, <1>7, <1>8, OtherCopies
<1>13. PromiseInv'  BY <1>0, <1>1, <1>5, <1>6, StoredPromise
<1> QED BY <1>9, <1>10, <1>11, <1>12, <1>13 DEF CriticalInv, CopiesInv

LEMMA CopyUnlockedCritical ==
  ASSUME BaseInv, CriticalInv, NEW a \in Apps, CopyUnlocked(a)
  PROVE  CriticalInv'
<1>0. StoresInv /\ RegistrationInv /\ CopiesInv /\ PromiseInv /\ TypeOK  BY DEF CriticalInv, BaseInv, RingsInv
<1>1. /\ copying[a].at = "CopyData" /\ copying' = [copying EXCEPT ![a].at = "SaveEntry"]
      /\ Registry' = Registry
      /\ UNCHANGED <<CritReg, SavedCritReg, op, may>>
  BY DEF CopyUnlocked, handleVars
<1>2. PICK r \in Records : r = copying[a].rec /\ Registry[r].active \in 1..2 /\ copying[a].buf \in 1..2
  BY <1>1, CopierFacts
<1>3. PICK n \in Names : n = Registry[r].name  BY <1>1, <1>2, CopierFacts
<1>4. PICK b \in 1..2 : b \in {copying[a].buf, Registry[r].active} /\ CopyData(r, b)
  BY <1>2 DEF CopyUnlocked
<1>5. /\ Cds'[n].image = Registry[r].buffer[b] /\ Cds'[n].id = Cds[n].id
      /\ \A m \in Names \ {n} : Cds'[m] = Cds[m]
  BY <1>0, <1>3, <1>4, CopyDataFacts
<1>6. /\ Registry[r].critical
      /\ {None, Active(r), Registry[r].buffer[copying[a].buf]} \subseteq may[n]
      /\ ~copying[a].raced => Copiers(r) = {a} /\ op.rec # r /\ copying[a].buf = Registry[r].active
  BY <1>0, <1>1, <1>2, <1>3 DEF CopiesInv, CopyInv
<1>7. Cds'[n].image \in may[n] /\ (~copying[a].raced => Cds'[n].image = Active(r))
  BY <1>4, <1>5, <1>6 DEF Active
<1>8. /\ copying'[a].at = "SaveEntry" /\ copying'[a].rec = r /\ copying'[a].raced = copying[a].raced
      /\ \A m \in Apps \ {a} : copying'[m] = copying[m]
  BY <1>0, <1>1, <1>2 DEF TypeOK, Copy
<1>9. ASSUME NEW s PROVE Copiers(s)' = Copiers(s)
  BY <1>1, <1>2, <1>8 DEF Copiers
<1>10. StoresInv'
  <2>1. \A m \in Names : Cds'[m].id = Cds[m].id  BY <1>5
  <2> QED BY <2>1, <1>0, <1>1, StoresSame
<1>11. RegistrationInv'
  <2>1. \A m \in Names : Cds'[m].id = Cds[m].id  BY <1>5
  <2>2. op.at \in {"RegisterCds", "SaveCrit"} => \A m \in Apps : copying'[m].rec # op.rec
    BY <1>0, <1>2, <1>8 DEF RegistrationInv
  <2> QED BY <2>1, <2>2, <1>0, <1>1, RegistrationFrame
<1>12. OpCopyInv'
  <2>1. ASSUME op.at \in {"CopyData", "SaveEntry"}
        PROVE  ~op.raced => Cds'[Registry[op.rec].name].image = Cds[Registry[op.rec].name].image
    <3> SUFFICES ASSUME ~op.raced PROVE Cds'[Registry[op.rec].name] = Cds[Registry[op.rec].name]  OBVIOUS
    <3>1. Copiers(op.rec) = {} /\ a \in Copiers(r)  BY <2>1, <1>0, <1>1, <1>2 DEF CopiesInv, OpCopyInv, Copiers
    <3>2. op.rec # r /\ op.rec \in Records /\ Registry[op.rec].name \in Names  BY <3>1, <2>1, OpFacts
    <3>3. Registry[op.rec].name # n  BY <3>2, <1>3, NamesApart
    <3> QED BY <3>2, <3>3, <1>5
  <2>2. SameImage(op.rec) /\ Registry'[op.rec].owner = Registry[op.rec].owner  BY <1>1 DEF SameImage
  <2>3. Copiers(op.rec)' = Copiers(op.rec)
    <3>1. PICK s : s = op.rec  OBVIOUS
    <3>2. Copiers(s)' = Copiers(s)  BY <1>9
    <3> QED BY <3>1, <3>2, <1>1 DEF Copiers
  <2> QED BY <2>1, <2>2, <2>3, <1>0, <1>1, OpFrame
<1>13. CopyInv(a)' /\ LoadInv(a)'
  <2>1. Active(copying[a].rec)' = Active(r) /\ Copiers(copying[a].rec)' = Copiers(r)
    <3>1. Copiers(copying[a].rec)' = Copiers(r)'  BY <1>8 DEF Copiers
    <3> QED BY <3>1, <1>1, <1>8, <1>9 DEF Active
  <2> QED BY <2>1, <1>1, <1>3, <1>6, <1>7, <1>8 DEF CopyInv, LoadInv
<1>14. ASSUME NEW m \in Apps \ {a} PROVE CopyInv(m)' /\ LoadInv(m)'
  <2>1. copying[m].at \in {"CopyData", "SaveEntry"} /\ copying[m].rec = r => copying[m].raced
    <3>1. a \in Copiers(r)  BY <1>1, <1>2 DEF Copiers
    <3> QED BY <3>1, <1>0 DEF CopiesInv, CopyInv
  <2> QED BY <2>1, <1>1, <1>3, <1>5, <1>8, <1>9, OtherCopies
<1>15. PromiseInv'  BY <1>0, <1>1, <1>5, <1>6, <1>7, StoredPromise
<1> QED BY <1>10, <1>11, <1>12, <1>13, <1>14, <1>15 DEF CriticalInv, CopiesInv

(* When the entry of record r is marked, only what is recovered for its    *)
(* table changes.                                                          *)
LEMMA SaveEntryFacts ==
  ASSUME BaseInv, StoresInv, NEW r \in Records, SaveEntry(r)
  PROVE  /\ \A id : id # Registry[r].cds => (LoadedOnce(CritReg', id) <=> LoadedOnce(CritReg, id))
         /\ Info(CritReg, Registry[r].cds) # 0 =>
              SavedCritReg' = CritReg' /\ LoadedOnce(CritReg', Registry[r].cds)
         /\ Info(CritReg, Registry[r].cds) = 0 =>
              SavedCritReg' = SavedCritReg /\ CritReg' = CritReg /\ ~LoadedOnce(CritReg, Registry[r].cds)
<1> DEFINE k == Registry[r].cds
           e == Info(CritReg, k)
<1>1. CritReg \in AllCrit /\ TypeOK  BY CritTypes DEF BaseInv, RingsInv
<1>2. PICK R \in AllCrit : R = CritReg'  BY <1>1, SaveEntryType
<1>3. /\ e = 0 => CritReg' = CritReg /\ SavedCritReg' = SavedCritReg
      /\ e # 0 => CritReg' = [CritReg EXCEPT ![e].loaded = TRUE] /\ SavedCritReg' = CritReg'
  BY DEF SaveEntry
<1>4. CASE e = 0  BY <1>3, <1>4 DEF LoadedOnce
<1>5. CASE e # 0
  <2>1. e \in 1..MaxCritical /\ CritReg[e].cds = k  BY <1>1, <1>5, InfoFacts
  <2>2. /\ R[e].cds = k /\ R[e].loaded = TRUE
        /\ \A j \in 1..MaxCritical : R[j].cds = CritReg[j].cds /\ (j # e => R[j].loaded = CritReg[j].loaded)
    <3>1. R = [CritReg EXCEPT ![e].loaded = TRUE]  BY <1>2, <1>3, <1>5
    <3> HIDE DEF e, k
    <3> QED BY <3>1, <2>1, <1>1 DEF AllCrit, Crit
  <2>3. ASSUME NEW id, id # k PROVE LoadedOnce(R, id) <=> LoadedOnce(CritReg, id)
    <3>1. \A j \in 1..MaxCritical : /\ R[j].cds = id <=> CritReg[j].cds = id
                                    /\ R[j].cds = id => R[j].loaded = CritReg[j].loaded
      BY <2>2, <2>3
    <3> HIDE DEF e, k
    <3> QED BY <3>1, <1>1, LoadedSame
  <2>4. LoadedOnce(R, k)
    <3>1. {j \in 1..MaxCritical : R[j].cds = k} = {j \in 1..MaxCritical : CritReg[j].cds = k}  BY <2>2
    <3>2. Info(R, k) = e  BY <3>1 DEF Info
    <3> QED BY <3>2, <2>1, <2>2, <1>5 DEF LoadedOnce
  <2>5. \A id : id # k => (LoadedOnce(CritReg', id) <=> LoadedOnce(CritReg, id))  BY <2>3, <1>2
  <2>6. LoadedOnce(CritReg', k) /\ SavedCritReg' = CritReg'  BY <2>4, <1>2, <1>3, <1>5
  <2> QED BY <1>5, <2>5, <2>6
<1> QED BY <1>4, <1>5

\* What a copy of record r promises when it is done.
PromiseOf(r, raced) == IF raced THEN Recovery ELSE Kept(r)

LEMMA SaveEntryPromise ==
  ASSUME BaseInv, CriticalInv, NEW r \in Records, NEW n \in Names, n = Registry[r].name, Registry[r].critical,
         Registry[r].active # 0, SaveEntry(r), Cds' = Cds, NEW raced,
         Promise(n, PromiseOf(r, raced)),
         ~raced => Cds[n].image = Active(r)
  PROVE  /\ PromiseInv' /\ \A m \in Names \ {n} : may'[m] = may[m]
         /\ raced => may[n] \subseteq may'[n]
<1>1. StoresInv /\ PromiseInv /\ TypeOK  BY DEF CriticalInv, BaseInv, RingsInv
<1>2. Registry[r].cds = Cds[n].id /\ Cds[n].id # 0  BY <1>1 DEF StoresInv
<1>3. Kept(r) \in SUBSET Recovery  BY <1>1, KeptType
<1>4. PICK images \in SUBSET Recovery : images = PromiseOf(r, raced)  BY <1>3 DEF PromiseOf
<1>5. may'[n] = images /\ \A m \in Names \ {n} : may'[m] = may[m]
  <2>1. Promise(n, images)  BY <1>4
  <2> QED BY <2>1, <1>1, PromiseFacts
<1>6. raced => may[n] \subseteq may'[n]  BY <1>4, <1>5, StoreFacts DEF PromiseOf
<1>7. PICK k : k = Registry[r].cds  OBVIOUS
<1>8. /\ \A id : id # k => (LoadedOnce(CritReg', id) <=> LoadedOnce(CritReg, id))
      /\ Info(CritReg, k) # 0 => SavedCritReg' = CritReg' /\ LoadedOnce(CritReg', k)
      /\ Info(CritReg, k) = 0 => SavedCritReg' = SavedCritReg /\ CritReg' = CritReg /\ ~LoadedOnce(CritReg, k)
  BY <1>1, <1>7, SaveEntryFacts
<1>9. ASSUME NEW m \in Names \ {n}
      PROVE  {Recovered(CritReg', Cds[m]), Recovered(SavedCritReg', Cds[m])} \subseteq may'[m]
  <2>1. Cds[m].id # 0 => Cds[m].id # k  BY <1>1, <1>2, <1>7 DEF StoresInv
  <2>2. Recovered(CritReg', Cds[m]) = Recovered(CritReg, Cds[m])  BY <2>1, <1>8 DEF Recovered
  <2>3. SavedCritReg' = SavedCritReg \/ SavedCritReg' = CritReg'  BY <1>8
  <2> QED BY <2>2, <2>3, <1>1, <1>5 DEF PromiseInv
<1>10. {Recovered(CritReg', Cds[n]), Recovered(SavedCritReg', Cds[n])} \subseteq may'[n]
  <2>1. CASE raced
    <3>1. may'[n] = Recovery  BY <2>1, <1>4, <1>5 DEF PromiseOf
    <3> QED BY <3>1, RecoveredType
  <2>2. CASE ~raced
    <3>1. may'[n] = Kept(r)  BY <2>2, <1>4, <1>5 DEF PromiseOf
    <3>2. CASE Info(CritReg, k) # 0
      <4>1. Kept(r) = {Active(r)}  BY <3>2, <1>7 DEF Kept, Active
      <4>2. Recovered(CritReg', Cds[n]) = Active(r) /\ SavedCritReg' = CritReg'
        BY <3>2, <2>2, <1>2, <1>7, <1>8 DEF Recovered
      <4> QED BY <3>1, <4>1, <4>2
    <3>3. CASE Info(CritReg, k) = 0
      <4>1. Recovered(CritReg', Cds[n]) = None  BY <3>3, <1>2, <1>7, <1>8 DEF Recovered
      <4>2. SavedCritReg' = SavedCritReg  BY <3>3, <1>8
      <4>3. CASE LoadedOnce(SavedCritReg, k)
        <5>1. Kept(r) = Recovery  BY <4>3, <3>3, <1>7 DEF Kept
        <5> QED BY <5>1, <3>1, RecoveredType
      <4>4. CASE ~LoadedOnce(SavedCritReg, k)
        <5>1. Kept(r) = {None}  BY <4>4, <3>3, <1>7 DEF Kept
        <5>2. Recovered(SavedCritReg, Cds[n]) = None  BY <4>4, <1>2, <1>7 DEF Recovered
        <5> QED BY <5>1, <5>2, <4>1, <4>2, <3>1
      <4> QED BY <4>3, <4>4
    <3> QED BY <3>2, <3>3
  <2> QED BY <2>1, <2>2
<1>11. PromiseInv'  BY <1>9, <1>10 DEF PromiseInv
<1> QED BY <1>5, <1>6, <1>11

LEMMA UpdateCritRegCritical ==
  ASSUME BaseInv, CriticalInv, UpdateCritReg
  PROVE  CriticalInv'
<1>0. StoresInv /\ RegistrationInv /\ CopiesInv /\ PromiseInv /\ TypeOK  BY DEF CriticalInv, BaseInv, RingsInv
<1>1. /\ op.at = "SaveEntry" /\ SaveEntry(op.rec) /\ op' = Idle
      /\ Promise(Registry[op.rec].name, PromiseOf(op.rec, op.raced))
      /\ Registry' = Registry
      /\ UNCHANGED <<Cds, copying, deleting>>
  BY DEF UpdateCritReg, handleVars, PromiseOf
<1>2. PICK r \in Records : r = op.rec /\ Registry[r].active \in 1..2  BY <1>1, OpFacts
<1>3. PICK n \in Names : n = Registry[r].name  BY <1>1, <1>2, OpFacts
<1>4. Registry[r].critical /\ (~op.raced => Cds[n].image = Active(r))
  BY <1>0, <1>1, <1>2, <1>3 DEF CopiesInv, OpCopyInv
<1>5. SaveEntry(r) /\ Promise(n, PromiseOf(r, op.raced)) /\ Registry[r].active # 0  BY <1>1, <1>2, <1>3
<1>6. PromiseInv' /\ \A m \in Names \ {n} : may'[m] = may[m]
  BY <1>1, <1>3, <1>4, <1>5, SaveEntryPromise
<1>7. op.raced => may[n] \subseteq may'[n]
  BY <1>1, <1>3, <1>4, <1>5, SaveEntryPromise
<1>8. StoresInv'  BY <1>0, <1>1, StoresSame
<1>9. RegistrationInv' /\ OpCopyInv'  BY <1>1 DEF RegistrationInv, OpCopyInv, Idle
<1>10. ASSUME NEW m \in Apps PROVE CopyInv(m)' /\ LoadInv(m)'
  <2>1. ASSUME copying[m].at \in {"CopyData", "SaveEntry"}, copying[m].rec = r
        PROVE  copying[m].raced /\ may[n] \subseteq may'[n]
    <3>1. copying[m].raced  BY <2>1, <1>0, <1>2 DEF CopiesInv, CopyInv
    <3>2. m \in Copiers(r)  BY <2>1, CopierFacts
    <3>3. op.raced  BY <3>2, <1>0, <1>1, <1>2 DEF CopiesInv, OpCopyInv
    <3> QED BY <3>1, <3>3, <1>7
  <2>2. \A s \in Records : Copiers(s)' = Copiers(s)  BY <1>1 DEF Copiers
  <2> QED BY <2>1, <2>2, <1>1, <1>3, <1>6, OtherCopies
<1> QED BY <1>6, <1>8, <1>9, <1>10 DEF CriticalInv, CopiesInv

LEMMA SaveUnlockedCritical ==
  ASSUME BaseInv, CriticalInv, NEW a \in Apps, SaveUnlocked(a)
  PROVE  CriticalInv'
<1>0. StoresInv /\ RegistrationInv /\ CopiesInv /\ PromiseInv /\ TypeOK  BY DEF CriticalInv, BaseInv, RingsInv
<1>1. /\ copying[a].at = "SaveEntry" /\ SaveEntry(copying[a].rec)
      /\ copying' = [copying EXCEPT ![a] = NotCopying]
      /\ Promise(Registry[copying[a].rec].name, PromiseOf(copying[a].rec, copying[a].raced))
      /\ Registry' = Registry
      /\ UNCHANGED <<Cds, op, deleting>>
  BY DEF SaveUnlocked, handleVars, PromiseOf
<1>2. PICK r \in Records : r = copying[a].rec /\ Registry[r].active \in 1..2 /\ a \in Copiers(r)
  BY <1>1, CopierFacts
<1>3. PICK n \in Names : n = Registry[r].name  BY <1>1, <1>2, CopierFacts
<1>4. Registry[r].critical /\ (~copying[a].raced => Cds[n].image = Active(r) /\ Copiers(r) = {a} /\ op.rec # r)
  BY <1>0, <1>1, <1>2, <1>3 DEF CopiesInv, CopyInv
<1>5. PICK raced : raced = copying[a].raced  OBVIOUS
<1>6. SaveEntry(r) /\ Promise(n, PromiseOf(r, raced)) /\ Registry[r].active # 0  BY <1>1, <1>2, <1>3, <1>5
<1>7. /\ PromiseInv' /\ \A m \in Names \ {n} : may'[m] = may[m]
      /\ raced => may[n] \subseteq may'[n]
  BY <1>1, <1>3, <1>4, <1>5, <1>6, SaveEntryPromise
<1>8. copying'[a] = NotCopying /\ \A m \in Apps \ {a} : copying'[m] = copying[m]  BY <1>0, <1>1 DEF TypeOK
<1>9. \A s \in Records \ {r} : Copiers(s)' = Copiers(s)
  <2> SUFFICES ASSUME NEW s \in Records \ {r}, NEW m \in Apps
               PROVE  (copying'[m].rec = s /\ copying'[m].at # "Load") <=> (copying[m].rec = s /\ copying[m].at # "Load")
    BY DEF Copiers
  <2> QED BY <1>2, <1>8, NoneApart DEF NotCopying
<1>10. StoresInv'  BY <1>0, <1>1, StoresSame
<1>11. RegistrationInv'
  <2>1. ASSUME op.at \in {"RegisterCds", "SaveCrit"}
        PROVE  /\ may[Registry[op.rec].name] \subseteq may'[Registry[op.rec].name]
               /\ \A m \in Apps : copying'[m].rec # op.rec
    <3>1. op.rec \in Records /\ Registry[op.rec].name \in Names  BY <2>1, OpFacts
    <3>2. \A m \in Apps : copying[m].rec # op.rec  BY <2>1, <1>0 DEF RegistrationInv
    <3>3. Registry[op.rec].name # n  BY <3>1, <3>2, <1>2, <1>3, NamesApart
    <3> QED BY <3>1, <3>2, <3>3, <1>7, <1>8, NoneApart DEF NotCopying
  <2> QED BY <2>1, <1>0, <1>1, RegistrationFrame
<1>12. OpCopyInv'
  <2>1. ASSUME op.at \in {"CopyData", "SaveEntry"}
        PROVE  /\ may[Registry[op.rec].name] \subseteq may'[Registry[op.rec].name]
               /\ ~op.raced => Copiers(op.rec)' = Copiers(op.rec)
    <3>1. PICK s \in Records : s = op.rec /\ Registry[s].name \in Names  BY <2>1, OpFacts
    <3>2. CASE s = r
      <4>1. op.raced  BY <2>1, <3>1, <3>2, <1>0, <1>2 DEF CopiesInv, OpCopyInv
      <4>2. raced  BY <3>1, <3>2, <1>4, <1>5
      <4> QED BY <4>1, <4>2, <3>1, <3>2, <1>3, <1>7
    <3>3. CASE s # r
      <4>1. Registry[s].name # n  BY <3>1, <3>3, <1>3, NamesApart
      <4>2. Copiers(s)' = Copiers(s)  BY <3>3, <1>9
      <4>3. Copiers(op.rec)' = Copiers(op.rec)  BY <4>2, <3>1, <1>1 DEF Copiers
      <4> QED BY <4>1, <4>3, <3>1, <1>7
    <3> QED BY <3>2, <3>3
  <2>2. SameImage(op.rec) /\ Registry'[op.rec].owner = Registry[op.rec].owner  BY <1>1 DEF SameImage
  <2> QED BY <2>1, <2>2, <1>0, <1>1, OpFrame
<1>13. CopyInv(a)' /\ LoadInv(a)'  BY <1>8 DEF CopyInv, LoadInv, NotCopying
<1>14. ASSUME NEW m \in Apps \ {a} PROVE CopyInv(m)' /\ LoadInv(m)'
  <2>1. ASSUME copying[m].at \in {"CopyData", "SaveEntry"}, copying[m].rec = r
        PROVE  copying[m].raced /\ may[n] \subseteq may'[n]
    <3>1. copying[m].raced  BY <2>1, <1>0, <1>2 DEF CopiesInv, CopyInv
    <3>2. m \in Copiers(r)  BY <2>1, CopierFacts
    <3>3. raced  BY <3>2, <1>4, <1>5
    <3> QED BY <3>1, <3>3, <1>7
  <2> QED BY <2>1, <1>1, <1>3, <1>7, <1>8, <1>9, OtherCopies
<1> QED BY <1>7, <1>10, <1>11, <1>12, <1>13, <1>14 DEF CriticalInv, CopiesInv

-----------------------------------------------------------------------------
(* Critical tables: deletion of a store, reset and start                   *)

LEMMA DeleteCDSCritical ==
  ASSUME BaseInv, CriticalInv, NEW n \in Names, DeleteCDSCmd(n)
  PROVE  CriticalInv'
<1>0. StoresInv /\ RegistrationInv /\ CopiesInv /\ PromiseInv /\ TypeOK /\ EntriesInv
  BY DEF CriticalInv, BaseInv, RingsInv
<1>1. /\ Named(n) = {} /\ Cds' = [Cds EXCEPT ![n] = NoStore] /\ Promise(n, {None})
      /\ Registry' = Registry /\ UNCHANGED <<CritReg, SavedCritReg, op, copying>>
  BY DEF DeleteCDSCmd, handleVars
<1>2. /\ Cds'[n] = NoStore /\ \A m \in Names \ {n} : Cds'[m] = Cds[m]
      /\ may'[n] = {None} /\ \A m \in Names \ {n} : may'[m] = may[m]
  <2>1. PICK images \in SUBSET Recovery : images = {None}  BY DEF Recovery
  <2>2. Promise(n, images)  BY <1>1, <2>1
  <2>3. may'[n] = {None} /\ \A m \in Names \ {n} : may'[m] = may[m]  BY <1>0, <2>1, <2>2, PromiseFacts
  <2> QED BY <2>3, <1>0, <1>1 DEF TypeOK
<1>3. ASSUME NEW r \in Records, Registry[r].name \in Names PROVE Registry[r].name \in Names \ {n}
  <2>1. Registry[r].used  BY <1>3, <1>0, NoneApart DEF EntriesInv, FreeRec
  <2> QED BY <2>1, <1>1, <1>3 DEF Named
<1>4. StoresInv'
  <2>1. ASSUME NEW s \in Records, Registry'[s].critical
        PROVE  /\ Registry'[s].name # None
               /\ Registry'[s].cds = Cds'[Registry'[s].name].id /\ Registry'[s].cds # 0
    <3>1. Registry[s].name # None /\ Registry[s].cds = Cds[Registry[s].name].id /\ Registry[s].cds # 0
      BY <2>1, <1>0, <1>1 DEF StoresInv
    <3>2. Registry[s].name \in Names \ {n}  BY <3>1, <1>0, <1>3 DEF TypeOK, Rec
    <3> QED BY <3>1, <3>2, <1>1, <1>2
  <2>2. ASSUME NEW l \in Names, NEW m \in Names, Cds'[l].id = Cds'[m].id, Cds'[l].id # 0 PROVE l = m
    BY <2>2, <1>0, <1>2 DEF StoresInv, NoStore
  <2> QED BY <2>1, <2>2 DEF StoresInv
<1>5. ASSUME op.at # "Idle" PROVE Registry[op.rec].name \in Names \ {n}  BY <1>5, <1>3, OpFacts
<1>6. RegistrationInv'
  <2> SUFFICES ASSUME op.at \in {"RegisterCds", "SaveCrit"} PROVE RegistrationInv'
    BY <1>1 DEF RegistrationInv
  <2>1. Registry[op.rec].name \in Names \ {n}  BY <1>5
  <2> QED BY <2>1, <1>0, <1>1, <1>2 DEF RegistrationInv
<1>7. \A s : Copiers(s)' = Copiers(s) /\ SameImage(s)  BY <1>1 DEF Copiers, SameImage
<1>8. OpCopyInv'
  <2>1. op.at \in {"CopyData", "SaveEntry"} => Registry[op.rec].name \in Names \ {n}  BY <1>5
  <2>2. Copiers(op.rec)' = Copiers(op.rec)  BY <1>1 DEF Copiers
  <2> QED BY <2>1, <2>2, <1>0, <1>1, <1>2, <1>7, OpFrame
<1>9. ASSUME NEW m \in Apps PROVE CopyInv(m)' /\ LoadInv(m)'
  <2>1. CASE copying[m].at \in {"CopyData", "SaveEntry"}
    <3>1. PICK s \in Records : s = copying[m].rec /\ Registry[s].name \in Names  BY <2>1, CopierFacts
    <3>2. Registry[s].name \in Names \ {n}  BY <3>1, <1>3
    <3>3. ~copying[m].raced => op.rec # s  BY <2>1, <3>1, <1>0 DEF CopiesInv, CopyInv
    <3>4. CopyInv(m)'  BY <2>1, <3>1, <3>2, <3>3, <1>0, <1>1, <1>2, <1>7, CopyFrame
    <3> QED BY <3>4, <2>1, <1>1 DEF LoadInv
  <2>2. CASE copying[m].at \notin {"CopyData", "SaveEntry"}
    BY <2>2, <1>0, <1>1 DEF CopyInv, LoadInv, CopiesInv
  <2> QED BY <2>1, <2>2
<1>10. PromiseInv'
  <2>1. \A reg : Recovered(reg, NoStore) = None  BY DEF Recovered, NoStore
  <2> QED BY <2>1, <1>0, <1>1, <1>2 DEF PromiseInv
<1> QED BY <1>4, <1>6, <1>8, <1>9, <1>10 DEF CriticalInv, CopiesInv

LEMMA FreeEntryCritical ==
  ASSUME BaseInv, CriticalInv, FreeEntry
  PROVE  CriticalInv'
<1>0. StoresInv /\ RegistrationInv /\ CopiesInv /\ PromiseInv /\ TypeOK  BY DEF CriticalInv, BaseInv, RingsInv
<1>1. /\ deleting # 0 /\ CritReg' = [CritReg EXCEPT ![deleting].cds = 0]
      /\ may' = [n \in Names |-> IF Cds[n].id # 0 /\ Cds[n].id = CritReg[deleting].cds THEN Recovery ELSE may[n]]
      /\ Registry' = Registry /\ UNCHANGED <<SavedCritReg, Cds, op, copying>>
  BY DEF FreeEntry, handleVars
<1>2. CritReg' \in AllCrit /\ CritReg \in AllCrit  BY CritTypesNext, CritTypes DEF Next
<1>3. \A n \in Names : may[n] \subseteq may'[n]  BY <1>1, StoreFacts
<1>4. \A s : Copiers(s)' = Copiers(s) /\ SameImage(s)  BY <1>1 DEF Copiers, SameImage
<1>5. StoresInv'  BY <1>0, <1>1, StoresSame
<1>6. RegistrationInv'
  <2>1. op.at \in {"RegisterCds", "SaveCrit"} =>
          may[Registry[op.rec].name] \subseteq may'[Registry[op.rec].name]
    BY <1>3, OpFacts
  <2>2. op.at \in {"RegisterCds", "SaveCrit"} => \A m \in Apps : copying'[m].rec # op.rec
    BY <1>0, <1>1 DEF RegistrationInv
  <2> QED BY <2>1, <2>2, <1>0, <1>1, RegistrationFrame
<1>7. OpCopyInv'
  <2>1. op.at \in {"CopyData", "SaveEntry"} =>
          may[Registry[op.rec].name] \subseteq may'[Registry[op.rec].name]
    BY <1>3, OpFacts
  <2>2. Copiers(op.rec)' = Copiers(op.rec)  BY <1>1 DEF Copiers
  <2> QED BY <2>1, <2>2, <1>0, <1>1, <1>4, OpFrame
<1>8. ASSUME NEW m \in Apps PROVE CopyInv(m)' /\ LoadInv(m)'
  <2>1. CASE copying[m].at \in {"CopyData", "SaveEntry"}
    <3>1. PICK s \in Records : s = copying[m].rec /\ Registry[s].name \in Names  BY <2>1, CopierFacts
    <3>2. ~copying[m].raced => op.rec # s  BY <2>1, <3>1, <1>0 DEF CopiesInv, CopyInv
    <3>3. CopyInv(m)'  BY <2>1, <3>1, <3>2, <1>0, <1>1, <1>3, <1>4, CopyFrame
    <3> QED BY <3>3, <2>1, <1>1 DEF LoadInv
  <2>2. CASE copying[m].at \notin {"CopyData", "SaveEntry"}
    BY <2>2, <1>0, <1>1 DEF CopyInv, LoadInv, CopiesInv
  <2> QED BY <2>1, <2>2
<1>9. ASSUME NEW n \in Names
      PROVE  {Recovered(CritReg', Cds[n]), Recovered(SavedCritReg, Cds[n])} \subseteq may'[n]
  <2>1. PICK k : k = Cds[n].id  OBVIOUS
  <2>2. CASE k = 0
    <3>1. \A reg : Recovered(reg, Cds[n]) = None  BY <2>1, <2>2 DEF Recovered
    <3>2. None \in may[n]  BY <3>1, <1>0 DEF PromiseInv
    <3> QED BY <3>1, <3>2, <1>3
  <2>3. CASE k # 0 /\ k = CritReg[deleting].cds
    <3>1. may'[n] = Recovery  BY <2>1, <2>3, <1>1
    <3> QED BY <3>1, RecoveredType
  <2>4. CASE k # 0 /\ k # CritReg[deleting].cds
    <3>1. PICK R \in AllCrit : R = CritReg'  BY <1>2
    <3>2. \A e \in 1..MaxCritical : /\ R[e].cds = k <=> CritReg[e].cds = k
                                    /\ R[e].cds = k => R[e].loaded = CritReg[e].loaded
      <4>1. deleting \in 1..MaxCritical  BY <1>0, <1>1 DEF TypeOK
      <4>2. R = [CritReg EXCEPT ![deleting].cds = 0]  BY <3>1, <1>1
      <4>3. R[deleting].cds = 0 /\ \A e \in (1..MaxCritical) \ {deleting} : R[e] = CritReg[e]
        BY <4>1, <4>2, <1>2 DEF AllCrit, Crit
      <4> QED BY <4>1, <4>3, <2>4
    <3>3. LoadedOnce(R, k) <=> LoadedOnce(CritReg, k)  BY <3>2, <1>2, LoadedSame
    <3>4. Recovered(CritReg', Cds[n]) = Recovered(CritReg, Cds[n])  BY <3>1, <3>3, <2>1 DEF Recovered
    <3> QED BY <3>4, <1>0, <1>3 DEF PromiseInv
  <2> QED BY <2>2, <2>3, <2>4
<1>10. PromiseInv'  BY <1>1, <1>9 DEF PromiseInv
<1> QED BY <1>5, <1>6, <1>7, <1>8, <1>10 DEF CriticalInv, CopiesInv

LEMMA HalfPoints ==
  ASSUME NEW R \in AllCrit, NEW N \in AllCrit, NEW e \in 1..MaxCritical, NEW j \in 1..MaxCritical
  PROVE  /\ HalfCds(R, N, e)[j].loaded = R[j].loaded
         /\ HalfCds(R, N, e)[j].cds = (IF j = e THEN N[e].cds ELSE R[j].cds)
         /\ HalfName(R, N, e)[j].loaded = R[j].loaded /\ HalfName(R, N, e)[j].cds = R[j].cds
<1>1. /\ HalfCds(R, N, e)[j].loaded = R[j].loaded
      /\ HalfCds(R, N, e)[j].cds = (IF j = e THEN N[e].cds ELSE R[j].cds)
  <2>1. PICK c : c = N[e].cds  OBVIOUS
  <2>2. HalfCds(R, N, e) = [R EXCEPT ![e].cds = c]  BY <2>1 DEF HalfCds
  <2> QED BY <2>1, <2>2 DEF AllCrit, Crit
<1>2. HalfName(R, N, e)[j].loaded = R[j].loaded /\ HalfName(R, N, e)[j].cds = R[j].cds
  <2>1. PICK c : c = N[e].name  OBVIOUS
  <2>2. HalfName(R, N, e) = [R EXCEPT ![e].name = c]  BY <2>1 DEF HalfName
  <2> QED BY <2>1, <2>2 DEF AllCrit, Crit
<1> QED BY <1>1, <1>2

(* Of a half written entry: another table finds what it found before, the  *)
(* one whose entry it is to be that or what it would find in the new one.  *)
LEMMA HalfLoaded ==
  ASSUME BaseInv, NEW r \in Records, NEW N \in AllCrit, N = WithEntry(r), NEW e \in 1..MaxCritical,
         NEW R, R = HalfCds(CritReg, N, e) \/ R = HalfName(CritReg, N, e), NEW id, id # 0
  PROVE  \/ LoadedOnce(R, id) <=> LoadedOnce(CritReg, id)
         \/ id = Registry[r].cds /\ (LoadedOnce(R, id) <=> LoadedOnce(N, id))
<1>1. CritReg \in AllCrit /\ TypeOK  BY CritTypes DEF BaseInv, RingsInv
<1>2. R \in AllCrit  BY <1>1, HalfEntryType
<1>3. \A j \in 1..MaxCritical :
        /\ N[j].loaded = CritReg[j].loaded
        /\ N[j].cds = CritReg[j].cds \/ (CritReg[j].cds = 0 /\ N[j].cds = Registry[r].cds)
  BY <1>1, WithEntryPoints
<1>4. \A j \in 1..MaxCritical :
        /\ R[j].loaded = CritReg[j].loaded
        /\ R[j].cds = CritReg[j].cds \/ (j = e /\ R[j].cds = N[e].cds)
  BY <1>1, HalfPoints
<1>5. CASE R[e].cds = CritReg[e].cds
  <2>1. \A j \in 1..MaxCritical : /\ R[j].cds = id <=> CritReg[j].cds = id
                                  /\ R[j].cds = id => R[j].loaded = CritReg[j].loaded
    BY <1>4, <1>5
  <2> QED BY <2>1, <1>1, <1>2, LoadedSame
<1>6. CASE R[e].cds # CritReg[e].cds /\ id # Registry[r].cds
  <2>1. \A j \in 1..MaxCritical : /\ R[j].cds = id <=> CritReg[j].cds = id
                                  /\ R[j].cds = id => R[j].loaded = CritReg[j].loaded
    BY <1>3, <1>4, <1>6
  <2> QED BY <2>1, <1>1, <1>2, LoadedSame
<1>7. CASE R[e].cds # CritReg[e].cds /\ id = Registry[r].cds
  <2>1. R[e].cds = N[e].cds /\ N[e].cds = Registry[r].cds /\ CritReg[e].cds = 0  BY <1>3, <1>4, <1>7
  <2>2. PICK i : i = Info(CritReg, 0)  OBVIOUS
  <2>3. ASSUME NEW j \in 1..MaxCritical, j # e PROVE N[j].cds = CritReg[j].cds
    <3>1. CASE i = 0  BY <3>1, <2>2 DEF WithEntry
    <3>2. CASE i # 0
      <4>1. i \in 1..MaxCritical  BY <3>2, <2>2, <1>1, InfoFacts
      <4>2. N = [CritReg EXCEPT ![i].cds = Registry[r].cds, ![i].name = Registry[r].name]
        BY <3>2, <2>2 DEF WithEntry
      <4>3. j # i => N[j] = CritReg[j]  BY <4>1, <4>2, <1>1 DEF AllCrit
      <4>4. e # i => N[e] = CritReg[e]  BY <4>1, <4>2, <1>1 DEF AllCrit
      <4> QED BY <4>3, <4>4, <2>1, <2>3, <1>7
    <3> QED BY <3>1, <3>2
  <2>4. \A j \in 1..MaxCritical : /\ R[j].cds = id <=> N[j].cds = id
                                  /\ R[j].cds = id => R[j].loaded = N[j].loaded
    BY <1>3, <1>4, <2>1, <2>3
  <2>5. LoadedOnce(R, id) <=> LoadedOnce(N, id)  BY <2>4, <1>2, LoadedSame
  <2> QED BY <2>5, <1>7
<1> QED BY <1>5, <1>6, <1>7

LEMMA ResetCritical ==
  ASSUME BaseInv, CriticalInv, Reset
  PROVE  CriticalInv'
<1> DEFINE torn == {Registry[r].name : r \in {copying[a].rec : a \in {m \in Apps : copying[m].at = "CopyData"}}}
                     \cup (IF op.at = "CopyData" THEN {Registry[op.rec].name} ELSE {})
           Refilled == op.at = "SaveCrit" /\ LoadedOnce(WithEntry(op.rec), Registry[op.rec].cds)
<1>0. StoresInv /\ RegistrationInv /\ CopiesInv /\ PromiseInv /\ TypeOK  BY DEF CriticalInv, BaseInv, RingsInv
<1>1. /\ CritReg' = SavedCritReg'
      /\ Registry' = [r \in Records |-> FreeRec]
      /\ op' = Idle
      /\ copying' = [a \in Apps |-> NotCopying]
      /\ SavedAtReset
      /\ IF Refilled THEN Promise(Registry[op.rec].name, Recovery) ELSE may' = may
  BY DEF Reset, SavedAtReset, HalfCds, HalfName
<1>2. \A n \in Names : Cds'[n].id = Cds[n].id /\ (Cds'[n].image = Cds[n].image \/ (n \in torn /\ Cds'[n].image = None))
  <2>1. PICK lost \in SUBSET torn :
          Cds' = [n \in Names |-> IF n \in lost THEN [Cds[n] EXCEPT !.image = None] ELSE Cds[n]]
    BY DEF Reset
  <2>2. \A n \in Names : /\ [Cds[n] EXCEPT !.image = None].id = Cds[n].id
                         /\ [Cds[n] EXCEPT !.image = None].image = None
    BY <1>0 DEF TypeOK, Store
  <2> QED BY <2>1, <2>2
<1>3. StoresInv'
  <2>1. \A r \in Records : ~Registry'[r].critical  BY <1>1 DEF FreeRec
  <2> QED BY <2>1, <1>0, <1>2 DEF StoresInv
<1>4. RegistrationInv' /\ OpCopyInv'  BY <1>1 DEF RegistrationInv, OpCopyInv, Idle
<1>5. \A a \in Apps : CopyInv(a)' /\ LoadInv(a)'  BY <1>1 DEF CopyInv, LoadInv, NotCopying
<1>6. /\ Refilled => may'[Registry[op.rec].name] = Recovery
      /\ \A n \in Names : may[n] \subseteq may'[n]
  <2>1. CASE Refilled
    <3>1. PICK n \in Names, images \in SUBSET Recovery : n = Registry[op.rec].name /\ images = Recovery
      BY <2>1, OpFacts
    <3>2. Promise(n, images)  BY <2>1, <3>1, <1>1
    <3>3. may'[n] = Recovery /\ \A m \in Names \ {n} : may'[m] = may[m]  BY <1>0, <3>1, <3>2, PromiseFacts
    <3> QED BY <3>1, <3>3, StoreFacts
  <2>2. CASE ~Refilled  BY <2>2, <1>1
  <2> QED BY <2>1, <2>2
<1>7. ASSUME NEW n \in torn PROVE None \in may[n]
  <2>1. CASE op.at = "CopyData" /\ n = Registry[op.rec].name
    BY <2>1, <1>0 DEF CopiesInv, OpCopyInv
  <2>2. CASE \E a \in Apps : copying[a].at = "CopyData" /\ n = Registry[copying[a].rec].name
    BY <2>2, <1>0 DEF CopiesInv, CopyInv
  <2> QED BY <1>7, <2>1, <2>2
<1>8. ASSUME NEW n \in Names PROVE Recovered(SavedCritReg', Cds[n]) \in may'[n]
  <2>1. CASE SavedCritReg' = SavedCritReg  BY <2>1, <1>0, <1>6 DEF PromiseInv
  <2>2. CASE SavedCritReg' # SavedCritReg
    <3>1. op.at = "SaveCrit"  BY <2>2, <1>1 DEF SavedAtReset
    <3>2. PICK r \in Records : r = op.rec  BY <3>1, OpFacts
    <3>3. Registry[r].name \in Names  BY <3>1, <3>2, OpFacts
    <3>4. /\ Registry[r].cds = Cds[Registry[r].name].id /\ Cds[Registry[r].name].id # 0
          /\ None \in may[Registry[r].name]
      BY <3>1, <3>2, <1>0 DEF RegistrationInv
    <3>5. PICK N \in AllCrit : N = WithEntry(r)  BY <1>0, <3>2, WithEntryType
    <3>6. PICK e \in 1..MaxCritical : \/ SavedCritReg' = HalfCds(CritReg, N, e)
                                      \/ SavedCritReg' = HalfName(CritReg, N, e)
      BY <1>1, <2>2, <3>2, <3>5 DEF SavedAtReset
    <3>7. PICK R : R = SavedCritReg'  OBVIOUS
    <3>8. PICK id : id = Cds[n].id  OBVIOUS
    <3>9. CASE id = 0
      <4>1. \A reg : Recovered(reg, Cds[n]) = None  BY <3>8, <3>9 DEF Recovered
      <4>2. None \in may[n]  BY <4>1, <1>0 DEF PromiseInv
      <4> QED BY <4>1, <4>2, <1>6
    <3>10. CASE id # 0
      <4>0. \/ LoadedOnce(R, id) <=> LoadedOnce(CritReg, id)
            \/ id = Registry[r].cds /\ (LoadedOnce(R, id) <=> LoadedOnce(N, id))
        BY <3>5, <3>6, <3>7, <3>10, HalfLoaded
      <4>1. CASE LoadedOnce(R, id) <=> LoadedOnce(CritReg, id)
        <5>1. Recovered(SavedCritReg', Cds[n]) = Recovered(CritReg, Cds[n])
          BY <4>1, <3>7, <3>8 DEF Recovered
        <5> QED BY <5>1, <1>0, <1>6 DEF PromiseInv
      <4>2. CASE id = Registry[r].cds /\ (LoadedOnce(R, id) <=> LoadedOnce(N, id))
        <5>1. n = Registry[r].name  BY <4>2, <3>3, <3>4, <3>8, <3>10, <1>0 DEF StoresInv
        <5>2. CASE LoadedOnce(N, id)
          <6>1. Refilled  BY <5>2, <4>2, <3>1, <3>2, <3>5
          <6>2. may'[n] = Recovery  BY <6>1, <5>1, <3>2, <1>6
          <6> QED BY <6>2, RecoveredType
        <5>3. CASE ~LoadedOnce(N, id)
          <6>1. Recovered(SavedCritReg', Cds[n]) = None  BY <5>3, <4>2, <3>7, <3>8 DEF Recovered
          <6> QED BY <6>1, <5>1, <3>4, <1>6
        <5> QED BY <5>2, <5>3
      <4> QED BY <4>0, <4>1, <4>2
    <3> QED BY <3>9, <3>10
  <2> QED BY <2>1, <2>2
<1>9. PromiseInv'
  <2>1. ASSUME NEW n \in Names PROVE Recovered(SavedCritReg', Cds'[n]) \in may'[n]
    <3>1. CASE Cds'[n].image = Cds[n].image
      <4>1. Recovered(SavedCritReg', Cds'[n]) = Recovered(SavedCritReg', Cds[n])
        BY <3>1, <1>2 DEF Recovered
      <4> QED BY <4>1, <1>8
    <3>2. CASE n \in torn /\ Cds'[n].image = None
      <4>1. Recovered(SavedCritReg', Cds'[n]) = None  BY <3>2 DEF Recovered
      <4>2. None \in may[n]  BY <3>2, <1>7
      <4> QED BY <4>1, <4>2, <1>6
    <3> QED BY <3>1, <3>2, <1>2
  <2> QED BY <2>1, <1>1 DEF PromiseInv
<1> QED BY <1>3, <1>4, <1>5, <1>9 DEF CriticalInv, CopiesInv

LEMMA InitCritical ==
  ASSUME Init
  PROVE  CriticalInv
<1>1. StoresInv  BY DEF Init, StoresInv, NoStore, FreeRec
<1>2. RegistrationInv /\ OpCopyInv  BY DEF Init, RegistrationInv, OpCopyInv, Idle
<1>3. \A a \in Apps : CopyInv(a) /\ LoadInv(a)  BY DEF Init, CopyInv, LoadInv, NotCopying
<1>4. PromiseInv  BY DEF Init, PromiseInv, Recovered, NoStore
<1> QED BY <1>1, <1>2, <1>3, <1>4 DEF CriticalInv, CopiesInv

LEMMA CriticalStep == BaseInv /\ CriticalInv /\ [Next]_vars => CriticalInv'
<1> SUFFICES ASSUME BaseInv, CriticalInv, [Next]_vars PROVE CriticalInv'  OBVIOUS
<1>1. CASE RegisterCds  BY <1>1, RegisterCdsCritical
<1>2. CASE RegisterWithCriticalTableRegistry  BY <1>2, RegisterWithCritical
<1>3. CASE UpdateCDS  BY <1>3, UpdateCDSCritical
<1>4. CASE UpdateCritReg  BY <1>4, UpdateCritRegCritical
<1>5. CASE FreeEntry  BY <1>5, FreeEntryCritical
<1>6. CASE Reset  BY <1>6, ResetCritical
<1>7. CASE \E n \in Names : DeleteCDSCmd(n)  BY <1>7, DeleteCDSCritical
<1>8. ASSUME NEW a \in Apps,
             \/ StartApp(a) \/ StopApp(a) \/ CleanUpApp(a) \/ CleanUpDone(a) \/ Unregister(a)
             \/ \E n \in Names : Share(a, n)
      PROVE  CriticalInv'
  BY <1>8, HandlesCritical
<1>9. ASSUME NEW a \in Apps, Load(a) \/ CopyUnlocked(a) \/ SaveUnlocked(a) PROVE CriticalInv'
  BY <1>9, LoadCritical, CopyUnlockedCritical, SaveUnlockedCritical
<1>10. ASSUME NEW a \in Apps, NEW n \in Names, NEW kind \in Kinds[n],
              Register(a, n, kind) \/ RegisterFails(a, n, kind)
       PROVE  CriticalInv'
  BY <1>10, RegisterCritical
<1>11. ASSUME NEW a \in Apps, NEW v \in Images, Update(a, v) \/ LoadFinish(a, v) \/ Modified(a, v)
       PROVE  CriticalInv'
  BY <1>11, UpdateCritical, LoadFinishCritical, ModifiedCritical
<1>12. CASE UNCHANGED vars
  BY <1>12, AppCritical DEF vars, handleVars
<1> QED BY <1>1, <1>2, <1>3, <1>4, <1>5, <1>6, <1>7, <1>8, <1>9, <1>10, <1>11, <1>12 DEF Next

LEMMA CriticalAlways == Spec => [](BaseInv /\ CriticalInv)
<1>1. Init => BaseInv /\ CriticalInv  BY InitBase, InitCritical
<1>2. BaseInv /\ CriticalInv /\ [Next]_vars => BaseInv' /\ CriticalInv'  BY BaseStep, CriticalStep
<1> QED BY <1>1, <1>2, PTL DEF Spec

\* What a step of a registration may make of the table it is about.
RecoversPromised ==
  op.at = "RegisterCds" /\ op' # op /\ Registry'[op.rec].used =>
    LET rec == Registry'[op.rec]
    IN  (IF rec.active = 0 THEN None ELSE rec.buffer[rec.active]) \in may[rec.name]

LEMMA RegisterCdsRecovers ==
  ASSUME BaseInv, CriticalInv, RegisterCds
  PROVE  RecoversPromised
<1>0. RegistrationInv /\ PromiseInv /\ TypeOK  BY DEF CriticalInv, BaseInv, RingsInv
<1>1. op.at = "RegisterCds"  BY DEF RegisterCds
<1>2. PICK r \in Records : r = op.rec  BY <1>1, OpFacts
<1>3. PICK n \in Names : n = Registry[r].name  BY <1>1, <1>2, OpFacts
<1>4. \/ NoStoreGot(n)
      \/ \E id \in 1..MaxStores, image \in Recovery : NewStoreGot(r, n, id, image)
      \/ ImageRecovered(r, n)
      \/ NothingRecovered(r, n)
  BY <1>0, <1>2, <1>3, RegisterCdsEnds
<1>5. Registry[r].active = 0  BY <1>0, <1>1, <1>2 DEF RegistrationInv
<1>6. Registry'[r].name = n
  BY <1>3, <1>4 DEF NoStoreGot, NewStoreGot, ImageRecovered, NothingRecovered, Edited
<1>7. (IF Registry'[r].active = 0 THEN None ELSE Registry'[r].buffer[Registry'[r].active]) \in may[n]
  <2>1. CASE ImageRecovered(r, n)
    <3>1. Registry'[r].active = 1 /\ Registry'[r].buffer[1] = Recovered(CritReg, Cds[n])
      BY <2>1 DEF ImageRecovered, Recovered
    <3> QED BY <3>1, <1>0 DEF PromiseInv
  <2>2. CASE ~ImageRecovered(r, n)
    <3>1. Registry'[r].active = 0
      BY <2>2, <1>4, <1>5 DEF NoStoreGot, NewStoreGot, NothingRecovered
    <3>2. Recovered(CritReg, Cds[n]) = None
      BY <2>2, <1>4 DEF NoStoreGot, NewStoreGot, NothingRecovered, Recovered
    <3> QED BY <3>1, <3>2, <1>0 DEF PromiseInv
  <2> QED BY <2>1, <2>2
<1> QED BY <1>2, <1>6, <1>7 DEF RecoversPromised

LEMMA OnlyRegistrationRecovers == BaseInv /\ CriticalInv /\ [Next]_vars => [RecoversPromised]_vars
<1> SUFFICES ASSUME BaseInv, CriticalInv, Next, op.at = "RegisterCds", op' # op, Registry'[op.rec].used
             PROVE  RecoversPromised
  BY DEF RecoversPromised
<1>1. op # Idle /\ ~Unlocked  BY DEF Idle, Unlocked
<1>2. CASE RegisterCds  BY <1>2, RegisterCdsRecovers
<1>3. ~(RegisterWithCriticalTableRegistry \/ UpdateCDS \/ UpdateCritReg \/ FreeEntry)
  BY DEF RegisterWithCriticalTableRegistry, UpdateCDS, UpdateCritReg, FreeEntry
<1>4. ~Reset
  <2>1. op.rec \in Records  BY OpFacts
  <2> QED BY <2>1 DEF Reset, FreeRec
<1>5. ASSUME NEW n \in Names PROVE ~DeleteCDSCmd(n)  BY DEF DeleteCDSCmd
<1>6. ASSUME NEW a \in Apps
      PROVE  ~(StartApp(a) \/ StopApp(a) \/ CleanUpApp(a) \/ CleanUpDone(a) \/ Unregister(a) \/ Load(a)
                 \/ CopyUnlocked(a) \/ SaveUnlocked(a))
  BY <1>1 DEF StartApp, StopApp, CleanUpApp, CleanUpDone, Unregister, Load, CopyUnlocked, SaveUnlocked
<1>7. ASSUME NEW a \in Apps, NEW n \in Names PROVE ~Share(a, n)  BY <1>1 DEF Share
<1>8. ASSUME NEW a \in Apps, NEW n \in Names, NEW kind PROVE ~(Register(a, n, kind) \/ RegisterFails(a, n, kind))
  BY <1>1 DEF Register, RegisterFails, Registers
<1>9. ASSUME NEW a \in Apps, NEW v \in Images PROVE ~(Update(a, v) \/ LoadFinish(a, v) \/ Modified(a, v))
  BY <1>1 DEF Update, LoadFinish, Modified
<1> QED BY <1>2, <1>3, <1>4, <1>5, <1>6, <1>7, <1>8, <1>9 DEF Next

(* A critical table that is registered again has the image that was active *)
(* last, whatever resets came between its copies and registrations; if one *)
(* cut an update, the image before, the new one or none; unless updates    *)
(* raced or its entry was that of a deleted store                          *)
(* (CFE_TBL_RestoreTableDataFromCDS, CFE_TBL_UpdateCriticalTblCDS).        *)
THEOREM ImagesRecovered == Spec => LastImageRecovered
<1>1. BaseInv /\ CriticalInv /\ [Next]_vars => [RecoversPromised]_vars  BY OnlyRegistrationRecovers
<1>2. Spec => [](BaseInv /\ CriticalInv)  BY CriticalAlways
<1>3. Spec => [][RecoversPromised]_vars  BY <1>1, <1>2, PTL DEF Spec
<1> QED BY <1>3 DEF LastImageRecovered, RecoversPromised
=============================================================================
