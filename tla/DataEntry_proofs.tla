--------------------------- MODULE DataEntry_proofs ---------------------------
(***************************************************************************)
(* What TLAPS proves of Data Entry.                                        *)
(***************************************************************************)
EXTENDS DistributionEntry, TLAPS, WellFoundedInduction, FiniteSetTheorems

entryVars == <<vars, groups>>

-----------------------------------------------------------------------------
(***************************************************************************)
(* Sums.                                                                   *)
(***************************************************************************)

(* The sums over the subsets of a set, one element at a time.               *)
AnyOf(s) == CHOOSE x \in s : TRUE

IsSums(g, f, D) ==
  g = [s \in D |-> IF s = {} THEN 0 ELSE f[AnyOf(s)] + g[s \ {AnyOf(s)}]]

Sums(f, D) == CHOOSE g : IsSums(g, f, SUBSET D)

LEMMA SumIsOfSums ==
  ASSUME NEW f
  PROVE  SumFunction(f) = Sums(f, DOMAIN f)[DOMAIN f]
BY DEF SumFunction, SumFunctionOnSet, FoldFunctionOnSet, MapThenFoldSet, Sums, IsSums, AnyOf

(* Of the sets that differ from the others one has no smaller one.          *)
LEMMA SmallestSet ==
  ASSUME NEW D, IsFiniteSet(D), NEW Odd \in SUBSET SUBSET D, Odd # {}
  PROVE  \E s \in Odd : \A x \in s : s \ {x} \notin Odd
<1> DEFINE sizes == {Cardinality(s) : s \in Odd}
<1>1. \A s \in SUBSET D : IsFiniteSet(s) /\ Cardinality(s) \in Nat
  BY FS_Subset, FS_CardinalityType
<1>2. sizes \subseteq Nat /\ sizes # {}
  BY <1>1
<1>3. PICK n \in sizes : \A k \in sizes : ~ <<k, n>> \in OpToRel(<, Nat)
  <2> HIDE DEF sizes
  <2> QED
    BY <1>2, NatLessThanWellFounded, WFMin
<1>4. PICK s \in Odd : n = Cardinality(s)
  OBVIOUS
<1>5. ASSUME NEW x \in s, s \ {x} \in Odd PROVE FALSE
  <2>1. Cardinality(s \ {x}) = Cardinality(s) - 1
    BY <1>1, FS_RemoveElement
  <2>2. Cardinality(s \ {x}) \in sizes
    BY <1>5
  <2>3. n \in Nat /\ Cardinality(s \ {x}) \in Nat /\ Cardinality(s \ {x}) < n
    BY <1>1, <1>4, <2>1
  <2> QED
    BY <1>3, <2>2, <2>3 DEF OpToRel
<1> QED
  BY <1>5

(* There are such sums.                                                     *)
LEMMA SumsExist ==
  ASSUME NEW f, NEW D, IsFiniteSet(D)
  PROVE  \E g : IsSums(g, f, SUBSET D)
<1> DEFINE upTo(n) == {s \in SUBSET D : Cardinality(s) <= n}
           without == {n \in Nat : ~ \E g : IsSums(g, f, upTo(n))}
<1>1. \A s \in SUBSET D : IsFiniteSet(s) /\ Cardinality(s) \in Nat
  BY FS_Subset, FS_CardinalityType
<1>2. \A s \in SUBSET D : s # {} => /\ AnyOf(s) \in s
                                   /\ s \ {AnyOf(s)} \in SUBSET D
                                   /\ Cardinality(s \ {AnyOf(s)}) = Cardinality(s) - 1
  BY <1>1, FS_RemoveElement DEF AnyOf
<1>3. without = {}
  <2> SUFFICES ASSUME without # {} PROVE FALSE
    OBVIOUS
  <2>1. PICK n \in without : \A k \in without : ~ <<k, n>> \in OpToRel(<, Nat)
    BY NatLessThanWellFounded, WFMin
  <2>2. CASE n = 0
    <3>1. \A s \in upTo(0) : s = {}
      BY <1>1, FS_EmptySet
    <3>2. IsSums([s \in upTo(0) |-> 0], f, upTo(0))
      BY <3>1 DEF IsSums
    <3> QED
      BY <2>2, <3>2
  <2>3. CASE n # 0
    <3>1. n - 1 \in Nat /\ n - 1 \notin without
      <4>1. n \in Nat /\ n - 1 \in Nat /\ n - 1 < n
        BY <2>3
      <4> HIDE DEF without
      <4> QED
        BY <2>1, <4>1 DEF OpToRel
    <3>2. PICK g : IsSums(g, f, upTo(n - 1))
      BY <3>1
    <3> DEFINE D0 == upTo(n - 1)
               D1 == upTo(n)
               h == [s \in D1 |->
                       IF s = {} THEN 0 ELSE f[AnyOf(s)] + g[s \ {AnyOf(s)}]]
    <3>3. \A s \in D1 : s # {} => s \ {AnyOf(s)} \in D0 /\ s \ {AnyOf(s)} \in D1
      BY <1>1, <1>2
    <3>4. D0 \subseteq D1
      BY <1>1
    <3> HIDE DEF D0, D1
    <3>5. g = [s \in D0 |-> IF s = {} THEN 0 ELSE f[AnyOf(s)] + g[s \ {AnyOf(s)}]]
      BY <3>2 DEF IsSums, D0
    <3>6. \A s \in D0 : h[s] = g[s]
      BY <3>4, <3>5
    <3>7. \A s \in D1 : h[s] = IF s = {} THEN 0 ELSE f[AnyOf(s)] + h[s \ {AnyOf(s)}]
      BY <3>3, <3>6
    <3>8. IsSums(h, f, D1)
      BY <3>7 DEF IsSums
    <3> QED
      BY <3>8 DEF D1
  <2> QED
    BY <2>2, <2>3
<1>4. upTo(Cardinality(D)) = SUBSET D /\ Cardinality(D) \in Nat
  BY FS_Subset, FS_CardinalityType
<1> QED
  BY <1>3, <1>4

LEMMA SumsFacts ==
  ASSUME NEW f, NEW D, IsFiniteSet(D)
  PROVE  /\ Sums(f, D)[{}] = 0
         /\ \A s \in SUBSET D : s # {} =>
              AnyOf(s) \in s /\ Sums(f, D)[s] = f[AnyOf(s)] + Sums(f, D)[s \ {AnyOf(s)}]
<1> DEFINE g == Sums(f, D)
<1>1. IsSums(g, f, SUBSET D)
  BY SumsExist DEF Sums
<1>2. \A s : s # {} => AnyOf(s) \in s
  BY DEF AnyOf
<1> HIDE DEF g
<1>3. g[{}] = 0
  BY <1>1 DEF IsSums
<1>4. \A s \in SUBSET D : s # {} => g[s] = f[AnyOf(s)] + g[s \ {AnyOf(s)}]
  BY <1>1 DEF IsSums
<1> QED
  BY <1>2, <1>3, <1>4 DEF g

(* A sum of integers is one, and any element may be taken out first.        *)
LEMMA SumsAreNumbers ==
  ASSUME NEW f, NEW D, IsFiniteSet(D), \A x \in D : f[x] \in Int
  PROVE  \A s \in SUBSET D : Sums(f, D)[s] \in Int
<1> DEFINE odd == {s \in SUBSET D : Sums(f, D)[s] \notin Int}
<1>1. SUFFICES ASSUME odd # {} PROVE FALSE
  OBVIOUS
<1>2. PICK s \in odd : \A x \in s : s \ {x} \notin odd
  <2> HIDE DEF odd
  <2>1. odd \in SUBSET SUBSET D
    BY DEF odd
  <2> QED
    BY <1>1, <2>1, SmallestSet
<1>3. s # {}
  <2>1. Sums(f, D)[s] \notin Int
    OBVIOUS
  <2>2. Sums(f, D)[{}] = 0
    BY SumsFacts
  <2> QED
    BY <2>1, <2>2
<1>4. AnyOf(s) \in s /\ Sums(f, D)[s] = f[AnyOf(s)] + Sums(f, D)[s \ {AnyOf(s)}]
  BY <1>3, SumsFacts
<1> QED
  BY <1>2, <1>4

LEMMA AnyFirst ==
  ASSUME NEW f, NEW D, IsFiniteSet(D), \A x \in D : f[x] \in Int
  PROVE  \A s \in SUBSET D : \A x \in s : Sums(f, D)[s] = f[x] + Sums(f, D)[s \ {x}]
<1> DEFINE g == Sums(f, D)
           odd == {s \in SUBSET D : ~ \A x \in s : g[s] = f[x] + g[s \ {x}]}
<1>1. SUFFICES ASSUME odd # {} PROVE FALSE
  OBVIOUS
<1>2. PICK s \in odd : \A x \in s : s \ {x} \notin odd
  BY <1>1, SmallestSet
<1>3. PICK x \in s : ~ (g[s] = f[x] + g[s \ {x}])
  BY <1>2
<1> DEFINE c == AnyOf(s)
<1>4. c \in s /\ g[s] = f[c] + g[s \ {c}]
  BY <1>3, SumsFacts
<1>5. x # c
  BY <1>3, <1>4
<1>6. g[s \ {c}] = f[x] + g[s \ {c, x}]
  <2>1. s \ {c} \notin odd /\ s \ {c} \in SUBSET D /\ x \in s \ {c}
    BY <1>2, <1>3, <1>4, <1>5
  <2>2. (s \ {c}) \ {x} = s \ {c, x}
    OBVIOUS
  <2> HIDE DEF g, c
  <2> QED
    BY <2>1, <2>2
<1>7. g[s \ {x}] = f[c] + g[s \ {c, x}]
  <2>1. s \ {x} \notin odd /\ s \ {x} \in SUBSET D /\ c \in s \ {x}
    BY <1>2, <1>3, <1>4, <1>5
  <2>2. (s \ {x}) \ {c} = s \ {c, x}
    OBVIOUS
  <2> HIDE DEF g, c
  <2> QED
    BY <2>1, <2>2
<1>8. f[x] \in Int /\ f[c] \in Int /\ g[s \ {c, x}] \in Int
  BY <1>2, <1>4, SumsAreNumbers
<1> HIDE DEF g, c
<1> QED
  BY <1>3, <1>4, <1>6, <1>7, <1>8

(* Sums of the same numbers, told apart in two ways, are equal.             *)
LEMMA SumsAlong ==
  ASSUME NEW f, NEW g, IsFiniteSet(DOMAIN f), IsFiniteSet(DOMAIN g),
         NEW h \in Bijection(DOMAIN f, DOMAIN g),
         \A x \in DOMAIN f : f[x] \in Int /\ g[h[x]] = f[x]
  PROVE  SumFunction(f) = SumFunction(g) /\ SumFunction(f) \in Int
<1> DEFINE D == DOMAIN f
           E == DOMAIN g
           image(s) == {h[x] : x \in s}
           F == Sums(f, D)
           G == Sums(g, E)
           odd == {s \in SUBSET D : F[s] # G[image(s)]}
<1>1. /\ \A x \in D : h[x] \in E
      /\ \A x, y \in D : h[x] = h[y] => x = y
      /\ image(D) = E
  BY DEF Bijection, Injection, IsInjective, Surjection
<1>2. \A y \in E : g[y] \in Int
  BY <1>1
<1>3. odd = {}
  <2> SUFFICES ASSUME odd # {} PROVE FALSE
    OBVIOUS
  <2>1. PICK s \in odd : \A x \in s : s \ {x} \notin odd
    BY SmallestSet
  <2>2. s # {}
    <3>1. F[{}] = 0 /\ G[{}] = 0 /\ image({}) = {}
      BY SumsFacts
    <3>2. F[s] # G[image(s)]
      OBVIOUS
    <3> HIDE DEF F, G, image
    <3> QED
      BY <3>1, <3>2
  <2>3. PICK x \in s : TRUE
    BY <2>2
  <2>4. F[s] = f[x] + F[s \ {x}]
    BY <2>1, <2>3, AnyFirst
  <2>5. image(s) \in SUBSET E /\ h[x] \in image(s)
    BY <1>1, <2>1, <2>3
  <2>6. G[image(s)] = g[h[x]] + G[image(s) \ {h[x]}]
    BY <1>2, <2>5, AnyFirst
  <2>7. image(s) \ {h[x]} = image(s \ {x})
    BY <1>1, <2>1, <2>3
  <2>8. F[s \ {x}] = G[image(s \ {x})]
    BY <2>1, <2>3
  <2>9. g[h[x]] = f[x]
    BY <2>1, <2>3
  <2> HIDE DEF F, G, image
  <2> QED
    BY <2>1, <2>4, <2>6, <2>7, <2>8, <2>9
<1>4. F[D] = G[E] /\ F[D] \in Int
  BY <1>1, <1>3, SumsAreNumbers
<1> QED
  BY <1>4, SumIsOfSums

-----------------------------------------------------------------------------
(***************************************************************************)
(* Reporting groups.                                                       *)
(***************************************************************************)

Fields == {"slug", "label", "order", "class", "from", "to"}

BandRow(r) ==
  /\ DOMAIN r = Fields \cup {"state"}
  /\ r.state \in {"live", "archived"}
  /\ r.from \in Int /\ r.to \in Int

BandsTyped ==
  /\ band = [b \in Bands |-> band[b]]
  /\ \A b \in Bands : band[b] = Absent \/ BandRow(band[b])

(* Two live bands of one slug share no year.                                *)
Apart ==
  \A b, c \in Bands :
    Live(b) /\ Live(c) /\ band[b].slug = band[c].slug =>
      b = c \/ band[b].to < band[c].from \/ band[c].to < band[b].from

(* What is counted exists.                                                  *)
CountsKnown ==
  /\ entered = [y \in PlanYears |-> entered[y]]
  /\ \A y \in PlanYears : entered[y] # Null =>
       \A b \in DOMAIN entered[y].counts : b \in Bands /\ band[b] # Absent

GroupsInv == BandsTyped /\ Apart /\ CountsKnown

(* A definition made a live band.                                           *)
LEMMA LiveBandFacts ==
  ASSUME NEW def \in Definitions
  PROVE  /\ BandRow(LiveBand(def)) /\ LiveBand(def).state = "live"
         /\ LiveBand(def).slug = def.slug /\ LiveBand(def).class = def.class
         /\ LiveBand(def).from = def.from /\ LiveBand(def).to = def.to
         /\ def.from \in Int /\ def.to \in Int
<1>1. DOMAIN def = {"slug", "label", "order", "class", "from", "to"}
  BY BandAssumption
<1>2. /\ LiveBand(def).state = "live"
      /\ DOMAIN LiveBand(def) = DOMAIN def \cup {"state"}
      /\ \A f \in DOMAIN def : LiveBand(def)[f] = def[f]
  BY <1>1 DEF LiveBand, Over
<1> QED
  BY <1>1, <1>2, BandAssumption DEF BandRow, Fields

LEMMA BandRowExists ==
  ASSUME NEW r, BandRow(r)
  PROVE  r # Absent /\ r.state # "absent"
BY DEF BandRow, Absent

(* One band is created or redefined.                                        *)
LEMMA OneBandSet ==
  ASSUME GroupsInv, NEW b \in Bands, NEW def \in Definitions, Definable(def, b),
         band' = [band EXCEPT ![b] = LiveBand(def)]
  PROVE  /\ BandsTyped' /\ Apart'
         /\ \A c \in Bands : band[c] # Absent => band'[c] # Absent
<1>1. /\ band' = [c \in Bands |-> band'[c]]
      /\ band'[b] = LiveBand(def)
      /\ \A c \in Bands \ {b} : band'[c] = band[c]
  BY DEF GroupsInv, BandsTyped
<1>2. \A c \in Bands \ {b} :
        Live(c) /\ band[c].slug = def.slug => band[c].to < def.from \/ def.to < band[c].from
  <2> SUFFICES ASSUME NEW c \in Bands \ {b}, Live(c), band[c].slug = def.slug
               PROVE  band[c].to < def.from \/ def.to < band[c].from
    OBVIOUS
  <2>1. BandRow(band[c])
    BY DEF GroupsInv, BandsTyped, Live, Absent
  <2> QED
    BY <2>1, LiveBandFacts DEF Definable, Overlaps, BandRow
<1>3. BandRow(LiveBand(def)) /\ LiveBand(def) # Absent
  BY LiveBandFacts, BandRowExists
<1>4. ASSUME NEW c \in Bands, NEW d \in Bands, band'[c].state = "live",
             band'[d].state = "live", band'[c].slug = band'[d].slug, c # d
      PROVE  band'[c].to < band'[d].from \/ band'[d].to < band'[c].from
  <2>1. CASE c = b
    BY <1>1, <1>2, <1>4, <2>1, LiveBandFacts DEF Live
  <2>2. CASE d = b
    BY <1>1, <1>2, <1>4, <2>2, LiveBandFacts DEF Live
  <2>3. CASE c # b /\ d # b
    BY <1>1, <1>4, <2>3 DEF GroupsInv, Apart, Live
  <2> QED
    BY <2>1, <2>2, <2>3
<1>5. Apart'
  BY <1>4 DEF Apart, Live
<1> QED
  BY <1>1, <1>3, <1>5 DEF GroupsInv, BandsTyped

LEMMA GroupsStart == DistributionInit => GroupsInv
BY DEF DistributionInit, GroupsInv, BandsTyped, Apart, CountsKnown, Live, Absent

(* An entry leaves the bands there are and adds at most one.                *)
LEMMA EntryAddsBands ==
  ASSUME GroupsInv, SaveDistribution
  PROVE  GroupsInv' /\ \A b \in Bands : band[b] # Absent => band'[b] = band[b]
<1>1. PICK year \in PlanYears :
        \E known \in SUBSET Listed(year),
           new \in {{}} \cup {{b} : b \in {c \in Bands : band[c] = Absent}} :
        \E implied \in [new -> Implied(year)], counts \in [known \cup new -> Totals] :
        \E total \in Totals, exclusive \in BOOLEAN :
        \E order \in Bijection(known \cup new, 0 .. Cardinality(known \cup new) - 1) :
          Enter(year, implied, counts, total, exclusive, order)
  BY DEF SaveDistribution
<1>2. PICK known \in SUBSET Listed(year),
           new \in {{}} \cup {{b} : b \in {c \in Bands : band[c] = Absent}} :
        \E implied \in [new -> Implied(year)], counts \in [known \cup new -> Totals] :
        \E total \in Totals, exclusive \in BOOLEAN :
        \E order \in Bijection(known \cup new, 0 .. Cardinality(known \cup new) - 1) :
          Enter(year, implied, counts, total, exclusive, order)
  BY <1>1
<1>3. PICK implied \in [new -> Implied(year)], counts \in [known \cup new -> Totals],
           total \in Totals, exclusive \in BOOLEAN :
        \E order \in Bijection(known \cup new, 0 .. Cardinality(known \cup new) - 1) :
          Enter(year, implied, counts, total, exclusive, order)
  BY <1>2
<1> DEFINE labels == LabelsOf(entered[year], counts, Over(implied, band))
<1>4. /\ band' = Over(implied, band)
      /\ \A b \in new : Definable(implied[b], b)
      /\ entered' = [entered EXCEPT ![year] =
           [total |-> total, exclusive |-> exclusive, counts |-> counts, labels |-> labels]]
  BY <1>3 DEF Enter, Values
<1> HIDE DEF labels
<1>5. /\ BandsTyped' /\ Apart'
      /\ \A c \in Bands : band[c] # Absent => band'[c] = band[c]
      /\ \A c \in new : c \in Bands /\ band'[c] # Absent
  <2>1. CASE new = {}
    <3>1. band' = band
      BY <1>4, <2>1 DEF Over, GroupsInv, BandsTyped
    <3> QED
      BY <2>1, <3>1 DEF GroupsInv, BandsTyped, Apart, Live
  <2>2. CASE new # {}
    <3>1. PICK b \in Bands : new = {b} /\ band[b] = Absent
      BY <1>2, <2>2
    <3>2. PICK def \in Definitions : implied[b] = LiveBand(def)
      BY <1>3, <3>1 DEF Implied
    <3>3. band' = [band EXCEPT ![b] = LiveBand(def)]
      BY <1>4, <3>1, <3>2 DEF Over, GroupsInv, BandsTyped
    <3>4. Definable(def, b)
      BY <1>4, <3>1, <3>2, LiveBandFacts DEF Definable, Overlaps, Indexed
    <3>5. band'[b] # Absent /\ \A c \in Bands \ {b} : band'[c] = band[c]
      BY <3>3, LiveBandFacts, BandRowExists DEF GroupsInv, BandsTyped
    <3> QED
      BY <3>1, <3>3, <3>4, <3>5, OneBandSet
  <2> QED
    BY <2>1, <2>2
<1>6. CountsKnown'
  <2>1. \A c \in known \cup new : c \in Bands /\ band'[c] # Absent
    BY <1>2, <1>5, BandRowExists DEF Listed, Effective, Live, Absent
  <2> QED
    BY <1>4, <1>5, <2>1 DEF GroupsInv, CountsKnown
<1> QED
  BY <1>5, <1>6 DEF GroupsInv

(* What each operation does to the bands, and to what is counted.           *)
LEMMA GroupsStep ==
  ASSUME GroupsInv, DistributionNext
  PROVE  GroupsInv'
<1>1. CASE CreateBand
  <2>1. PICK b \in Bands, def \in Definitions :
          Definable(def, b) /\ band' = [band EXCEPT ![b] = LiveBand(def)] /\ entered' = entered
    BY <1>1 DEF CreateBand
  <2> QED
    BY <2>1, OneBandSet DEF GroupsInv, CountsKnown
<1>2. CASE UpdateBand
  <2>1. PICK b \in Bands, def \in Definitions :
          Definable(def, b) /\ band' = [band EXCEPT ![b] = LiveBand(def)] /\ entered' = entered
    BY <1>2 DEF UpdateBand
  <2> QED
    BY <2>1, OneBandSet DEF GroupsInv, CountsKnown
<1>3. CASE ReorderBands
  <2>0. PICK year \in PlanYears :
          \E order \in Bijection(Listed(year), 0 .. Cardinality(Listed(year)) - 1) :
            /\ band' = [b \in Bands |-> IF b \in Listed(year)
                                        THEN [band[b] EXCEPT !.order = order[b]] ELSE band[b]]
            /\ entered' = entered
    BY <1>3 DEF ReorderBands
  <2>1. PICK order \in Bijection(Listed(year), 0 .. Cardinality(Listed(year)) - 1) :
            /\ band' = [b \in Bands |-> IF b \in Listed(year)
                                        THEN [band[b] EXCEPT !.order = order[b]] ELSE band[b]]
            /\ entered' = entered
    BY <2>0
  <2>2. \A b \in Bands :
          /\ band'[b] = Absent <=> band[b] = Absent
          /\ band[b] # Absent =>
               /\ BandRow(band'[b])
               /\ \A f \in {"state", "slug", "from", "to"} : band'[b][f] = band[b][f]
    <3> SUFFICES ASSUME NEW b \in Bands
                 PROVE  /\ band'[b] = Absent <=> band[b] = Absent
                        /\ band[b] # Absent =>
                             /\ BandRow(band'[b])
                             /\ \A f \in {"state", "slug", "from", "to"} :
                                  band'[b][f] = band[b][f]
      OBVIOUS
    <3>1. CASE b \in Listed(year)
      <4>1. BandRow(band[b])
        BY <3>1 DEF Listed, Effective, Live, GroupsInv, BandsTyped, Absent
      <4>2. band'[b] = [band[b] EXCEPT !.order = order[b]]
        BY <2>1, <3>1
      <4>3. BandRow(band'[b]) /\ \A f \in {"state", "slug", "from", "to"} :
                                  band'[b][f] = band[b][f]
        BY <4>1, <4>2 DEF BandRow, Fields
      <4> QED
        BY <4>1, <4>3, BandRowExists
    <3>2. CASE b \notin Listed(year)
      BY <2>1, <3>2 DEF GroupsInv, BandsTyped
    <3> QED
      BY <3>1, <3>2
  <2>3. BandsTyped' /\ CountsKnown'
    BY <2>1, <2>2 DEF GroupsInv, BandsTyped, CountsKnown
  <2>4. Apart'
    <3> SUFFICES ASSUME NEW b \in Bands, NEW c \in Bands, Live(b)', Live(c)',
                        (band[b].slug = band[c].slug)', b # c
                 PROVE  (band[b].to < band[c].from \/ band[c].to < band[b].from)'
      BY DEF Apart
    <3>1. band[b] # Absent /\ band[c] # Absent
      BY <2>2 DEF Live, Absent
    <3> QED
      BY <2>2, <3>1 DEF GroupsInv, Apart, Live
  <2> QED
    BY <2>3, <2>4 DEF GroupsInv
<1>4. CASE ArchiveBand
  <2>1. PICK b \in Bands :
          Live(b) /\ band' = [band EXCEPT ![b].state = "archived"] /\ entered' = entered
    BY <1>4 DEF ArchiveBand
  <2>2. BandRow(band[b]) /\ BandRow(band'[b]) /\ band'[b].state = "archived"
    BY <2>1 DEF GroupsInv, BandsTyped, BandRow, Live, Absent, Fields
  <2>3. \A c \in Bands \ {b} : band'[c] = band[c]
    BY <2>1 DEF GroupsInv, BandsTyped
  <2>4. BandsTyped'
    BY <2>1, <2>2, <2>3 DEF GroupsInv, BandsTyped
  <2>5. Apart'
    BY <2>2, <2>3 DEF GroupsInv, Apart, Live
  <2>6. CountsKnown'
    BY <2>1, <2>2, <2>3, BandRowExists DEF GroupsInv, CountsKnown
  <2> QED
    BY <2>4, <2>5, <2>6 DEF GroupsInv
<1>5. CASE RestoreBand
  <2>1. PICK b \in Bands :
          /\ band[b].state = "archived" /\ ~Overlaps(band[b], b)
          /\ band' = [band EXCEPT ![b].state = "live"] /\ entered' = entered
    BY <1>5 DEF RestoreBand
  <2>2. /\ BandRow(band[b]) /\ BandRow(band'[b]) /\ band'[b].state = "live"
        /\ \A f \in Fields : band'[b][f] = band[b][f]
    BY <2>1 DEF GroupsInv, BandsTyped, BandRow, Absent, Fields
  <2>3. \A c \in Bands \ {b} : band'[c] = band[c]
    BY <2>1 DEF GroupsInv, BandsTyped
  <2>4. BandsTyped'
    BY <2>1, <2>2, <2>3 DEF GroupsInv, BandsTyped
  <2>5. \A c \in Bands \ {b} : Live(c) /\ band[c].slug = band[b].slug =>
          band[c].to < band[b].from \/ band[b].to < band[c].from
    <3> SUFFICES ASSUME NEW c \in Bands \ {b}, Live(c), band[c].slug = band[b].slug
                 PROVE  band[c].to < band[b].from \/ band[b].to < band[c].from
      OBVIOUS
    <3>1. BandRow(band[c])
      BY DEF GroupsInv, BandsTyped, Live, Absent
    <3> QED
      BY <2>1, <2>2, <3>1 DEF Overlaps, BandRow
  <2>6. Apart'
    <3> SUFFICES ASSUME NEW c \in Bands, NEW d \in Bands, Live(c)', Live(d)',
                        (band[c].slug = band[d].slug)', c # d
                 PROVE  (band[c].to < band[d].from \/ band[d].to < band[c].from)'
      BY DEF Apart
    <3>1. CASE c = b
      BY <2>2, <2>3, <2>5, <3>1 DEF Live, Fields
    <3>2. CASE d = b
      BY <2>2, <2>3, <2>5, <3>2 DEF Live, Fields
    <3>3. CASE c # b /\ d # b
      BY <2>3, <3>3 DEF GroupsInv, Apart, Live
    <3> QED
      BY <3>1, <3>2, <3>3
  <2>7. CountsKnown'
    BY <2>1, <2>2, <2>3, BandRowExists DEF GroupsInv, CountsKnown
  <2> QED
    BY <2>4, <2>6, <2>7 DEF GroupsInv
<1>6. CASE SaveDistribution
  BY <1>6, EntryAddsBands
<1>7. CASE RemoveDistribution
  BY <1>7 DEF RemoveDistribution, GroupsInv, BandsTyped, Apart, CountsKnown, Live
<1>8. CASE Freeze
  BY <1>8 DEF Freeze, GroupsInv, BandsTyped, Apart, CountsKnown, Live
<1> QED
  BY <1>1, <1>2, <1>3, <1>4, <1>5, <1>6, <1>7, <1>8 DEF DistributionNext

(* A band that was counted keeps its class, unless its entry is replaced.   *)
LEMMA ClassesStay ==
  ASSUME GroupsInv, DistributionNext, NEW year \in PlanYears,
         entered[year] # Null, entered'[year] = entered[year],
         NEW b \in DOMAIN entered[year].counts
  PROVE  band'[b].class = band[b].class
<1>1. /\ b \in Bands /\ BandRow(band[b]) /\ HasValues(b)
      /\ band = [c \in Bands |-> band[c]]
  BY DEF GroupsInv, BandsTyped, CountsKnown, HasValues
<1>2. CASE CreateBand
  <2>1. PICK c \in Bands, def \in Definitions :
          band[c] = Absent /\ band' = [band EXCEPT ![c] = LiveBand(def)]
    BY <1>2 DEF CreateBand
  <2> QED
    BY <1>1, <2>1, BandRowExists
<1>3. CASE UpdateBand
  <2>1. PICK c \in Bands, def \in Definitions :
          Reclassifiable(c, def) /\ band' = [band EXCEPT ![c] = LiveBand(def)]
    BY <1>3 DEF UpdateBand
  <2> QED
    BY <1>1, <2>1, LiveBandFacts DEF Reclassifiable
<1>4. CASE ReorderBands
  <2>1. PICK y \in PlanYears :
          \E order \in Bijection(Listed(y), 0 .. Cardinality(Listed(y)) - 1) :
            band' = [c \in Bands |-> IF c \in Listed(y)
                                    THEN [band[c] EXCEPT !.order = order[c]] ELSE band[c]]
    BY <1>4 DEF ReorderBands
  <2> QED
    BY <1>1, <2>1 DEF BandRow, Fields
<1>5. CASE ArchiveBand
  BY <1>1, <1>5 DEF ArchiveBand, BandRow, Fields
<1>6. CASE RestoreBand
  BY <1>1, <1>6 DEF RestoreBand, BandRow, Fields
<1>7. CASE SaveDistribution
  BY <1>1, <1>7, EntryAddsBands, BandRowExists
<1>8. CASE RemoveDistribution \/ Freeze
  BY <1>8 DEF RemoveDistribution, Freeze
<1> QED
  BY <1>2, <1>3, <1>4, <1>5, <1>6, <1>7, <1>8 DEF DistributionNext

LEMMA GroupsInvariance == EntrySpec => []GroupsInv
<1>1. DistributionInit => GroupsInv
  BY GroupsStart
<1>2. GroupsInv /\ [EntryNext]_entryVars => GroupsInv'
  <2> SUFFICES ASSUME GroupsInv, [EntryNext]_entryVars PROVE GroupsInv'
    OBVIOUS
  <2>1. CASE UNCHANGED groups
    BY <2>1 DEF groups, GroupsInv, BandsTyped, Apart, CountsKnown, Live
  <2>2. CASE DistributionNext
    BY <2>2, GroupsStep
  <2> QED
    BY <2>1, <2>2 DEF EntryNext, entryVars
<1> QED
  BY <1>1, <1>2, PTL DEF EntrySpec, entryVars

(* However bands are created, moved, implied by entries, archived and       *)
(* restored, an entry by slug has one band (findBand, value-entry.ts).      *)
THEOREM OneBandAlways == EntrySpec => []OneBandPerYear
<1>1. GroupsInv => OneBandPerYear
  <2> SUFFICES ASSUME GroupsInv, NEW year \in PlanYears, NEW b \in Listed(year),
                      NEW c \in Listed(year), band[b].slug = band[c].slug, b # c
               PROVE  FALSE
    BY DEF OneBandPerYear
  <2>1. /\ b \in Bands /\ Live(b) /\ band[b].from <= year /\ year <= band[b].to
        /\ c \in Bands /\ Live(c) /\ band[c].from <= year /\ year <= band[c].to
    BY DEF Listed, Effective
  <2>2. BandRow(band[b]) /\ BandRow(band[c]) /\ year \in Int
    BY <2>1, EntryAssumption DEF GroupsInv, BandsTyped, Live, Absent
  <2> QED
    BY <2>1, <2>2 DEF GroupsInv, Apart, BandRow
<1> QED
  BY <1>1, GroupsInvariance, PTL

-----------------------------------------------------------------------------
(* A sequence of a finite set lists each element once.                      *)
LEMMA ListedOnce ==
  ASSUME NEW S, IsFiniteSet(S)
  PROVE  SetToSeq(S) \in Bijection(1 .. Cardinality(S), S) /\ Cardinality(S) \in Nat
<1> DEFINE D == 1 .. Cardinality(S)
<1>1. Cardinality(S) \in Nat /\ \E f : f \in Bijection(D, S)
  BY FS_CardinalityType DEF ExistsBijection
<1>2. \E f \in [D -> S] : IsInjective(f)
  BY <1>1 DEF Bijection, Injection
<1>3. SetToSeq(S) \in [D -> S] /\ IsInjective(SetToSeq(S))
  BY <1>2 DEF SetToSeq
<1>4. SetToSeq(S) \in Injection(D, S)
  BY <1>3 DEF Injection
<1>5. Cardinality(D) = Cardinality(S) /\ IsFiniteSet(D)
  BY <1>1, FS_Interval
<1> QED
  BY <1>1, <1>4, <1>5, FS_Injection DEF Bijection

(* What the rules of a distribution say of the counts that are written.     *)
LEMMA AcceptedCounts ==
  ASSUME NEW S, IsFiniteSet(S), NEW counts \in [S -> Totals], NEW defs,
         NEW total, NEW exclusive,
         AcceptsDistribution(DistributionWrite(defs, counts, total, exclusive))
  PROVE  /\ \A b \in S : counts[b] <= total
         /\ exclusive => SumFunction(counts) = total
<1> DEFINE named == SetToSeq(S)
           w == DistributionWrite(defs, counts, total, exclusive)
           told == [i \in DOMAIN w.bands |-> w.bands[i].count]
<1>1. /\ named \in Bijection(DOMAIN named, S) /\ IsFiniteSet(DOMAIN named)
      /\ \A b \in S : \E i \in DOMAIN named : named[i] = b
      /\ \A i \in DOMAIN named : named[i] \in S
  <2>1. DOMAIN named = 1 .. Cardinality(S)
    BY ListedOnce DEF Bijection, Injection
  <2>2. IsFiniteSet(1 .. Cardinality(S))
    BY ListedOnce, FS_Interval
  <2> QED
    BY <2>1, <2>2, ListedOnce DEF Bijection, Injection, Surjection
<1> HIDE DEF named
<1>2. DOMAIN counts = S
  OBVIOUS
<1>3. /\ w.total = total /\ w.exclusive = exclusive /\ DOMAIN w.bands = DOMAIN named
      /\ \A i \in DOMAIN named : w.bands[i].count = counts[named[i]]
  BY <1>2 DEF DistributionWrite, named
<1>4. /\ \A b \in Elements(w.bands) : b.count \in 0 .. total
      /\ exclusive => SumFunction(told) = total
  BY <1>3 DEF AcceptsDistribution, SumOf
<1> HIDE DEF w
<1>5. ASSUME NEW b \in S PROVE counts[b] <= total
  <2>1. PICK i \in DOMAIN named : named[i] = b
    BY <1>1
  <2>2. w.bands[i].count \in 0 .. total
    BY <1>3, <1>4, <2>1 DEF Elements
  <2> QED
    BY <1>3, <2>1, <2>2
<1>6. SumFunction(told) = SumFunction(counts)
  <2>1. DOMAIN told = DOMAIN named
    BY <1>3
  <2>2. \A i \in DOMAIN told : told[i] \in Int /\ counts[named[i]] = told[i]
    BY <1>1, <1>3, BandAssumption
  <2> HIDE DEF told
  <2> QED
    BY <1>1, <1>2, <2>1, <2>2, SumsAlong
<1> QED
  BY <1>4, <1>5, <1>6

(* An entry replaces the counts of its year as a whole; nothing else moves  *)
(* a count.                                                                *)
LEMMA CountsStep ==
  ASSUME GroupsInv, CountsAreOfOneEntry, DistributionNext
  PROVE  CountsAreOfOneEntry'
<1>1. CASE UNCHANGED entered
  BY <1>1 DEF CountsAreOfOneEntry
<1>2. CASE RemoveDistribution
  BY <1>2 DEF RemoveDistribution, GroupsInv, CountsKnown, CountsAreOfOneEntry
<1>3. CASE SaveDistribution
  <2>0. PICK year \in PlanYears :
          \E known \in SUBSET Listed(year),
             new \in {{}} \cup {{b} : b \in {c \in Bands : band[c] = Absent}} :
          \E implied \in [new -> Implied(year)], counts \in [known \cup new -> Totals] :
          \E total \in Totals, exclusive \in BOOLEAN :
          \E order \in Bijection(known \cup new, 0 .. Cardinality(known \cup new) - 1) :
            Enter(year, implied, counts, total, exclusive, order)
    BY <1>3 DEF SaveDistribution
  <2>1. PICK known \in SUBSET Listed(year),
             new \in {{}} \cup {{b} : b \in {c \in Bands : band[c] = Absent}} :
          \E implied \in [new -> Implied(year)], counts \in [known \cup new -> Totals] :
          \E total \in Totals, exclusive \in BOOLEAN :
          \E order \in Bijection(known \cup new, 0 .. Cardinality(known \cup new) - 1) :
            Enter(year, implied, counts, total, exclusive, order)
    BY <2>0
  <2>2. PICK implied \in [new -> Implied(year)], counts \in [known \cup new -> Totals],
             total \in Totals, exclusive \in BOOLEAN,
             order \in Bijection(known \cup new, 0 .. Cardinality(known \cup new) - 1) :
          Enter(year, implied, counts, total, exclusive, order)
    BY <2>1
  <2> DEFINE S == known \cup new
             asked == [b \in DOMAIN counts |-> [Over(implied, band)[b] EXCEPT !.order = order[b]]]
             labels == LabelsOf(entered[year], counts, Over(implied, band))
             e == [total |-> total, exclusive |-> exclusive, counts |-> counts,
                   labels |-> labels]
  <2>3. IsFiniteSet(S)
    <3>1. S \subseteq Bands
      BY <2>1 DEF Listed
    <3> QED
      BY <3>1, BandAssumption, FS_Subset
  <2>4. /\ AcceptsDistribution(DistributionWrite(asked, counts, total, exclusive))
        /\ entered' = [entered EXCEPT ![year] = e]
    BY <2>2 DEF Enter, Values
  <2> HIDE DEF asked, labels
  <2>5. /\ \A b \in DOMAIN e.counts : e.counts[b] <= e.total
        /\ e.exclusive => SumFunction(e.counts) = e.total
    BY <2>3, <2>4, AcceptedCounts
  <2> HIDE DEF e
  <2>6. /\ entered'[year] = e
        /\ \A y \in PlanYears \ {year} : entered'[y] = entered[y]
    BY <2>4 DEF GroupsInv, CountsKnown
  <2> QED
    BY <2>5, <2>6 DEF CountsAreOfOneEntry
<1> QED
  BY <1>1, <1>2, <1>3 DEF DistributionNext, CreateBand, UpdateBand, ReorderBands, ArchiveBand,
     RestoreBand, Freeze

LEMMA CountsInvariance == EntrySpec => []CountsAreOfOneEntry
<1>1. DistributionInit => CountsAreOfOneEntry
  BY DEF DistributionInit, CountsAreOfOneEntry
<1>2. GroupsInv /\ CountsAreOfOneEntry /\ [EntryNext]_entryVars => CountsAreOfOneEntry'
  BY CountsStep DEF EntryNext, entryVars, groups, CountsAreOfOneEntry
<1> QED
  BY <1>1, <1>2, GroupsInvariance, PTL DEF EntrySpec, entryVars

-----------------------------------------------------------------------------
(* No edit of the bands rewrites a reported share: a class is part of every *)
(* composition its band was counted in (updateStrategyDistributionBand).    *)
THEOREM SharesAlwaysStand == EntrySpec => SharesStand
<1>1. GroupsInv /\ [EntryNext]_entryVars =>
        [\A year \in PlanYears :
           entered[year] # Null /\ entered'[year] = entered[year] =>
             DerivedShare(year)' = DerivedShare(year)]_entryVars
  <2> SUFFICES ASSUME GroupsInv, EntryNext, NEW year \in PlanYears,
                      entered[year] # Null, entered'[year] = entered[year]
               PROVE  DerivedShare(year)' = DerivedShare(year)
    BY DEF entryVars
  <2>1. \A b \in DOMAIN entered[year].counts : band'[b].class = band[b].class
    BY ClassesStay DEF EntryNext, groups
  <2>2. {b \in DOMAIN entered[year].counts : band'[b].class = "non_white"} =
        {b \in DOMAIN entered[year].counts : band[b].class = "non_white"}
    BY <2>1
  <2> QED
    BY <2>2 DEF DerivedShare
<1> QED
  BY <1>1, GroupsInvariance, PTL DEF EntrySpec, entryVars, SharesStand

-----------------------------------------------------------------------------
(***************************************************************************)
(* A stored result is read back as it was written.                         *)
(***************************************************************************)

(* The mode and the index a result of this period is edited under.          *)
ReadMode(c, type) == IF c.frequency = "flexible" /\ type = "annual" THEN "annual" ELSE "monthly"

LEMMA PeriodReadsBack ==
  ASSUME NEW c, NEW d, NEW year, NEW w,
         w.year = year, w.month = FormPeriod(c, d).month, w.quarter = FormPeriod(c, d).quarter,
         w.mode = FormPeriod(c, d).mode,
         AcceptsPeriod(c, d),
         WritePeriod(c, w) # Null,
         NEW e, e.mode = ReadMode(c, WritePeriod(c, w).resolved),
         e.index = WritePeriod(c, w).index
  PROVE  /\ FormFrequency(c, e) = FormFrequency(c, d)
         /\ FormPeriod(c, e) = FormPeriod(c, d)
         /\ FormFrequency(c, d) \in {"monthly", "quarterly"} => e.index = d.index
<1> DEFINE asked == [frequency |-> c.frequency, year |-> year, index |-> Null,
                     month |-> w.month, quarter |-> w.quarter, mode |-> w.mode]
           f == FormFrequency(c, d)
<1>1. WritePeriod(c, w) = P!ValidatedPeriod(asked)
  BY DEF WritePeriod, FormPeriod
<1>2. /\ c.frequency \in P!Frequencies
      /\ P!Resolved(c.frequency, w.mode) # Null
      /\ WritePeriod(c, w).resolved = P!Resolved(c.frequency, w.mode)
      /\ WritePeriod(c, w).index = P!PeriodIndex(asked, P!Resolved(c.frequency, w.mode))
  BY <1>1 DEF P!ValidatedPeriod
<1>3. P!Resolved(c.frequency, w.mode) = f
  BY <1>2 DEF P!Resolved, P!Frequencies, P!ConcreteFrequencies, P!FlexibleModes, FormPeriod,
              FormFrequency
<1>4. c.frequency = "flexible" => d.mode \in {"monthly", "annual"}
  BY <1>2 DEF P!Resolved, P!Frequencies, P!ConcreteFrequencies, P!FlexibleModes, FormPeriod
<1>5. e.mode = d.mode \/ c.frequency # "flexible"
  BY <1>2, <1>3, <1>4 DEF ReadMode, FormFrequency
<1>6. FormFrequency(c, e) = f
  BY <1>5 DEF FormFrequency
<1>7. CASE f = "monthly"
  <2>1. P!SuppliedIndexes(asked) = {"month"}
    BY <1>7, NumberAssumption DEF AcceptsPeriod, P!SuppliedIndexes, FormPeriod
  <2>2. e.index = d.index
    BY <1>2, <1>3, <1>7, <2>1 DEF P!PeriodIndex, FormPeriod
  <2> QED
    BY <1>5, <1>6, <1>7, <2>2 DEF FormPeriod
<1>8. CASE f = "quarterly"
  <2>1. P!SuppliedIndexes(asked) = {"quarter"}
    BY <1>8, NumberAssumption DEF AcceptsPeriod, P!SuppliedIndexes, FormPeriod
  <2>2. e.index = d.index
    BY <1>2, <1>3, <1>8, <2>1 DEF P!PeriodIndex, FormPeriod
  <2> QED
    BY <1>5, <1>6, <1>8, <2>2 DEF FormPeriod
<1>9. CASE f \notin {"monthly", "quarterly"}
  BY <1>5, <1>6, <1>9 DEF FormPeriod
<1> QED
  BY <1>6, <1>7, <1>8, <1>9

WriteFields(c, d, w, year) ==
  /\ w.year = year
  /\ w.value = (IF c.type = "binary" THEN d.binary
                ELSE IF c.type \in {"percentage", "ratio", "average"} THEN Null ELSE d.value)
  /\ w.num = (IF c.type \in {"percentage", "ratio"} THEN d.num ELSE Null)
  /\ w.den = (IF c.type \in {"percentage", "ratio"} /\ c.fixed = Null THEN d.den ELSE Null)
  /\ c.type # "average" => w.avg = Null

LEMMA WriteHasFields ==
  ASSUME NEW c, NEW d, NEW year
  PROVE  WriteFields(c, d, FormWrite(c, d, year), year)
BY DEF WriteFields, FormWrite

LEMMA MethodIsSent ==
  ASSUME NEW m
  PROVE  "method" \in SentFields(m) /\ SentFields(m) \subseteq DOMAIN NoAverage
BY DEF SentFields, NoAverage

(* What is sent of an average's fields.                                     *)
Sent(d) ==
  [f \in DOMAIN NoAverage |-> IF f \in SentFields(d.method) THEN d[f] ELSE Null]

LEMMA AverageIsSent ==
  ASSUME NEW c, c.type = "average", NEW d, NEW year
  PROVE  FormWrite(c, d, year).avg = Sent(d)
BY DEF FormWrite, Sent

LEMMA SentHasMethod ==
  ASSUME NEW d
  PROVE  Sent(d).method = d.method
BY MethodIsSent DEF Sent

(* The method, which is not stored, is told by the fields that are.         *)
LEMMA AverageReadsBack ==
  ASSUME NEW c, c.type = "average", NEW d, NEW year,
         FormAccepts(c, d), AcceptsResult(c, FormWrite(c, d, year)),
         NEW raw, raw = StoredRow(c, FormWrite(c, d, year)).raw
  PROVE  /\ d.method \in Methods /\ InferredMethod(raw) = d.method
         /\ (IF InferredMethod(raw) = Null THEN "total_score" ELSE InferredMethod(raw)) = d.method
         /\ AverageRules(Sent(d), c.allowOver)
         /\ \A f \in DOMAIN NoAverage \ {"method"} :
              raw[f] = IF f \in SentFields(d.method) THEN d[f] ELSE Null
         /\ \A f \in SentFields(d.method) \ {"method"} : raw[f] = d[f]
<1> DEFINE w == FormWrite(c, d, year)
<1>1. w.avg = Sent(d)
  BY AverageIsSent
<1>2. w.avg # Null /\ AverageRules(w.avg, c.allowOver)
  BY DEF AcceptsResult
<1>3. \A f \in DOMAIN NoAverage \ {"method"} : raw[f] = w.avg[f]
  BY <1>2 DEF StoredRow
<1> HIDE DEF w
<1>4. \A f \in DOMAIN NoAverage \ {"method"} :
        raw[f] = IF f \in SentFields(d.method) THEN d[f] ELSE Null
  BY <1>1, <1>3 DEF Sent
<1>5. \A f \in SentFields(d.method) \ {"method"} : raw[f] = d[f]
  BY <1>4, MethodIsSent
<1>6. d.method \in Methods
  BY <1>1, <1>2, SentHasMethod DEF AverageRules
<1>7. AcceptsAverage(d)
  BY DEF FormAccepts
<1>8. InferredMethod(raw) = d.method
  <2>1. CASE d.method = "percent_positive"
    <3>1. raw.positive = d.positive /\ d.positive # Null
      BY <1>5, <1>7, <2>1 DEF SentFields, AcceptsAverage, TypedNonNegative, Typed
    <3> QED
      BY <2>1, <3>1 DEF InferredMethod
  <2>2. CASE d.method = "average_score"
    <3>1. raw.positive = Null /\ raw.averageScore = d.averageScore /\ d.averageScore # Null
      BY <1>4, <1>7, <2>2 DEF SentFields, NoAverage, AcceptsAverage, TypedNonNegative, Typed
    <3> QED
      BY <2>2, <3>1 DEF InferredMethod
  <2>3. CASE d.method = "total_score"
    <3>1. /\ raw.positive = Null /\ raw.averageScore = Null
          /\ raw.totalScore = d.totalScore /\ d.totalScore # Null
      BY <1>4, <1>7, <2>3 DEF SentFields, NoAverage, AcceptsAverage, TypedNonNegative, Typed
    <3> QED
      BY <2>3, <3>1 DEF InferredMethod
  <2> QED
    BY <1>6, <2>1, <2>2, <2>3 DEF Methods
<1> QED
  BY <1>1, <1>2, <1>4, <1>5, <1>6, <1>8, MethodAssumption

(* The form's reading of a stored row inverts the server's writing of it.   *)
LEMMA ReadsBack ==
  ASSUME NEW c, NEW d, NEW year, NEW k,
         FormAccepts(c, d), AcceptsResult(c, FormWrite(c, d, year)),
         NEW s, s = Stored(c, k, FormWrite(c, d, year)),
         NEW e, e = DraftFromRow(s.row, [frequency |-> c.frequency, resolved |-> s.type,
                                         index |-> s.index])
  PROVE  FormAccepts(c, e) /\ FormWrite(c, e, s.year) = FormWrite(c, d, year)
<1> DEFINE w == FormWrite(c, d, year)
           fields == DOMAIN NoAverage \ {"method"}
<1>1. /\ s.year = year /\ s.row = StoredRow(c, w)
      /\ s.type = WritePeriod(c, w).resolved /\ s.index = WritePeriod(c, w).index
  BY DEF Stored, FormWrite
<1>2. /\ e.mode = ReadMode(c, s.type) /\ e.index = s.index
      /\ e.value = (IF s.row.value # Null THEN s.row.value ELSE s.row.milestone)
      /\ e.binary = s.row.completed /\ e.num = s.row.num /\ e.den = s.row.den
      /\ e.method = (IF InferredMethod(s.row.raw) = Null THEN "total_score"
                     ELSE InferredMethod(s.row.raw))
      /\ \A f \in fields : e[f] = s.row.raw[f]
  BY <1>1 DEF DraftFromRow, Over, ReadMode, StoredRow, NoAverage
<1>3. /\ FormFrequency(c, e) = FormFrequency(c, d)
      /\ FormPeriod(c, e) = FormPeriod(c, d)
      /\ FormFrequency(c, d) \in {"monthly", "quarterly"} => e.index = d.index
  <2>1. /\ w.year = year /\ w.month = FormPeriod(c, d).month
        /\ w.quarter = FormPeriod(c, d).quarter /\ w.mode = FormPeriod(c, d).mode
        /\ WritePeriod(c, w) # Null
        /\ AcceptsPeriod(c, d)
    BY DEF FormWrite, FormAccepts, AcceptsResult
  <2> HIDE DEF w
  <2> QED
    BY <1>1, <1>2, <2>1, PeriodReadsBack
<1>4. \A v : WriteFields(c, v, FormWrite(c, v, year), year)
  BY WriteHasFields
<1> HIDE DEF w
<1>5. /\ s.row.value = (IF c.type \notin {"binary", "milestone", "percentage", "ratio", "average"}
                        THEN w.value ELSE Null)
      /\ s.row.completed = (IF c.type = "binary" THEN w.value ELSE Null)
      /\ s.row.milestone = (IF c.type = "milestone" THEN w.value ELSE Null)
      /\ s.row.num = w.num /\ s.row.den = w.den
  BY <1>1 DEF StoredRow
<1>6. AcceptsPeriod(c, e)
  BY <1>3 DEF FormAccepts, AcceptsPeriod
<1>7. ASSUME FormWrite(c, e, year).value = w.value, FormWrite(c, e, year).num = w.num,
             FormWrite(c, e, year).den = w.den, FormWrite(c, e, year).avg = w.avg
      PROVE  FormWrite(c, e, year) = w
  <2>1. \A v : FormPeriod(c, v) = FormPeriod(c, d) =>
          LET u == FormWrite(c, v, year)
          IN  u = [year |-> year, month |-> FormPeriod(c, d).month,
                   quarter |-> FormPeriod(c, d).quarter, mode |-> FormPeriod(c, d).mode,
                   value |-> u.value, num |-> u.num, den |-> u.den, avg |-> u.avg]
    BY DEF FormWrite
  <2> QED
    BY <1>3, <1>7, <2>1 DEF w
<1>8. CASE c.type = "average"
  <2>1. /\ e.method = d.method
        /\ \A f \in SentFields(d.method) \ {"method"} : e[f] = d[f]
    <3> DEFINE raw == s.row.raw
    <3>1. raw = StoredRow(c, FormWrite(c, d, year)).raw
      BY <1>1 DEF w
    <3>2. e.method = (IF InferredMethod(raw) = Null THEN "total_score" ELSE InferredMethod(raw))
      BY <1>2
    <3>3. \A f \in fields : e[f] = raw[f]
      BY <1>2
    <3> HIDE DEF raw
    <3>4. e.method = d.method
      BY <1>8, <3>1, <3>2, AverageReadsBack
    <3>5. \A f \in SentFields(d.method) \ {"method"} : raw[f] = d[f]
      BY <1>8, <3>1, AverageReadsBack
    <3> QED
      BY <3>3, <3>4, <3>5, MethodIsSent
  <2>2. AcceptsAverage(d)
    BY <1>8 DEF FormAccepts
  <2>3. AcceptsAverage(e)
    BY <2>1, <2>2 DEF AcceptsAverage, SentFields
  <2>4. FormAccepts(c, e)
    BY <1>6, <1>8, <2>3 DEF FormAccepts
  <2>5. FormWrite(c, e, year).avg = w.avg
    <3>1. Sent(e) = Sent(d)
      BY <2>1 DEF Sent
    <3> QED
      BY <1>8, <3>1, AverageIsSent DEF w
  <2>6. FormWrite(c, e, year) = w
    BY <1>4, <1>7, <1>8, <2>5 DEF WriteFields, w
  <2> QED
    BY <1>1, <2>4, <2>6 DEF w
<1>9. CASE c.type \in {"percentage", "ratio"}
  <2>1. /\ e.num = d.num
        /\ e.den = (IF c.fixed = Null THEN d.den ELSE Null)
    BY <1>2, <1>4, <1>5, <1>9 DEF WriteFields, w
  <2>2. AcceptsFraction(c, d)
    BY <1>9 DEF FormAccepts
  <2>3. AcceptsFraction(c, e)
    BY <2>1, <2>2 DEF AcceptsFraction
  <2>4. FormAccepts(c, e)
    BY <1>6, <1>9, <2>3 DEF FormAccepts
  <2>5. /\ FormWrite(c, e, year).value = w.value /\ FormWrite(c, e, year).num = w.num
        /\ FormWrite(c, e, year).den = w.den /\ FormWrite(c, e, year).avg = w.avg
    BY <1>4, <1>9, <2>1 DEF WriteFields, w
  <2> QED
    BY <1>1, <1>7, <1>9, <2>4, <2>5 DEF w
<1>10. CASE c.type = "binary"
  <2>1. e.binary = d.binary
    BY <1>2, <1>4, <1>5, <1>10 DEF WriteFields, w
  <2>2. FormAccepts(c, e)
    BY <1>6, <1>10, <2>1 DEF FormAccepts
  <2>3. /\ FormWrite(c, e, year).value = w.value /\ FormWrite(c, e, year).num = w.num
        /\ FormWrite(c, e, year).den = w.den /\ FormWrite(c, e, year).avg = w.avg
    BY <1>4, <1>10, <2>1 DEF WriteFields, w
  <2> QED
    BY <1>1, <1>7, <1>10, <2>2, <2>3 DEF w
<1>11. CASE c.type \in {"count", "currency", "cumulative", "year_over_year", "milestone"}
  <2>1. Typed(d.value)
    BY <1>11 DEF FormAccepts
  <2>2. e.value = d.value
    BY <1>2, <1>4, <1>5, <1>11, <2>1 DEF Typed, WriteFields, w
  <2>3. FormAccepts(c, e)
    BY <1>6, <1>11, <2>2 DEF FormAccepts
  <2>4. /\ FormWrite(c, e, year).value = w.value /\ FormWrite(c, e, year).num = w.num
        /\ FormWrite(c, e, year).den = w.den /\ FormWrite(c, e, year).avg = w.avg
    BY <1>4, <1>11, <2>2 DEF WriteFields, w
  <2> QED
    BY <1>1, <1>7, <1>11, <2>3, <2>4 DEF w
<1> QED
  BY <1>8, <1>9, <1>10, <1>11 DEF FormAccepts, w

TypedFields ==
  {"value", "binary", "num", "den", "respondents", "totalScore", "averageScore", "maxEach",
   "possible", "positive", "responses"}

(* A result is what the form and the server made of some draft.             *)
Entered(s) ==
  \E d :
    LET c == Owner(s)
    IN  /\ \A f \in TypedFields : d[f] \in Readings
        /\ FormAccepts(c, d) /\ AcceptsResult(c, FormWrite(c, d, s.year))
        /\ s = Stored(c, s.component, FormWrite(c, d, s.year))

(* A Measure of one input has one result for each year and period.          *)
Alone ==
  measure.type # "multi_component" =>
    /\ IsFiniteSet(stored) /\ \A s \in stored : s.component = Null
    /\ \A s, r \in stored : SameResult(s, r) => s = r

ResultsInv == measure \in Measures /\ (\A s \in stored : Entered(s)) /\ Alone

LEMMA ComponentsOwn ==
  ASSUME measure \in Measures, NEW i \in DOMAIN measure.components,
         NEW s, s.component = measure.components[i].id
  PROVE  Owner(s) = measure.components[i]
BY EntryAssumption DEF Owner, Elements

LEMMA DraftsTyped ==
  ASSUME NEW type \in DOMAIN Numbers, NEW typed \in Fillings(type), NEW mode, NEW i,
         NEW f \in TypedFields
  PROVE  Draft(typed, mode, i)[f] \in Readings
<1>1. PICK fields \in FilledFields(type) : typed \in [fields \ {"method"} -> Numbers[type]]
  BY DEF Fillings
<1>2. f \in DOMAIN Blank /\ Blank[f] = Null /\ f \notin {"method", "mode", "index"}
  BY DEF Blank, TypedFields
<1>3. Draft(typed, mode, i)[f] = Over(typed, Blank)[f]
  BY <1>2 DEF Draft, Over
<1>4. Over(typed, Blank)[f] = IF f \in DOMAIN typed THEN typed[f] ELSE Null
  BY <1>2 DEF Over
<1> QED
  BY <1>1, <1>3, <1>4, EntryAssumption DEF Readings

(* A result replaces the one of its period.                                 *)
LEMMA AloneSaved ==
  ASSUME Alone, measure' = measure, NEW s, s.component = Null,
         stored' = Upserted(stored, {s})
  PROVE  Alone'
<1> SUFFICES ASSUME measure.type # "multi_component" PROVE Alone'
  BY DEF Alone
<1> DEFINE kept == {r \in stored : ~ SameResult(r, s)}
<1>1. stored' = kept \cup {s}
  BY DEF Upserted
<1>2. IsFiniteSet(kept)
  BY FS_Subset DEF Alone
<1>3. IsFiniteSet(stored')
  BY <1>1, <1>2, FS_AddElement
<1>4. \A r \in kept : r \in stored /\ r.component = Null /\ ~ SameResult(r, s)
  BY DEF Alone
<1>5. \A r, q : SameResult(r, q) <=> SameResult(q, r)
  BY DEF SameResult, SamePeriod
<1> HIDE DEF kept
<1>6. \A r \in stored' : r.component = Null
  BY <1>1, <1>4
<1>7. \A r, q \in stored' : SameResult(r, q) => r = q
  BY <1>1, <1>4, <1>5 DEF Alone
<1> QED
  BY <1>3, <1>6, <1>7 DEF Alone, SameResult, SamePeriod

LEMMA ResultsStep ==
  ASSUME ResultsInv, Next
  PROVE  ResultsInv'
<1>1. measure' = measure
  BY DEF Next, Save, SaveComponents, RemoveResult
<1>2. ASSUME NEW s, Entered(s) PROVE Entered(s)'
  <2>1. Owner(s)' = Owner(s)
    BY <1>1 DEF Owner
  <2> QED
    BY <1>2, <2>1 DEF Entered
<1>3. CASE Save
  <2>1. PICK year \in PlanYears, typed \in Fillings(measure.type),
             mode \in Modes(measure), i \in Indexes(measure) :
          LET d == Draft(typed, mode, i)
          IN  /\ FormAccepts(measure, d) /\ AcceptsResult(measure, FormWrite(measure, d, year))
              /\ stored' = Upserted(stored, {Stored(measure, Null, FormWrite(measure, d, year))})
    BY <1>3 DEF Save
  <2> DEFINE d == Draft(typed, mode, i)
  <2> DEFINE s == Stored(measure, Null, FormWrite(measure, d, year))
  <2>2. s.component = Null /\ s.year = year
    BY DEF Stored, FormWrite
  <2> HIDE DEF s
  <2>3. Owner(s) = measure
    BY <2>2 DEF Owner
  <2>4. \A f \in TypedFields : d[f] \in Readings
    <3>1. measure.type \in DOMAIN Numbers
      BY <2>1, EntryAssumption DEF ResultsInv, FormAccepts
    <3> QED
      BY <3>1, DraftsTyped
  <2> HIDE DEF d
  <2>5. Entered(s)
    BY <2>1, <2>2, <2>3, <2>4 DEF Entered, s, d
  <2>6. Alone'
    BY <1>1, <2>1, <2>2, AloneSaved DEF ResultsInv, s, d
  <2>7. \A r \in stored' : r \in stored \/ r = s
    BY <2>1 DEF Upserted, s, d
  <2> QED
    BY <1>1, <1>2, <2>5, <2>6, <2>7 DEF ResultsInv
<1>4. CASE SaveComponents
  <2> DEFINE comp(i) == measure.components[i]
             draft(index, values, i) ==
               [Blank EXCEPT !.index = index, !.value = values[i], !.binary = values[i]]
  <2>1. PICK year \in PlanYears, index \in EntryIndexes :
          \E values \in [DOMAIN measure.components ->
                           UNION {Numbers[c.type] : c \in Elements(measure.components)}] :
            LET w(i) == FormWrite(comp(i), draft(index, values, i), year)
            IN  /\ \A i \in DOMAIN values : /\ FormAccepts(comp(i), draft(index, values, i))
                                            /\ AcceptsResult(comp(i), w(i))
                /\ stored' = Upserted(stored,
                                {Stored(comp(i), comp(i).id, w(i)) : i \in DOMAIN values})
    BY <1>4 DEF SaveComponents
  <2>2. PICK values \in [DOMAIN measure.components ->
                           UNION {Numbers[c.type] : c \in Elements(measure.components)}] :
            LET w(i) == FormWrite(comp(i), draft(index, values, i), year)
            IN  /\ \A i \in DOMAIN values : /\ FormAccepts(comp(i), draft(index, values, i))
                                            /\ AcceptsResult(comp(i), w(i))
                /\ stored' = Upserted(stored,
                                {Stored(comp(i), comp(i).id, w(i)) : i \in DOMAIN values})
    BY <2>1
  <2> DEFINE new(i) == Stored(comp(i), comp(i).id,
                              FormWrite(comp(i), draft(index, values, i), year))
  <2>3. ASSUME NEW i \in DOMAIN measure.components PROVE Entered(new(i))
    <3>1. new(i).component = comp(i).id /\ new(i).year = year
      BY DEF Stored, FormWrite
    <3>2. Owner(new(i)) = comp(i)
      BY <3>1, ComponentsOwn DEF ResultsInv
    <3>3. /\ FormAccepts(comp(i), draft(index, values, i))
          /\ AcceptsResult(comp(i), FormWrite(comp(i), draft(index, values, i), year))
      BY <2>2
    <3>4. \A f \in TypedFields : draft(index, values, i)[f] \in Readings
      <4>1. PICK j \in DOMAIN measure.components :
              values[i] \in Numbers[measure.components[j].type]
        BY DEF Elements
      <4>2. values[i] \in Readings
        BY <4>1, EntryAssumption DEF Readings, ResultsInv
      <4> TAKE f \in TypedFields
      <4>3. Blank[f] = Null
        BY DEF Blank, TypedFields
      <4>4. f # "index" /\ f \in DOMAIN Blank
        BY DEF Blank, TypedFields
      <4>5. draft(index, values, i)[f] \in {Blank[f], values[i]}
        BY <4>4 DEF Blank
      <4> QED
        BY <4>2, <4>3, <4>5 DEF Readings
    <3> HIDE DEF draft, comp
    <3> QED
      BY <3>1, <3>2, <3>3, <3>4 DEF Entered
  <2>4. stored' = Upserted(stored, {new(i) : i \in DOMAIN measure.components})
    BY <2>2
  <2> HIDE DEF new
  <2>5. Alone'
    BY <1>1, <1>4 DEF SaveComponents, Alone
  <2> QED
    BY <1>1, <1>2, <2>3, <2>4, <2>5 DEF ResultsInv, Upserted
<1>5. CASE RemoveResult
  <2>1. stored' \subseteq stored
    BY <1>5 DEF RemoveResult
  <2>2. Alone'
    BY <1>1, <2>1, FS_Subset DEF ResultsInv, Alone, SameResult, SamePeriod
  <2> QED
    BY <1>1, <1>2, <2>1, <2>2 DEF ResultsInv
<1> QED
  BY <1>3, <1>4, <1>5 DEF Next

LEMMA ResultsInvariance == EntrySpec => []ResultsInv
<1>1. DistributionInit => ResultsInv
  BY FS_EmptySet DEF DistributionInit, Init, ResultsInv, Alone
<1>2. ResultsInv /\ [EntryNext]_entryVars => ResultsInv'
  <2> SUFFICES ASSUME ResultsInv, [EntryNext]_entryVars PROVE ResultsInv'
    OBVIOUS
  <2>1. CASE UNCHANGED vars
    BY <2>1 DEF vars, ResultsInv, Entered, Owner, Alone, SameResult, SamePeriod
  <2>2. CASE Next
    BY <2>2, ResultsStep
  <2> QED
    BY <2>1, <2>2 DEF EntryNext, entryVars
<1> QED
  BY <1>1, <1>2, PTL DEF EntrySpec, entryVars

(* Whatever is stored opens in the form and saves unchanged: the form's     *)
(* reading of a row inverts the server's writing of it, for every type,     *)
(* frequency and precision (draftFromObservation, upsertStrategyObservation)*)
THEOREM ResavableAlways == EntrySpec => []Resavable
<1>1. ResultsInv => Resavable
  BY ReadsBack DEF ResultsInv, Entered, Resavable
<1> QED
  BY <1>1, ResultsInvariance, PTL

-----------------------------------------------------------------------------
(***************************************************************************)
(* Pacing.                                                                 *)
(***************************************************************************)

(* What a calculation may answer.                                           *)
Finite == {Null} \cup -MaxNum .. MaxNum

Answers(result) == "value" \in DOMAIN result /\ result.value \in Finite

(* Rounding ends in a finite number or none.                                *)
LEMMA RoundedIsFinite ==
  ASSUME NEW n, NEW d
  PROVE  Rounded(n, d) \in Finite /\ Percentage(n, d) \in Finite /\ AverageOf(n, d) \in Finite
BY DEF Rounded, Percentage, AverageOf, FiniteNumber, Finite

LEMMA Results ==
  ASSUME NEW fields
  PROVE  /\ Result(fields).value = IF "value" \in DOMAIN fields THEN fields["value"] ELSE Null
         /\ Result(fields).state = IF "state" \in DOMAIN fields THEN fields["state"]
                                   ELSE "invalid"
         /\ Result(fields).issues = IF "issues" \in DOMAIN fields THEN fields["issues"] ELSE {}
         /\ Result(fields).components = IF "components" \in DOMAIN fields
                                        THEN fields["components"] ELSE <<>>
         /\ {"value", "state", "issues", "components"} \subseteq DOMAIN Result(fields)
BY DEF Result, Over

(* A value that is computed, with what else is said of it.                  *)
LEMMA StatedResults ==
  ASSUME NEW fields, DOMAIN fields \cap {"value", "state", "issues", "components"} = {},
         NEW value,
         NEW r, r = Result(Over(fields, Stating(value)))
  PROVE  /\ r.value = value /\ r.components = <<>>
         /\ r.state = IF value = Null THEN "invalid" ELSE "ok"
         /\ r.issues = IF value = Null THEN {"NON_FINITE_RESULT"} ELSE {}
         /\ {"value", "state", "issues", "components"} \subseteq DOMAIN r
<1> DEFINE said == Over(fields, Stating(value))
<1>1. /\ DOMAIN said = DOMAIN fields \cup {"value", "state", "issues"}
      /\ said["value"] = value
      /\ said["state"] = IF value = Null THEN "invalid" ELSE "ok"
      /\ said["issues"] = IF value = Null THEN {"NON_FINITE_RESULT"} ELSE {}
  BY DEF Over, Stating
<1>2. "components" \notin DOMAIN said
  BY <1>1
<1> HIDE DEF said
<1>3. r = Result(said)
  BY DEF said
<1>4. /\ r.value = said["value"] /\ r.state = said["state"] /\ r.issues = said["issues"]
      /\ r.components = <<>>
      /\ {"value", "state", "issues", "components"} \subseteq DOMAIN r
  <2>1. {"value", "state", "issues"} \subseteq DOMAIN said
    BY <1>1
  <2>2. /\ Result(said).value = IF "value" \in DOMAIN said THEN said["value"] ELSE Null
        /\ Result(said).state = IF "state" \in DOMAIN said THEN said["state"] ELSE "invalid"
        /\ Result(said).issues = IF "issues" \in DOMAIN said THEN said["issues"] ELSE {}
        /\ Result(said).components = IF "components" \in DOMAIN said
                                     THEN said["components"] ELSE <<>>
        /\ {"value", "state", "issues", "components"} \subseteq DOMAIN Result(said)
    BY Results, Zenon
  <2> QED
    BY <1>2, <1>3, <2>1, <2>2
<1> QED
  BY <1>1, <1>4

LEMMA NoResults ==
  ASSUME NEW code, NEW states
  PROVE  Answers(Refused(code)) /\ Answers(Lacking(code)) /\ Answers(Unread(states))
BY Results DEF Refused, Lacking, Unread, Answers, Finite

LEMMA Flags ==
  ASSUME NEW b
  PROVE  Answers(Binary(b))
<1>1. Factor \in Finite /\ 0 \in Finite
  BY NumberAssumption DEF Finite
<1> QED
  BY <1>1, Results, NoResults DEF Binary, Answers

LEMMA BlendIsStated ==
  ASSUME NEW parts, NEW method
  PROVE  \E value, percent :
           /\ value \in Finite
           /\ Blended(parts, method) \in {Refused("INVALID_COMPONENT_WEIGHT"),
                                         Result(Over([percent |-> percent], Stating(value)))}
<1> DEFINE weights == SumOf(parts, LAMBDA c : c.weight)
           sum == Rounded(SumOf(parts, LAMBDA c : c.result.value), 1)
           mean == AverageOf(SumOf(parts, LAMBDA c : c.result.value), Len(parts))
           weighted == Rounded(SumOf(parts, LAMBDA c : c.result.value * c.weight), weights)
           value == CASE method = "sum" -> sum
                      [] method = "average" -> mean
                      [] OTHER -> weighted
           percent == IF parts[1].unit = "percent" THEN value ELSE Null
<1>1. sum \in Finite /\ mean \in Finite /\ weighted \in Finite
  BY RoundedIsFinite
<1>2. Blended(parts, method) \in {Refused("INVALID_COMPONENT_WEIGHT"),
                                 Result(Over([percent |-> percent], Stating(value)))}
  BY Zenon DEF Blended
<1> HIDE DEF sum, mean, weighted
<1>3. value \in Finite
  BY <1>1
<1> HIDE DEF value, percent
<1> QED
  BY <1>2, <1>3

LEMMA Blends ==
  ASSUME NEW parts, NEW method
  PROVE  Answers(Blended(parts, method))
<1>1. Null \in Finite
  BY DEF Finite
<1>2. ASSUME NEW value \in Finite, NEW percent
      PROVE  Answers(Result(Over([percent |-> percent], Stating(value))))
  BY <1>2, StatedResults DEF Answers
<1>3. PICK value, percent :
        /\ value \in Finite
        /\ Blended(parts, method) \in {Refused("INVALID_COMPONENT_WEIGHT"),
                                      Result(Over([percent |-> percent], Stating(value)))}
  BY BlendIsStated
<1> QED
  BY <1>2, <1>3, NoResults

(* A ratio of parts states its value, or is refused.                       *)
LEMMA RatioIsStated ==
  ASSUME NEW parts
  PROVE  \E value, num, den :
           /\ value \in Finite
           /\ RatioOf(parts) \in {Refused("INVALID_RATIO_COMPONENT_ROLES"),
                                 Refused("INVALID_RATIO_DENOMINATOR"),
                                 Result(Over([percent |-> value, num |-> num, den |-> den],
                                             Stating(value)))}
<1> DEFINE total(role) == SumOf(SelectSeq(parts, LAMBDA c : c.role = role),
                                LAMBDA c : c.result.value)
           num == total("numerator")
           den == total("denominator")
           value == Percentage(num, den)
<1>1. value \in Finite
  BY RoundedIsFinite
<1>2. RatioOf(parts) \in {Refused("INVALID_RATIO_COMPONENT_ROLES"),
                         Refused("INVALID_RATIO_DENOMINATOR"),
                         Result(Over([percent |-> value, num |-> num, den |-> den],
                                     Stating(value)))}
  BY Zenon DEF RatioOf
<1> HIDE DEF value, num, den
<1> QED
  BY <1>1, <1>2

LEMMA Ratios ==
  ASSUME NEW parts
  PROVE  Answers(RatioOf(parts))
<1>1. PICK value, num, den :
        /\ value \in Finite
        /\ RatioOf(parts) \in {Refused("INVALID_RATIO_COMPONENT_ROLES"),
                              Refused("INVALID_RATIO_DENOMINATOR"),
                              Result(Over([percent |-> value, num |-> num, den |-> den],
                                          Stating(value)))}
  BY RatioIsStated
<1>2. value \in Finite
  BY <1>1
<1>3. Answers(Result(Over([percent |-> value, num |-> num, den |-> den], Stating(value))))
  BY <1>2, StatedResults DEF Answers
<1> QED
  BY <1>1, <1>3, NoResults

LEMMA Completes ==
  ASSUME NEW parts
  PROVE  Answers(AllComplete(parts))
<1>1. Null \in Finite
  BY DEF Finite
<1>2. PICK state, issues, done :
        AllComplete(parts) \in {Result([state |-> state, issues |-> issues]), Binary(done)}
  BY Zenon DEF AllComplete
<1>3. Answers(Result([state |-> state, issues |-> issues]))
  BY <1>1, Results DEF Answers
<1> QED
  BY <1>2, <1>3, Flags

(* Components of any kind, combined in any way.                             *)
LEMMA Aggregates ==
  ASSUME NEW comps, NEW method
  PROVE  Answers(MultiComponent(comps, method))
<1>1. Answers(Aggregated(comps, method))
  BY Blends, Ratios, Completes, Results, NoResults DEF Aggregated, Answers, Finite
<1> QED
  BY <1>1, NoResults DEF MultiComponent, Answers

(* One input.                                                               *)
LEMMA Singles ==
  ASSUME NEW in, in.type # "distribution", in.type = "milestone" => in.done \in Finite
  PROVE  Answers(SingleMeasurement(in))
<1>1. Null \in Finite
  BY DEF Finite
<1>2. in.type = "milestone" => Answers(Milestone(in))
  BY <1>1, Flags, Results, NoResults DEF Milestone, Answers
<1>3. Answers(Scalar(in.value))
  BY RoundedIsFinite, Results, NoResults DEF Scalar, Answers
<1>4. ASSUME NEW scale
      PROVE  Answers(Fraction(in, scale))
  <2> DEFINE den == IF in.den # Null THEN in.den ELSE in.fixed
             value == Rounded(in.num * scale, den)
  <2>1. Answers(Result(Over([num |-> in.num, den |-> den], Stating(value))))
    BY RoundedIsFinite, StatedResults DEF Answers
  <2>2. \/ Fraction(in, scale) \in {Unread({"invalid"}), Unread({"missing"}),
                                   Refused("DENOMINATOR_CONFLICT"),
                                   Result(Over([num |-> in.num, den |-> den], Stating(value)))}
        \/ Fraction(in, scale) = [Lacking("MISSING_DENOMINATOR") EXCEPT !.num = in.num]
        \/ Fraction(in, scale) =
             [Refused("ZERO_DENOMINATOR") EXCEPT !.num = in.num, !.den = den]
    BY Zenon DEF Fraction
  <2> HIDE DEF den, value
  <2> QED
    BY <2>1, <2>2, NoResults DEF Answers
<1>5. Answers(PercentageMeasure(in)) /\ Answers(Ratio(in))
  BY <1>4, NoResults DEF PercentageMeasure, Ratio, WithPercent, Answers
<1>6. Answers(Average(in))
  BY RoundedIsFinite, Results, NoResults DEF Average, Answers
<1>7. Answers(YearOverYear(in))
  BY RoundedIsFinite, Results, NoResults DEF YearOverYear, Answers
<1> QED
  BY <1>2, <1>3, <1>5, <1>6, <1>7, Flags, NoResults DEF SingleMeasurement

(* What was entered has a period there is, and says nothing of its type.    *)
LEMMA EnteredPeriods ==
  ASSUME NEW s, Entered(s)
  PROVE  /\ s.type \in P!ConcreteFrequencies /\ s.index \in 0 .. 12
         /\ s.index \in P!PeriodIndexes(s.type)
         /\ s.row.milestone \in Finite
         /\ "type" \notin DOMAIN s.row.raw
<1>1. PICK d : LET c == Owner(s)
               IN  /\ AcceptsResult(c, FormWrite(c, d, s.year))
                   /\ s = Stored(c, s.component, FormWrite(c, d, s.year))
  BY DEF Entered
<1> DEFINE c == Owner(s)
           w == FormWrite(c, d, s.year)
           period == WritePeriod(c, w)
<1>2. AcceptsResult(c, w)
  BY <1>1
<1>3. s.type = period.resolved /\ s.index = period.index /\ s.row = StoredRow(c, w)
  BY <1>1 DEF Stored
<1> HIDE DEF c, w
<1>4. period # Null
  BY <1>2 DEF AcceptsResult
<1>6. /\ period.resolved \in P!ConcreteFrequencies
      /\ period.index \in P!PeriodIndexes(period.resolved)
  BY <1>4 DEF WritePeriod, P!ValidatedPeriod, P!Resolved, P!FlexibleModes, P!ConcreteFrequencies
<1>7. period.index \in 0 .. 12
  BY <1>6 DEF P!PeriodIndexes, P!Single, P!Months, P!Quarters
<1>8. s.row.milestone \in Finite
  <2>1. c.type = "milestone" => w.value \in 0 .. Whole
    BY <1>2 DEF AcceptsResult, ValueRules
  <2>2. 0 .. Whole \subseteq Finite /\ Null \in Finite
    BY NumberAssumption DEF Whole, Finite
  <2> QED
    BY <1>3, <2>1, <2>2 DEF StoredRow
<1>9. "type" \notin DOMAIN s.row.raw
  BY <1>3 DEF StoredRow, NoAverage
<1> QED
  BY <1>3, <1>6, <1>7, <1>8, <1>9

-----------------------------------------------------------------------------
(* Where keys are bounded, one is the greatest.                             *)
LEMMA Greatest ==
  ASSUME NEW S, S # {}, NEW key, NEW B \in Nat, \A r \in S : key[r] \in 0 .. B
  PROVE  \E r \in S : \A s \in S : key[s] <= key[r]
<1> DEFINE gaps == {B - key[r] : r \in S}
<1>1. gaps \subseteq Nat /\ gaps # {}
  OBVIOUS
<1>2. PICK g \in gaps : \A h \in gaps : ~ <<h, g>> \in OpToRel(<, Nat)
  BY <1>1, NatLessThanWellFounded, WFMin
<1>3. PICK r \in S : g = B - key[r]
  OBVIOUS
<1>4. ASSUME NEW s \in S PROVE key[s] <= key[r]
  <2>1. B - key[s] \in gaps
    OBVIOUS
  <2>2. ~(B - key[s] < g)
    BY <1>1, <1>2, <2>1 DEF OpToRel
  <2> QED
    BY <1>3, <2>2
<1> QED
  BY <1>4

(* Of numbers one is the least.                                             *)
LEMMA Least ==
  ASSUME NEW S, S # {}, NEW key, \A r \in S : key[r] \in Nat
  PROVE  \E r \in S : \A s \in S : key[r] <= key[s]
<1> DEFINE keys == {key[r] : r \in S}
<1>1. keys \subseteq Nat /\ keys # {}
  OBVIOUS
<1>2. PICK g \in keys : \A h \in keys : ~ <<h, g>> \in OpToRel(<, Nat)
  BY <1>1, NatLessThanWellFounded, WFMin
<1>3. PICK r \in S : g = key[r]
  OBVIOUS
<1>4. ASSUME NEW s \in S PROVE key[r] <= key[s]
  <2>1. ~(key[s] < g)
    BY <1>1, <1>2 DEF OpToRel
  <2> QED
    BY <1>3, <2>1
<1> QED
  BY <1>4

-----------------------------------------------------------------------------
(* Progress.                                                                *)

(* What a share of the way can be said of.                                  *)
Measurable(p) ==
  /\ p.status \notin {"needs_definition", "needs_target"}
  /\ p.current \in Int /\ p.target \in Int /\ p.baseline \in Int \cup {Null}
  /\ p.direction = "lower" => p.baseline \in Int
  /\ Span(p) >= 0

(* Meeting a target is a flag.                                              *)
LEMMA MetIsSaid ==
  ASSUME NEW p, Measurable(p)
  PROVE  Met(p) \in BOOLEAN
<1>1. Met(p) = (p.current <= p.target) \/ Met(p) = (p.current >= p.target)
  BY Zenon DEF Met
<1>2. (p.current <= p.target) \in BOOLEAN /\ (p.current >= p.target) \in BOOLEAN
  BY SMT DEF Measurable
<1> QED
  BY <1>1, <1>2, Zenon

(* Progress is ok where it can be measured and its share is a number.       *)
LEMMA ProgressFacts ==
  ASSUME NEW p, p.current \in Readings, p.target \in Readings, p.baseline \in Readings
  PROVE  LET r == Progress(p)
         IN  /\ r.state = "ok" =>
                  /\ Measurable(p) /\ r.isComplete = Met(p)
                  /\ r.current = p.current /\ r.target = p.target /\ r.baseline = p.baseline
             /\ PacingStatus(r) = "on_track" <=> r.state = "ok" /\ Met(p)
             /\ Measurable(p) => r.state = "ok" \/ "NON_FINITE_RESULT" \in r.issues
<1> DEFINE r == Progress(p)
           told == ProgressTold(p)
           actual == ShareCovered(p, Span(p))
           said(field, otherwise) == IF field \in DOMAIN told THEN told[field] ELSE otherwise
<1>1. Measurable(p) => Met(p) \in BOOLEAN
  BY MetIsSaid
<1>10. ASSUME Measurable(p) PROVE told = ProgressMade(p, actual, Met(p))
  <2>1. /\ NaN \notin {p.current, p.target, p.baseline} /\ p.target # Null /\ p.current # Null
        /\ ~(p.direction = "lower" /\ p.baseline = Null)
    BY <1>10, NumberAssumption DEF Measurable
  <2>2. ~(Span(p) < 0)
    <3>1. Span(p) \in Int
      BY <1>10 DEF Measurable, Span, Start
    <3> QED
      BY <1>10, <3>1, SMT DEF Measurable
  <2>3. p.status # "needs_definition" /\ p.status # "needs_target"
    BY <1>10 DEF Measurable
  <2> QED
    BY <2>1, <2>2, <2>3 DEF ProgressTold
<1>2. r = ProgressResult(p, told)
  BY DEF Progress
<1> HIDE DEF told, r
<1>3. /\ r.state = said("state", "invalid") /\ r.status = said("status", "needs_definition")
      /\ r.isComplete = said("isComplete", FALSE) /\ r.issues = said("issues", {})
  <2>1. r.state = said("state", "invalid")
    BY <1>2 DEF ProgressResult, Over
  <2>2. r.status = said("status", "needs_definition")
    BY <1>2 DEF ProgressResult, Over
  <2>3. r.isComplete = said("isComplete", FALSE)
    BY <1>2 DEF ProgressResult, Over
  <2>4. r.issues = said("issues", {})
    BY <1>2 DEF ProgressResult, Over
  <2> QED
    BY <2>1, <2>2, <2>3, <2>4
<1>4. ASSUME {"current", "target", "baseline"} \cap DOMAIN told = {}
      PROVE  /\ r.current = FiniteOrNull(p.current) /\ r.target = FiniteOrNull(p.target)
             /\ r.baseline = FiniteOrNull(p.baseline)
  BY <1>2, <1>4 DEF ProgressResult, Over
<1>5. CASE Measurable(p) /\ actual # Null
  <2>1. told = ProgressMade(p, actual, Met(p))
    BY <1>5, <1>10 DEF told
  <2> DEFINE exceeded == Met(p) /\ p.current # p.target
  <2>2. /\ DOMAIN told = {"state", "actual", "display", "isComplete", "isExceeded", "status"}
        /\ told.state = "ok" /\ told.isComplete = Met(p)
        /\ told.status = ProgressStatus(actual, Met(p), exceeded)
    <3>1. told = [state |-> "ok", actual |-> actual, display |-> Clamped(actual, Whole),
                  isComplete |-> Met(p), isExceeded |-> exceeded,
                  status |-> ProgressStatus(actual, Met(p), exceeded)]
      BY <1>5, <2>1, Zenon DEF ProgressMade
    <3> HIDE DEF exceeded, actual
    <3> QED
      BY <3>1
  <2>3. told.status \in {"exceeded", "complete"} <=> Met(p)
    BY <1>1, <1>5, <2>2 DEF ProgressStatus
  <2>4. told.status \in {"exceeded", "complete", "not_started", "in_progress"}
    BY <1>1, <1>5, <2>2 DEF ProgressStatus
  <2>5. r.state = "ok" /\ r.status = told.status /\ r.isComplete = Met(p)
    BY <1>3, <2>2
  <2>6. PacingStatus(r) = "on_track" <=> Met(p)
    BY <2>3, <2>4, <2>5 DEF PacingStatus
  <2>7. r.current = p.current /\ r.target = p.target /\ r.baseline = p.baseline
    BY <1>4, <1>5, <2>2, NumberAssumption DEF Measurable, FiniteOrNull
  <2> QED
    BY <1>5, <2>5, <2>6, <2>7 DEF r
<1>6. CASE Measurable(p) /\ actual = Null
  <2>1. told = [issues |-> {"NON_FINITE_RESULT"}]
    BY <1>6, <1>10, Zenon DEF told, ProgressMade
  <2>2. r.state = "invalid" /\ r.status = "needs_definition" /\ "NON_FINITE_RESULT" \in r.issues
    BY <1>3, <2>1
  <2>3. PacingStatus(r) # "on_track"
    BY <2>2 DEF PacingStatus
  <2> QED
    BY <1>6, <2>2, <2>3 DEF r
<1>7. CASE ~Measurable(p)
  <2>1. /\ said("state", "invalid") \in {"missing", "invalid"}
        /\ said("status", "needs_definition")
             \in {"needs_definition", "target_not_finalized", "not_started"}
    <3>1. CASE p.status \in {"needs_definition", "needs_target"}
      BY <3>1 DEF told, ProgressTold
    <3>2. CASE p.status \notin {"needs_definition", "needs_target"}
               /\ NaN \in {p.current, p.target, p.baseline}
      BY <3>2 DEF told, ProgressTold
    <3>3. CASE p.status \notin {"needs_definition", "needs_target"}
               /\ NaN \notin {p.current, p.target, p.baseline}
      <4>1. p.target = Null \/ p.current = Null \/ (p.direction = "lower" /\ p.baseline = Null)
            \/ Span(p) < 0
        BY <1>7, <3>3 DEF Measurable, Readings, Span, Start
      <4> QED
        BY <3>3, <4>1 DEF told, ProgressTold
    <3> QED
      BY <3>1, <3>2, <3>3
  <2>3. r.state \in {"missing", "invalid"}
    BY <1>3, <2>1
  <2>4. r.status \in {"needs_definition", "target_not_finalized", "not_started"}
    BY <1>3, <2>1
  <2>5. PacingStatus(r) # "on_track"
    BY <2>4 DEF PacingStatus
  <2> QED
    BY <1>7, <2>3, <2>5 DEF r
<1> QED
  BY <1>5, <1>6, <1>7

-----------------------------------------------------------------------------
(* Half-up rounding to a whole.                                             *)
LEMMA RoundedOver12 ==
  ASSUME NEW n \in Int
  PROVE  LET q == (2 * n + 12) \div 24
         IN  q \in Int /\ 24 * q <= 2 * n + 12 /\ 2 * n + 12 < 24 * q + 24
OBVIOUS

LEMMA RoundedOver1 ==
  ASSUME NEW n \in Int
  PROVE  (2 * n + 1) \div 2 = n
OBVIOUS

LEMMA Between ==
  ASSUME NEW f \in Int, NEW t \in Int, NEW e \in 0 .. 12, NEW q \in Int,
         24 * q <= 2 * (f * 12 + (t - f) * e) + 12,
         2 * (f * 12 + (t - f) * e) + 12 < 24 * q + 24
  PROVE  /\ f <= t => f <= q /\ q <= t
         /\ t <= f => t <= q /\ q <= f
         /\ e = 12 => q = t
         /\ e = 0 => q = f
         /\ \A c \in Int : c >= q => 24 * (c - f) >= 2 * e * (t - f) - 12
         /\ \A c \in Int : c <= q => 24 * (f - c) >= 2 * e * (f - t) - 12
<1> DEFINE x == (t - f) * e
<1>1. x \in Int
  OBVIOUS
<1>2. f <= t => 0 <= x /\ x <= 12 * (t - f)
  OBVIOUS
<1>3. t <= f => x <= 0 /\ 12 * (t - f) <= x
  OBVIOUS
<1>4. (e = 12 => x = 12 * (t - f)) /\ (e = 0 => x = 0)
  OBVIOUS
<1>5. 2 * e * (t - f) = 2 * x /\ 2 * e * (f - t) = -2 * x
  OBVIOUS
<1> HIDE DEF x
<1>6. 24 * q <= 24 * f + 2 * x + 12 /\ 24 * f + 2 * x + 12 < 24 * q + 24
  BY DEF x
<1> QED
  BY <1>1, <1>2, <1>3, <1>4, <1>5, <1>6

(* Where a Measure should stand lies between its baseline and its target.   *)
LEMMA PacingBetween ==
  ASSUME NEW f \in -MaxNum .. MaxNum, NEW t \in -MaxNum .. MaxNum,
         NEW elapsed \in {<<e, 12>> : e \in 0 .. 12} \cup {<<1, 1>>}
  PROVE  LET q == Rounded(f * elapsed[2] + (t - f) * elapsed[1], elapsed[2])
         IN  /\ q \in Int
             /\ f <= t => f <= q /\ q <= t
             /\ t <= f => t <= q /\ q <= f
             /\ elapsed[1] = elapsed[2] => q = t
             /\ \A c \in Int : c >= q => 2 * elapsed[2] * (c - f)
                                         >= 2 * elapsed[1] * (t - f) - elapsed[2]
             /\ \A c \in Int : c <= q => 2 * elapsed[2] * (f - c)
                                         >= 2 * elapsed[1] * (f - t) - elapsed[2]
<1>1. f \in Int /\ t \in Int /\ MaxNum \in Nat
  BY NumberAssumption
<1>2. CASE elapsed = <<1, 1>>
  <2>1. f * elapsed[2] + (t - f) * elapsed[1] = t
    BY <1>1, <1>2
  <2>2. Rounded(t, 1) = t
    <3>1. (2 * t + 1) \div (2 * 1) = t
      BY <1>1, RoundedOver1
    <3> QED
      BY <1>1, <3>1 DEF Rounded, FiniteNumber
  <2>3. elapsed[1] = 1 /\ elapsed[2] = 1
    BY <1>2
  <2> QED
    BY <1>1, <2>1, <2>2, <2>3
<1>3. ASSUME NEW e \in 0 .. 12, elapsed = <<e, 12>>
      PROVE  LET q == Rounded(f * 12 + (t - f) * e, 12)
             IN  /\ q \in Int
                 /\ f <= t => f <= q /\ q <= t
                 /\ t <= f => t <= q /\ q <= f
                 /\ e = 12 => q = t
                 /\ \A c \in Int : c >= q => 24 * (c - f) >= 2 * e * (t - f) - 12
                 /\ \A c \in Int : c <= q => 24 * (f - c) >= 2 * e * (f - t) - 12
  <2> DEFINE n == f * 12 + (t - f) * e
             q == (2 * n + 12) \div 24
  <2>1. n \in Int
    BY <1>1
  <2>2. q \in Int /\ 24 * q <= 2 * n + 12 /\ 2 * n + 12 < 24 * q + 24
    <3> HIDE DEF n
    <3> QED
      BY <2>1, RoundedOver12
  <2>3. /\ f <= t => f <= q /\ q <= t
        /\ t <= f => t <= q /\ q <= f
        /\ e = 12 => q = t
        /\ \A c \in Int : c >= q => 24 * (c - f) >= 2 * e * (t - f) - 12
        /\ \A c \in Int : c <= q => 24 * (f - c) >= 2 * e * (f - t) - 12
    <3> HIDE DEF q
    <3> QED
      BY <1>1, <2>2, Between
  <2>4. q \in -MaxNum .. MaxNum
    <3> HIDE DEF q
    <3> QED
      BY <1>1, <2>2, <2>3
  <2>5. Rounded(n, 12) = q
    <3>1. Rounded(n, 12) = FiniteNumber(q)
      <4> HIDE DEF n
      <4>1. 2 * 12 = 24
        OBVIOUS
      <4> QED
        BY <2>1, <4>1 DEF Rounded
    <3> HIDE DEF q
    <3> QED
      BY <2>4, <3>1 DEF FiniteNumber
  <2> HIDE DEF q
  <2> QED
    BY <2>2, <2>3, <2>5
<1>4. CASE \E e \in 0 .. 12 : elapsed = <<e, 12>>
  <2>1. PICK e \in 0 .. 12 : elapsed = <<e, 12>>
    BY <1>4
  <2>2. elapsed[1] = e /\ elapsed[2] = 12
    BY <2>1
  <2> DEFINE q == Rounded(f * 12 + (t - f) * e, 12)
  <2>3. /\ q \in Int
        /\ f <= t => f <= q /\ q <= t
        /\ t <= f => t <= q /\ q <= f
        /\ e = 12 => q = t
        /\ \A c \in Int : c >= q => 24 * (c - f) >= 2 * e * (t - f) - 12
        /\ \A c \in Int : c <= q => 24 * (f - c) >= 2 * e * (f - t) - 12
    BY <1>3, <2>1
  <2>4. 2 * elapsed[2] = 24
    BY <2>2
  <2>5. q = Rounded(f * elapsed[2] + (t - f) * elapsed[1], elapsed[2])
    BY <2>2
  <2> HIDE DEF q
  <2> QED
    BY <2>2, <2>3, <2>4, <2>5
<1> QED
  BY <1>2, <1>4

(* A Measure with readings for its actual, its target and its baseline is   *)
(* paced honestly.                                                          *)
LEMMA Paced ==
  ASSUME NEW in, in.targetToDate = Null, in.direction = measure.direction,
         in.annualActual \in Readings, in.annualTarget \in Readings,
         in.annualBaseline \in Readings,
         in.elapsed \in {<<e, 12>> : e \in 0 .. 12} \cup {<<1, 1>>}
  PROVE  LET row == AnnualAndPlanProgress(in)
         IN  PacedHonestly(row.pacing, row.annual, in.elapsed)
<1> DEFINE row == AnnualAndPlanProgress(in)
           asked(target) == [current |-> in.annualActual, target |-> target,
                             baseline |-> in.annualBaseline, direction |-> in.direction,
                             status |-> in.annualStatus]
           due == PacingTarget(in)
           goal == asked(in.annualTarget)
           mark == asked(due)
           way == [current |-> row.annual.current, target |-> row.annual.target,
                   baseline |-> row.annual.baseline, direction |-> measure.direction]
           onTrack == PacingStatus(row.pacing) = "on_track"
<1>1. SUFFICES ASSUME row.annual.state = "ok"
               PROVE  /\ onTrack => 2 * in.elapsed[2] * Covered(way)
                                      >= 2 * in.elapsed[1] * Span(way) - in.elapsed[2]
                      /\ row.annual.isComplete => onTrack
                                                  \/ "NON_FINITE_RESULT" \in row.pacing.issues
                      /\ in.elapsed[1] = in.elapsed[2] => (onTrack = row.annual.isComplete)
  BY Zenon DEF PacedHonestly
<1>2. row.annual = Progress(goal) /\ row.pacing = Progress(mark)
  <2> DEFINE nothing == ProgressResult([current |-> Null, target |-> Null, baseline |-> Null],
                                       [issues |-> {"NON_FINITE_VALUE"}])
             refused == in.elapsed[1] \notin 0 .. in.elapsed[2]
                        \/ NaN \in {in.targetToDate, in.annualTarget, in.annualBaseline}
  <2>1. CASE refused
    <3>1. row.annual = nothing
      BY <2>1, Zenon DEF AnnualAndPlanProgress, ThreeProgresses
    <3>2. nothing.state = "invalid"
      BY DEF ProgressResult, Over
    <3> QED
      BY <1>1, <3>1, <3>2
  <2>2. CASE ~refused
    BY <2>2, Zenon DEF AnnualAndPlanProgress, ThreeProgresses
  <2> QED
    BY <2>1, <2>2
<1> HIDE DEF row
<1>3. /\ Measurable(goal) /\ row.annual.isComplete = Met(goal)
      /\ row.annual.current = goal.current /\ row.annual.target = goal.target
      /\ row.annual.baseline = goal.baseline
  BY <1>1, <1>2, ProgressFacts
<1> DEFINE c == in.annualActual
           t == in.annualTarget
           f == Start(goal)
<1>4. /\ c \in Int /\ t \in -MaxNum .. MaxNum /\ f \in -MaxNum .. MaxNum
      /\ in.annualBaseline \in Int \cup {Null}
      /\ in.direction = "lower" => t <= f
      /\ in.direction # "lower" => f <= t
  BY <1>3, NumberAssumption DEF Measurable, Start, Span, Readings
<1>5. due = Rounded(f * in.elapsed[2] + (t - f) * in.elapsed[1], in.elapsed[2])
  BY <1>4, NumberAssumption DEF PacingTarget, Start
<1>6. /\ due \in Int
      /\ f <= t => f <= due /\ due <= t
      /\ t <= f => t <= due /\ due <= f
      /\ in.elapsed[1] = in.elapsed[2] => due = t
      /\ \A x \in Int : x >= due => 2 * in.elapsed[2] * (x - f)
                                       >= 2 * in.elapsed[1] * (t - f) - in.elapsed[2]
      /\ \A x \in Int : x <= due => 2 * in.elapsed[2] * (f - x)
                                       >= 2 * in.elapsed[1] * (f - t) - in.elapsed[2]
  BY <1>4, <1>5, PacingBetween
<1> HIDE DEF due
<1>7. due \in Readings
  BY <1>4, <1>6, NumberAssumption DEF Readings
<1>8. Start(mark) = f /\ Start(way) = f
  BY <1>3 DEF Start
<1>9. Measurable(mark)
  <2>1. Span(mark) >= 0
    BY <1>4, <1>6, <1>8, NumberAssumption DEF Span
  <2> QED
    BY <1>3, <1>6, <2>1 DEF Measurable
<1>10. /\ onTrack <=> row.pacing.state = "ok" /\ Met(mark)
       /\ row.pacing.state = "ok" \/ "NON_FINITE_RESULT" \in row.pacing.issues
  BY <1>2, <1>7, <1>9, ProgressFacts
<1>11. /\ Span(way) = (IF in.direction = "lower" THEN f - t ELSE t - f)
       /\ Covered(way) = (IF in.direction = "lower" THEN f - c ELSE c - f)
  BY <1>3, <1>8 DEF Span, Covered
<1>12. onTrack => 2 * in.elapsed[2] * Covered(way)
                    >= 2 * in.elapsed[1] * Span(way) - in.elapsed[2]
  <2>1. CASE in.direction = "lower"
    <3>1. Met(mark) => c <= due
      BY <2>1 DEF Met
    <3> QED
      BY <1>4, <1>6, <1>10, <1>11, <2>1, <3>1
  <2>2. CASE in.direction # "lower"
    <3>1. Met(mark) => c >= due
      BY <2>2 DEF Met
    <3> QED
      BY <1>4, <1>6, <1>10, <1>11, <2>2, <3>1
  <2> QED
    BY <2>1, <2>2
<1>13. Met(goal) => Met(mark)
  BY <1>4, <1>6, NumberAssumption DEF Met
<1>14. in.elapsed[1] = in.elapsed[2] => (onTrack = row.annual.isComplete)
  <2> SUFFICES ASSUME in.elapsed[1] = in.elapsed[2]
               PROVE  onTrack = row.annual.isComplete
    OBVIOUS
  <2>1. mark = goal
    BY <1>6
  <2>2. onTrack <=> Met(goal)
    BY <1>1, <1>2, <1>10, <2>1
  <2>3. Met(goal) \in BOOLEAN
    BY <1>3, MetIsSaid
  <2> QED
    BY <1>3, <2>2, <2>3, Zenon
<1> QED
  BY <1>3, <1>10, <1>12, <1>13, <1>14

-----------------------------------------------------------------------------
(* What readers make of what is stored.                                     *)

LEMMA AnswersAreReadings == Finite = Readings \ {NaN} /\ Null \in Finite
BY NumberAssumption DEF Finite, Readings

(* The calculation behind a stored result.                                  *)
LEMMA CalculationsAnswer ==
  ASSUME NEW m, m.type # "distribution", NEW s, Entered(s), NEW start
  PROVE  Answers(CalculatedResult(m, stored, s, start))
<1>1. CASE m.type = "multi_component"
  BY <1>1, Aggregates DEF CalculatedResult, Measurement
<1>2. CASE m.type # "multi_component"
  <2> DEFINE previous == PreviousValue(stored, s, start, m.baseline)
             in == KernelQuestion(m, s.row, previous)
  <2>1. s.row.milestone \in Finite /\ "type" \notin DOMAIN s.row.raw
    BY EnteredPeriods
  <2>2. in.type = m.type
    <3> HIDE DEF previous
    <3> QED
      BY <2>1 DEF KernelQuestion, Over
  <2>3. m.type = "milestone" => in.done = s.row.milestone
    <3> HIDE DEF previous
    <3> QED
      BY DEF KernelQuestion
  <2>4. CalculatedResult(m, stored, s, start) = SingleMeasurement(in)
    BY <1>2 DEF CalculatedResult, Calculated
  <2> HIDE DEF in
  <2> QED
    BY <2>1, <2>2, <2>3, <2>4, Singles
<1> QED
  BY <1>1, <1>2

(* An actual of a period there is, with a value a calculation may answer.   *)
Told(a) ==
  a.value \in Finite /\ a.type \in P!ConcreteFrequencies /\ a.index \in 0 .. 12

LEMMA ActualsAreTold ==
  ASSUME ResultsInv, measure.type # "distribution", NEW year, NEW a \in Actuals(year)
  PROVE  Told(a)
<1>1. PICK s \in stored : a = CalculatedActual(measure, stored, s, PlanStart)
  BY DEF Actuals, CalculatedActuals
<1>2. Entered(s)
  BY DEF ResultsInv
<1>3. a.type = s.type /\ a.index = s.index
      /\ a.value = CalculatedResult(measure, stored, s, PlanStart).value
  BY <1>1 DEF CalculatedActual, Actual
<1> QED
  BY <1>2, <1>3, EnteredPeriods, CalculationsAnswer DEF Told, Answers

(* Of actuals there is a latest.                                            *)
LEMMA LatestIsOne ==
  ASSUME NEW rows, rows # {}, \A a \in rows : Told(a)
  PROVE  LastBy(rows, LAMBDA r : r.index * 10 + PeriodRank(r.type)) \in rows
<1> DEFINE key == [a \in rows |-> a.index * 10 + PeriodRank(a.type)]
<1>1. ASSUME NEW a \in rows PROVE PeriodRank(a.type) \in 1 .. 5
  <2>1. \E i \in 1 .. 5 : PeriodTypes[i] = a.type
    BY DEF PeriodTypes, Told, P!ConcreteFrequencies
  <2>2. DOMAIN PeriodTypes = 1 .. 5
    BY DEF PeriodTypes
  <2> QED
    BY <2>1, <2>2 DEF PeriodRank
<1>2. \A a \in rows : key[a] \in 0 .. 125
  BY <1>1 DEF Told
<1>3. \E r \in rows : \A s \in rows : key[s] <= key[r]
  <2> HIDE DEF key
  <2> QED
    BY <1>2, Greatest
<1>4. \E r \in rows : \A s \in rows :
        s.index * 10 + PeriodRank(s.type) <= r.index * 10 + PeriodRank(r.type)
  BY <1>3
<1> QED
  BY <1>4 DEF LastBy

(* What the actuals of a year come to.                                      *)
LEMMA CombinedIsFinite ==
  ASSUME NEW rows, \A a \in rows : Told(a), NEW type, NEW frequency, NEW month
  PROVE  CombinedValue(rows, type, frequency, month).value \in Finite
<1> DEFINE finite == {r \in rows : Given(r.value) /\ PeriodIncluded(r, month)}
           yearly == {r \in finite : r.index = P!Single}
           latest(rs) == LastBy(rs, LAMBDA r : r.index * 10 + PeriodRank(r.type)).value
           sum == SumFunction([r \in finite |-> r.value])
           combined == CombinedValue(rows, type, frequency, month)
<1>1. yearly # {} => latest(yearly) \in Finite
  BY LatestIsOne DEF Told
<1>2. finite # {} => latest(finite) \in Finite
  BY LatestIsOne DEF Told
<1>3. CASE finite = {}
  BY <1>3, AnswersAreReadings DEF CombinedValue
<1>4. CASE yearly # {}
  <2>1. combined.value = latest(yearly)
    BY <1>4 DEF CombinedValue
  <2> HIDE DEF latest, yearly
  <2> QED
    BY <1>1, <1>4, <2>1
<1>5. CASE finite # {} /\ yearly = {}
  <2>1. combined.value \in {latest(finite), Rounded(sum, 1)}
    BY <1>5 DEF CombinedValue
  <2> HIDE DEF latest, finite, sum
  <2> QED
    BY <1>2, <1>5, <2>1, RoundedIsFinite
<1> QED
  BY <1>3, <1>4, <1>5

(* The actual of a year, as progress reads it.                              *)
LEMMA ActualIsReading ==
  ASSUME ResultsInv, measure.type # "distribution", NEW year, NEW month
  PROVE  Usable(ResolvedActual(measure, Actuals(year), year, month)) \in Readings
<1> DEFINE direct == {a \in Actuals(year) : a.year = year}
           resolved == ResolvedActual(measure, Actuals(year), year, month)
           combined == CombinedValue(direct, measure.type, measure.frequency, month)
<1>1. combined.value \in Finite
  BY ActualsAreTold, CombinedIsFinite
<1>2. resolved.value = combined.value
  BY DEF ResolvedActual, WithLatest
<1> HIDE DEF resolved, combined
<1>3. resolved.value \in Readings
  BY <1>1, <1>2, AnswersAreReadings
<1>4. NaN \in Readings
  BY DEF Readings
<1> QED
  BY <1>3, <1>4 DEF Usable, resolved

(* The annual target: its value and its baseline are numbers, if given.     *)
LEMMA TargetsAreReadings ==
  ASSUME NEW targets, NEW year, NEW type, NEW parent,
         \A t \in targets : /\ t.id \in Nat /\ t.targetYear \in Nat
                            /\ {t.value, t.structured, t.baseline} \subseteq Finite
  PROVE  LET decision == TargetPolicy(targets, year, type, parent).annual
         IN  /\ decision.value \in Finite
             /\ \A b \in Finite : PolicyBaseline(decision, b) \in Finite
<1> DEFINE annual == {t \in {u \in targets : ~u.archived} : t.scope = "annual" /\ t.year = year}
           nearest == FirstBy(annual, LAMBDA t : t.targetYear * 100 + t.id)
           chosen == IF annual = {} THEN Null ELSE nearest
           decision == TargetPolicy(targets, year, type, parent).annual
<1>0. Null \in Finite /\ 0 \in Finite /\ Factor \in Finite
  BY NumberAssumption DEF Finite
<1>1. annual # {} => nearest \in annual
  <2> SUFFICES ASSUME annual # {} PROVE nearest \in annual
    OBVIOUS
  <2> DEFINE key == [t \in annual |-> t.targetYear * 100 + t.id]
  <2>1. \A t \in annual : key[t] \in Nat
    OBVIOUS
  <2>2. \E r \in annual : \A s \in annual : key[r] <= key[s]
    <3> HIDE DEF key, annual
    <3> QED
      BY <2>1, Least
  <2>3. \E r \in annual : \A s \in annual :
          r.targetYear * 100 + r.id <= s.targetYear * 100 + s.id
    BY <2>2
  <2> HIDE DEF annual
  <2> QED
    BY <2>3 DEF FirstBy
<1>2. /\ decision.target = chosen
      /\ decision.value = (IF chosen = Null THEN Null ELSE ConfiguredTargetValue(chosen, type))
  <2> HIDE DEF nearest
  <2> QED
    BY Zenon DEF TargetPolicy, Policy, TargetDecision, nearest
<1>3. chosen = Null \/ {chosen.value, chosen.structured, chosen.baseline} \subseteq Finite
  <2> HIDE DEF nearest
  <2> QED
    BY <1>1
<1> HIDE DEF decision, chosen
<1>4. decision.value \in Finite
  <2>1. chosen # Null => ConfiguredTargetValue(chosen, type) \in Finite
    BY <1>0, <1>3 DEF ConfiguredTargetValue
  <2> QED
    BY <1>0, <1>2, <2>1
<1>5. \A b \in Finite : PolicyBaseline(decision, b) \in Finite
  BY <1>2, <1>3 DEF PolicyBaseline
<1> QED
  BY <1>4, <1>5 DEF decision

(* A month closes a share of the year.                                      *)
LEMMA ElapsedIsShare ==
  ASSUME NEW frequency, NEW month \in Int
  PROVE  PacingElapsed(frequency, month) \in {<<e, 12>> : e \in 0 .. 12} \cup {<<1, 1>>}
<1>1. Clamped(month, 12) \in 0 .. 12
  BY DEF Clamped
<1> QED
  BY <1>1 DEF PacingElapsed, P!Months

(* A Measure is never said to be on track without its share of the way, nor *)
(* behind when it has met its target, for every target, baseline, direction,*)
(* frequency and month, and whatever was entered for it                     *)
(* (annualAndPlanProgress, calculations.ts; pacing, strategy-summary.ts).   *)
THEOREM PacingAlwaysHonest == EntrySpec => []PacingIsHonest
<1>1. ResultsInv => PacingIsHonest
  <2> SUFFICES ASSUME ResultsInv, measure.type # "distribution",
                      NEW year \in PlanYears, NEW month \in ViewedMonths
               PROVE  LET row == Row(year, month)
                      IN  PacedHonestly(row.progress.pacing, row.progress.annual,
                                        PacingElapsed(measure.frequency, month))
    BY DEF PacingIsHonest
  <2> DEFINE current == ResolvedActual(measure, Actuals(year), year, month)
             plan == CumulativeActual(measure, Actuals(year), year, PlanStart, month)
             policy == TargetPolicy(measure.targets, year, measure.type, measure.status)
             in == [annualActual |-> Usable(current), annualTarget |-> policy.annual.value,
                    targetToDate |-> Null, elapsed |-> PacingElapsed(measure.frequency, month),
                    annualBaseline |-> PolicyBaseline(policy.annual, measure.baseline),
                    cumulative |-> Usable(plan), planTarget |-> policy.fullPlan.value,
                    planBaseline |-> PolicyBaseline(policy.fullPlan, measure.baseline),
                    direction |-> measure.direction, annualStatus |-> policy.annual.status,
                    planStatus |-> policy.fullPlan.status]
  <2>1. Row(year, month).progress = AnnualAndPlanProgress(in)
    <3> HIDE DEF current, plan, policy
    <3> QED
      BY DEF Row, MeasureSummary, Summarized, SummaryRow, MeasureProgress, current, plan, policy
  <2>2. in.annualActual \in Readings
    BY ActualIsReading
  <2>3. /\ policy.annual.value \in Readings
        /\ PolicyBaseline(policy.annual, measure.baseline) \in Readings
    BY EntryAssumption, TargetsAreReadings, AnswersAreReadings DEF ResultsInv
  <2>4. in.elapsed \in {<<e, 12>> : e \in 0 .. 12} \cup {<<1, 1>>}
    BY EntryAssumption, ElapsedIsShare
  <2>5. /\ in.annualTarget = policy.annual.value /\ in.targetToDate = Null
        /\ in.annualBaseline = PolicyBaseline(policy.annual, measure.baseline)
        /\ in.direction = measure.direction
        /\ in.elapsed = PacingElapsed(measure.frequency, month)
    BY Zenon
  <2> HIDE DEF in
  <2> QED
    BY <2>1, <2>2, <2>3, <2>4, <2>5, Paced
<1> QED
  BY <1>1, ResultsInvariance, PTL

-----------------------------------------------------------------------------
(***************************************************************************)
(* The Board's headline.                                                   *)
(***************************************************************************)

Scalars == {"count", "cumulative", "currency"}

LEMMA RoundedToItself ==
  ASSUME NEW n \in Int
  PROVE  Rounded(n, 1) = FiniteNumber(n)
<1>1. (2 * n + 1) \div (2 * 1) = n
  BY RoundedOver1
<1> QED
  BY <1>1 DEF Rounded

LEMMA ScalarsAreThemselves ==
  ASSUME NEW v \in -MaxNum .. MaxNum
  PROVE  Scalar(v).state = "ok" /\ Scalar(v).value = v
<1>1. v \in Int /\ v # Null /\ v # NaN
  BY NumberAssumption
<1>2. Rounded(v, 1) = v
  BY <1>1, RoundedToItself DEF FiniteNumber
<1>3. Scalar(v) = Result([state |-> "ok", value |-> v])
  BY <1>1, <1>2 DEF Scalar, StateOf
<1> QED
  BY <1>3 DEF Result, Over

(* What is typed for a scalar is what its result calculates to.             *)
LEMMA ScalarResults ==
  ASSUME measure.type \in Scalars, NEW s, Entered(s), s.component = Null, NEW start
  PROVE  /\ s.row.value \in -MaxNum .. MaxNum
         /\ CalculatedResult(measure, stored, s, start).state = "ok"
         /\ CalculatedResult(measure, stored, s, start).value = s.row.value
<1>1. PICK d : /\ \A f \in TypedFields : d[f] \in Readings
               /\ FormAccepts(measure, d)
               /\ s = Stored(measure, s.component, FormWrite(measure, d, s.year))
  BY DEF Entered, Owner
<1> DEFINE w == FormWrite(measure, d, s.year)
<1>2. w.value = d.value
  BY WriteHasFields DEF WriteFields, Scalars
<1>3. d.value \in -MaxNum .. MaxNum
  <2>1. Typed(d.value)
    BY <1>1 DEF FormAccepts, Scalars
  <2> QED
    BY <1>1, <2>1 DEF Typed, TypedFields, Readings
<1>4. s.row = StoredRow(measure, w)
  BY <1>1 DEF Stored
<1> HIDE DEF w
<1>5. s.row.value = d.value
  BY <1>2, <1>4 DEF StoredRow, Scalars
<1> DEFINE previous == PreviousValue(stored, s, start, measure.baseline)
<1>6. CalculatedResult(measure, stored, s, start) = Calculated(measure, s.row, previous)
  BY DEF CalculatedResult, Scalars
<1> HIDE DEF previous
<1>7. KernelQuestion(measure, s.row, previous) = [type |-> measure.type, value |-> s.row.value]
  BY DEF KernelQuestion, Scalars
<1>8. Calculated(measure, s.row, previous) = Scalar(s.row.value)
  BY <1>7 DEF Calculated, SingleMeasurement, Scalars
<1> QED
  BY <1>3, <1>5, <1>6, <1>8, ScalarsAreThemselves

(* Progress keeps what it was asked of.                                     *)
LEMMA ProgressKeepsCurrent ==
  ASSUME NEW p
  PROVE  Progress(p).current = FiniteOrNull(p.current)
<1> DEFINE told == ProgressTold(p)
<1>1. told = ProgressMade(p, ShareCovered(p, Span(p)), Met(p))
      \/ "current" \notin DOMAIN told
  BY Zenon DEF ProgressTold
<1>2. "current" \notin DOMAIN ProgressMade(p, ShareCovered(p, Span(p)), Met(p))
  BY DEF ProgressMade
<1> HIDE DEF told
<1> QED
  BY <1>1, <1>2 DEF Progress, ProgressResult, Over, told

LEMMA CombinedFacts ==
  ASSUME NEW rows, NEW type, NEW frequency, NEW month,
         CombinedValue(rows, type, frequency, month).invalid
  PROVE  CombinedValue(rows, type, frequency, month).value = Null
BY Zenon DEF CombinedValue

LEMMA YearsFollowStart ==
  ASSUME NEW year \in PlanYears
  PROVE  year \in PlanStart .. year
<1> DEFINE key == [y \in PlanYears |-> y]
<1>1. PlanYears \subseteq Nat
  BY EntryAssumption
<1>2. \E y \in PlanYears : \A z \in PlanYears : key[y] <= key[z]
  <2> HIDE DEF key
  <2>1. \A y \in PlanYears : key[y] \in Nat
    BY <1>1 DEF key
  <2> QED
    BY <2>1, Least
<1>3. PlanStart \in PlanYears /\ PlanStart <= year
  BY <1>2 DEF PlanStart
<1> QED
  BY <1>1, <1>3

(* The latest result of the year is one of its results.                     *)
LEMMA LatestResultIsOne ==
  ASSUME ResultsInv, NEW year, NEW included, included \subseteq Actuals(year), included # {}
  PROVE  LastBy(included, SortKey) \in included
<1> DEFINE key == [a \in included |-> SortKey(a)]
<1>1. ASSUME NEW a \in included PROVE key[a] \in 0 .. 600
  <2>1. PICK s \in stored : a.type = s.type /\ a.index = s.index
    BY DEF Actuals, CalculatedActuals, CalculatedActual, Actual
  <2>2. a.type \in P!ConcreteFrequencies /\ a.index \in 0 .. 12
    BY <2>1, EnteredPeriods DEF ResultsInv
  <2>3. \E i \in 1 .. 5 : PeriodTypes[i] = a.type
    BY <2>2 DEF PeriodTypes, P!ConcreteFrequencies
  <2>4. PeriodRank(a.type) \in 1 .. 5
    BY <2>3 DEF PeriodRank, PeriodTypes
  <2> QED
    BY <2>2, <2>4 DEF SortKey
<1>2. \E r \in included : \A s \in included : key[s] <= key[r]
  <2>1. \A a \in included : key[a] \in 0 .. 600
    BY <1>1
  <2>2. 600 \in Nat
    OBVIOUS
  <2> HIDE DEF key
  <2> QED
    BY <2>1, <2>2, Greatest, Zenon
<1>3. \E r \in included : \A s \in included : SortKey(s) <= SortKey(r)
  BY <1>2
<1> QED
  BY <1>3 DEF LastBy

(* Only a sum that is no number makes a scalar invalid.                     *)
LEMMA InvalidIsNothing ==
  ASSUME ResultsInv, measure.type \in Scalars, NEW year, NEW month,
         LET resolved == ResolvedActual(measure, Actuals(year), year, month)
         IN  resolved.result # Null /\ resolved.result.state = "invalid"
  PROVE  ResolvedActual(measure, Actuals(year), year, month).value = Null
<1> DEFINE direct == {a \in Actuals(year) : a.year = year}
           included == {a \in direct : PeriodIncluded(a, month)}
           combined == CombinedValue(direct, measure.type, measure.frequency, month)
           latest == IF included = {} THEN Null ELSE LastBy(included, SortKey).result
           resolved == ResolvedActual(measure, Actuals(year), year, month)
<1>1. /\ resolved.value = combined.value
      /\ resolved.result = (IF combined.invalid THEN InvalidAggregate(latest) ELSE latest)
  BY Zenon DEF ResolvedActual, WithLatest
<1>2. included # {} => latest.state = "ok"
  <2> SUFFICES ASSUME included # {} PROVE latest.state = "ok"
    OBVIOUS
  <2>1. LastBy(included, SortKey) \in included
    BY LatestResultIsOne
  <2>2. PICK s \in stored : LastBy(included, SortKey)
                              = CalculatedActual(measure, stored, s, PlanStart)
    BY <2>1 DEF Actuals, CalculatedActuals
  <2>3. CalculatedResult(measure, stored, s, PlanStart).state = "ok"
    BY ScalarResults DEF ResultsInv, Alone, Scalars
  <2>4. LastBy(included, SortKey).result = CalculatedResult(measure, stored, s, PlanStart)
    BY <2>2 DEF CalculatedActual, Actual
  <2> QED
    BY <2>3, <2>4
<1>3. combined.invalid => combined.value = Null
  BY CombinedFacts
<1> HIDE DEF combined, included, resolved
<1> QED
  BY <1>1, <1>2, <1>3 DEF resolved

(* What the Board says of the year is the actual progress is measured from. *)
LEMMA AnnualIsCurrent ==
  ASSUME ResultsInv, measure.type \in Scalars, NEW year, NEW month \in ViewedMonths
  PROVE  LET current == ResolvedActual(measure, Actuals(year), year, month)
             row == Row(year, month)
         IN  /\ row.current = current.value /\ row.result = current.result
             /\ row.progress.annual.current = current.value
<1> DEFINE current == ResolvedActual(measure, Actuals(year), year, month)
           plan == CumulativeActual(measure, Actuals(year), year, PlanStart, month)
           policy == TargetPolicy(measure.targets, year, measure.type, measure.status)
           row == Row(year, month)
           in == [annualActual |-> Usable(current), annualTarget |-> policy.annual.value,
                  targetToDate |-> Null, elapsed |-> PacingElapsed(measure.frequency, month),
                  annualBaseline |-> PolicyBaseline(policy.annual, measure.baseline),
                  cumulative |-> Usable(plan), planTarget |-> policy.fullPlan.value,
                  planBaseline |-> PolicyBaseline(policy.fullPlan, measure.baseline),
                  direction |-> measure.direction, annualStatus |-> policy.annual.status,
                  planStatus |-> policy.fullPlan.status]
<1>1. /\ row.current = current.value /\ row.result = current.result
      /\ row.progress = AnnualAndPlanProgress(in)
  <2> HIDE DEF current, plan, policy
  <2> QED
    BY DEF Row, MeasureSummary, Summarized, SummaryRow, MeasureProgress, current, plan, policy
<1>2. /\ policy.annual.value \in Finite
      /\ PolicyBaseline(policy.annual, measure.baseline) \in Finite
  BY EntryAssumption, TargetsAreReadings, AnswersAreReadings DEF ResultsInv
<1>3. in.elapsed \in {<<e, 12>> : e \in 0 .. 12} \cup {<<1, 1>>}
  BY EntryAssumption, ElapsedIsShare
<1>4. /\ in.annualActual = Usable(current) /\ in.targetToDate = Null
      /\ in.annualTarget = policy.annual.value
      /\ in.annualBaseline = PolicyBaseline(policy.annual, measure.baseline)
  BY Zenon
<1>5. current.value \in Finite /\ (current.invalid => current.value = Null)
  <2> DEFINE combined == CombinedValue({a \in Actuals(year) : a.year = year}, measure.type,
                                       measure.frequency, month)
  <2>1. current.value = combined.value /\ current.invalid = combined.invalid
    BY Zenon DEF ResolvedActual, WithLatest
  <2>2. combined.value \in Finite
    BY ActualsAreTold, CombinedIsFinite DEF Scalars
  <2>3. combined.invalid => combined.value = Null
    BY CombinedFacts
  <2> HIDE DEF combined, current
  <2> QED
    BY <2>1, <2>2, <2>3
<1> HIDE DEF in, current, policy, plan
<1>6. /\ in.elapsed[1] \in 0 .. in.elapsed[2]
      /\ NaN \notin {in.targetToDate, in.annualTarget, in.annualBaseline}
  <2>1. in.elapsed[1] \in 0 .. in.elapsed[2]
    BY <1>3
  <2> QED
    BY <1>2, <1>4, <2>1, NumberAssumption DEF Finite
<1>7. row.progress.annual = Progress([current |-> in.annualActual, target |-> in.annualTarget,
                                      baseline |-> in.annualBaseline,
                                      direction |-> in.direction, status |-> in.annualStatus])
  <2>1. ~(in.elapsed[1] \notin 0 .. in.elapsed[2]
          \/ NaN \in {in.targetToDate, in.annualTarget, in.annualBaseline})
    BY <1>6
  <2> HIDE DEF row
  <2>2. AnnualAndPlanProgress(in).annual
          = Progress([current |-> in.annualActual, target |-> in.annualTarget,
                      baseline |-> in.annualBaseline, direction |-> in.direction,
                      status |-> in.annualStatus])
    BY <2>1, Zenon DEF AnnualAndPlanProgress, ThreeProgresses
  <2> QED
    BY <1>1, <2>2
<1>8. row.progress.annual.current = FiniteOrNull(Usable(current))
  BY <1>4, <1>7, ProgressKeepsCurrent
<1>9. FiniteOrNull(Usable(current)) = current.value
  BY <1>5, NumberAssumption DEF FiniteOrNull, Usable, Finite
<1> QED
  BY <1>1, <1>8, <1>9 DEF current, row

(* In December the periods of a year add up to its actual.                  *)
LEMMA DecemberIsSum ==
  ASSUME ResultsInv, Additive(measure.type, measure.frequency), NEW year \in PlanYears,
         NEW periods, periods = {s \in stored : s.year = year}, periods # {},
         \A s \in periods : s.type \in {"monthly", "quarterly"},
         NEW sum, sum = SumFunction([s \in periods |-> s.row.value]),
         FiniteNumber(sum) # Null
  PROVE  ResolvedActual(measure, Actuals(year), year, P!Months).value = sum
<1> DEFINE result(s) == CalculatedResult(measure, stored, s, PlanStart)
           act(s) == Actual(s, result(s))
           direct == {a \in Actuals(year) : a.year = year}
           finite == {a \in direct : Given(a.value) /\ PeriodIncluded(a, P!Months)}
           values == [s \in periods |-> s.row.value]
           added == [a \in finite |-> a.value]
           h == [s \in periods |-> act(s)]
<1>1. measure.type \in Scalars
  BY DEF Additive, Scalars
<1>2. ASSUME NEW s \in periods
      PROVE  /\ act(s).year = year /\ act(s).type = s.type /\ act(s).index = s.index
             /\ act(s).value = s.row.value /\ s.row.value \in -MaxNum .. MaxNum
             /\ s.index # P!Single /\ PeriodIncluded(act(s), P!Months)
  <2>1. /\ act(s).year = s.year /\ act(s).type = s.type /\ act(s).index = s.index
        /\ act(s).value = result(s).value
    BY DEF Actual
  <2>2. Entered(s) /\ s.component = Null
    BY <1>1 DEF ResultsInv, Alone, Scalars
  <2>3. result(s).value = s.row.value /\ s.row.value \in -MaxNum .. MaxNum
    BY <1>1, <2>2, ScalarResults
  <2>4. s.index \in P!PeriodIndexes(s.type)
    BY <2>2, EnteredPeriods
  <2> HIDE DEF result, act
  <2>5. \/ s.type = "monthly" /\ s.index \in 1 .. 12
        \/ s.type = "quarterly" /\ s.index \in 1 .. 4
    BY <2>4 DEF P!PeriodIndexes, P!Months, P!Quarters
  <2>6. PeriodIncluded(act(s), 12)
    BY <2>1, <2>5 DEF PeriodIncluded
  <2> QED
    BY <2>1, <2>3, <2>5, <2>6 DEF P!Single, P!Months
<1>3. direct = {act(s) : s \in periods}
  <2>1. Actuals(year) = {act(s) : s \in {r \in stored : r.year \in PlanStart .. year}}
    BY Zenon DEF Actuals, CalculatedActuals, CalculatedActual
  <2>2. \A s : act(s).year = s.year
    BY DEF Actual
  <2>3. year \in PlanStart .. year
    BY YearsFollowStart
  <2> HIDE DEF act
  <2> QED
    BY <2>1, <2>2, <2>3
<1>4. finite = direct
  <2>1. \A v \in -MaxNum .. MaxNum : Given(v)
    BY NumberAssumption DEF Given
  <2> HIDE DEF act
  <2> QED
    BY <1>2, <1>3, <2>1
<1>5. finite # {} /\ {a \in finite : a.index = P!Single} = {}
  <2> HIDE DEF act, direct, finite
  <2> QED
    BY <1>2, <1>3, <1>4
<1>6. h \in Bijection(periods, finite)
  <2>1. ASSUME NEW s \in periods, NEW r \in periods, act(s) = act(r) PROVE s = r
    <3>1. s.component = Null /\ r.component = Null
      BY <1>1 DEF ResultsInv, Alone, Scalars
    <3>2. SameResult(s, r)
      <4> HIDE DEF act
      <4> QED
        BY <1>2, <2>1, <3>1 DEF SameResult, SamePeriod
    <3> QED
      BY <1>1, <3>2 DEF ResultsInv, Alone, Scalars
  <2> HIDE DEF act, finite, direct
  <2> QED
    BY <1>3, <1>4, <2>1 DEF Bijection, Injection, IsInjective, Surjection
<1>7. IsFiniteSet(periods) /\ IsFiniteSet(finite)
  <2>1. IsFiniteSet(periods)
    BY <1>1, FS_Subset DEF ResultsInv, Alone, Scalars
  <2> QED
    BY <1>6, <2>1, FS_Bijection DEF ExistsBijection
<1>8. SumFunction(values) = SumFunction(added) /\ SumFunction(values) \in Int
  <2>1. \A s \in periods : values[s] \in Int /\ added[h[s]] = values[s]
    <3>1. \A s \in periods : h[s] = act(s) /\ h[s] \in finite
      BY <1>6 DEF Bijection, Injection
    <3> HIDE DEF act, finite, direct, h
    <3> QED
      BY <1>2, <3>1, NumberAssumption
  <2>2. DOMAIN values = periods /\ DOMAIN added = finite
    OBVIOUS
  <2> HIDE DEF values, added, h, finite
  <2> QED
    BY <1>6, <1>7, <2>1, <2>2, SumsAlong
<1>9. CombinedValue(direct, measure.type, measure.frequency, P!Months).value
        = Rounded(SumFunction(added), 1)
  <2> HIDE DEF direct
  <2> QED
    BY <1>5, Zenon DEF CombinedValue
<1>10. ResolvedActual(measure, Actuals(year), year, P!Months).value
         = CombinedValue(direct, measure.type, measure.frequency, P!Months).value
  BY Zenon DEF ResolvedActual, WithLatest
<1>11. Rounded(sum, 1) = sum
  <2>1. sum \in Int
    BY <1>8
  <2> QED
    BY <2>1, RoundedToItself DEF FiniteNumber
<1> HIDE DEF direct, added, values
<1> QED
  BY <1>8, <1>9, <1>10, <1>11 DEF values

(* The headline of an additive Measure is the year to date that its own     *)
(* annual row states, and through December the sum of what was entered for  *)
(* the months and quarters of the year, however many there are, in whatever *)
(* order they were entered, corrected and removed (headline,                *)
(* strategic-board-adapter.ts; resolveActual, strategy-summary.ts).         *)
THEOREM HeadlinesAlwaysYearToDate == EntrySpec => []HeadlineIsYearToDate
<1>1. ResultsInv => HeadlineIsYearToDate
  <2> SUFFICES ASSUME ResultsInv, Additive(measure.type, measure.frequency),
                      NEW year \in PlanYears, NEW month \in ViewedMonths
               PROVE  YearToDateStated(Board(year, month), {s \in stored : s.year = year}, month)
    BY DEF HeadlineIsYearToDate
  <2> DEFINE row == Row(year, month)
             board == Board(year, month)
             current == ResolvedActual(measure, Actuals(year), year, month)
             periods == {s \in stored : s.year = year}
             sum == SumFunction([s \in periods |-> s.row.value])
             input == ProgressInput(measure, row, "annual")
  <2>1. measure.type \in Scalars
    BY DEF Additive, Scalars
  <2>2. /\ row.current = current.value /\ row.result = current.result
        /\ row.progress.annual.current = current.value
    BY <2>1, AnnualIsCurrent
  <2>3. /\ board.headline = Headline(measure, row)
        /\ board.annual = SanitizedProgress(input, measure.status)
    <3> HIDE DEF row
    <3> QED
      BY DEF Board, BoardRow, ReportedRow, row
  <2> HIDE DEF row, board, current
  <2>4. /\ board.headline.value = current.value
        /\ board.headline.state = "invalid" =>
             row.result # Null /\ row.result.state = "invalid"
    BY <2>2, <2>3 DEF Headline
  <2>5. board.annual # Null => board.annual.actual = current.value
    <3>1. input # Null => input.actual = current.value
      BY <2>2 DEF ProgressInput
    <3> HIDE DEF input
    <3> QED
      BY <2>3, <3>1 DEF SanitizedProgress
  <2>6. board.headline.state = "invalid" => board.headline.value = Null
    BY <2>1, <2>2, <2>4, InvalidIsNothing DEF current
  <2>7. ASSUME month = P!Months, periods # {}, FiniteNumber(sum) # Null,
               \A s \in periods : s.type \in {"monthly", "quarterly"}
        PROVE  board.headline.value = sum
    BY <2>4, <2>7, DecemberIsSum DEF current
  <2> HIDE DEF sum, periods
  <2> QED
    BY <2>4, <2>5, <2>6, <2>7 DEF YearToDateStated, board, sum, periods
<1> QED
  BY <1>1, ResultsInvariance, PTL

-----------------------------------------------------------------------------
(***************************************************************************)
(* Goals.                                                                  *)
(***************************************************************************)

(* Progress, however it was asked for.                                      *)
Shaped(r) ==
  /\ r.state \in {"ok", "missing", "invalid"}
  /\ r.state = "ok" =>
       /\ r.display # Null
       /\ r.status \in {"exceeded", "complete", "not_started", "in_progress"}
  /\ r.state = "missing" =>
       /\ r.status \in {"needs_definition", "target_not_finalized", "not_started"}
       /\ r.isComplete = FALSE
  /\ r.state = "invalid" => r.status = "needs_definition" /\ r.isComplete = FALSE

LEMMA ResultsOfProgress ==
  ASSUME NEW p, NEW told,
         \/ told \in {[state |-> "missing", status |-> s, issues |-> {c}] :
                        s \in {"needs_definition", "target_not_finalized", "not_started"},
                        c \in {"NEEDS_DEFINITION", "TARGET_NOT_FINALIZED", "MISSING_ACTUAL"}}
         \/ \E codes : told = [issues |-> codes]
         \/ /\ DOMAIN told = {"state", "actual", "display", "isComplete", "isExceeded", "status"}
            /\ told.state = "ok" /\ told.display # Null
            /\ told.status \in {"exceeded", "complete", "not_started", "in_progress"}
  PROVE  Shaped(ProgressResult(p, told))
<1> DEFINE r == ProgressResult(p, told)
           said(field, otherwise) == IF field \in DOMAIN told THEN told[field] ELSE otherwise
<1>1. r.state = said("state", "invalid")
  BY DEF ProgressResult, Over
<1>2. r.status = said("status", "needs_definition")
  BY DEF ProgressResult, Over
<1>3. r.isComplete = said("isComplete", FALSE)
  BY DEF ProgressResult, Over
<1>4. r.display = said("display", Null)
  BY DEF ProgressResult, Over
<1> HIDE DEF r
<1>5. Shaped(r)
  BY <1>1, <1>2, <1>3, <1>4 DEF Shaped
<1> QED
  BY <1>5 DEF r

LEMMA ProgressIsShaped ==
  ASSUME NEW p
  PROVE  Shaped(Progress(p))
<1> DEFINE told == ProgressTold(p)
           actual == ShareCovered(p, Span(p))
           exceeded == Met(p) /\ p.current # p.target
<1>1. ASSUME told = ProgressMade(p, actual, Met(p)), actual # Null
      PROVE  /\ DOMAIN told = {"state", "actual", "display", "isComplete", "isExceeded", "status"}
             /\ told.state = "ok" /\ told.display # Null
             /\ told.status \in {"exceeded", "complete", "not_started", "in_progress"}
  <2>1. told = [state |-> "ok", actual |-> actual, display |-> Clamped(actual, Whole),
                isComplete |-> Met(p), isExceeded |-> exceeded,
                status |-> ProgressStatus(actual, Met(p), exceeded)]
    BY <1>1, Zenon DEF ProgressMade
  <2>2. Clamped(actual, Whole) # Null
    <3> HIDE DEF actual
    <3> QED
      BY <1>1, NumberAssumption DEF Clamped, Whole
  <2>3. ProgressStatus(actual, Met(p), exceeded)
          \in {"exceeded", "complete", "not_started", "in_progress"}
    BY Zenon DEF ProgressStatus
  <2> HIDE DEF told, actual, exceeded
  <2> QED
    BY <2>1, <2>2, <2>3
<1>2. ASSUME told = ProgressMade(p, actual, Met(p)), actual = Null
      PROVE  \E codes : told = [issues |-> codes]
  BY <1>2, Zenon DEF ProgressMade
<1>3. \/ told = ProgressMade(p, actual, Met(p))
      \/ told \in {[state |-> "missing", status |-> s, issues |-> {c}] :
                     s \in {"needs_definition", "target_not_finalized", "not_started"},
                     c \in {"NEEDS_DEFINITION", "TARGET_NOT_FINALIZED", "MISSING_ACTUAL"}}
      \/ \E codes : told = [issues |-> codes]
  <2> DEFINE lacking == {[state |-> "missing", status |-> s, issues |-> {c}] :
                     s \in {"needs_definition", "target_not_finalized", "not_started"},
                     c \in {"NEEDS_DEFINITION", "TARGET_NOT_FINALIZED", "MISSING_ACTUAL"}}
  <2>1. /\ [state |-> "missing", status |-> "needs_definition", issues |-> {"NEEDS_DEFINITION"}]
             \in lacking
        /\ [state |-> "missing", status |-> "target_not_finalized",
            issues |-> {"TARGET_NOT_FINALIZED"}] \in lacking
        /\ [state |-> "missing", status |-> "not_started", issues |-> {"MISSING_ACTUAL"}]
             \in lacking
    OBVIOUS
  <2> HIDE DEF lacking
  <2>2. \/ told = ProgressMade(p, actual, Met(p)) \/ told \in lacking
        \/ \E codes : told = [issues |-> codes]
    BY <2>1, Zenon DEF ProgressTold
  <2> QED
    BY <2>2 DEF lacking
<1> HIDE DEF told
<1>4. Shaped(ProgressResult(p, told))
  BY <1>1, <1>2, <1>3, ResultsOfProgress
<1> QED
  BY <1>4 DEF Progress, told

(* The completion of a row is progress, by whatever way it was found.       *)
LEMMA CompletionIsShaped ==
  ASSUME NEW year, NEW month
  PROVE  Shaped(Row(year, month).completion)
<1> DEFINE Asked(r) == Shaped(r)
<1>1. ASSUME NEW m, NEW current, NEW plan, NEW policy
      PROVE  LET three == MeasureProgress(m, current, plan, policy, month)
             IN  Shaped(three.annual) /\ Shaped(three.plan)
  <2> DEFINE nothing == ProgressResult([current |-> Null, target |-> Null, baseline |-> Null],
                                       [issues |-> {"NON_FINITE_VALUE"}])
  <2>1. Shaped(nothing)
    BY ResultsOfProgress
  <2>2. ASSUME NEW in
        PROVE  /\ AnnualAndPlanProgress(in).annual = nothing
                  \/ \E p : AnnualAndPlanProgress(in).annual = Progress(p)
               /\ AnnualAndPlanProgress(in).plan = nothing
                  \/ \E p : AnnualAndPlanProgress(in).plan = Progress(p)
    BY Zenon DEF AnnualAndPlanProgress, ThreeProgresses
  <2> HIDE DEF nothing
  <2> QED
    BY <2>1, <2>2, ProgressIsShaped DEF MeasureProgress
<1>2. ASSUME NEW m, NEW parts
      PROVE  Shaped(AveragedProgress(m, parts))
  BY ProgressIsShaped, Zenon DEF AveragedProgress, NeedsDefinition, Towards
<1>3. ASSUME NEW m, NEW result, NEW decisions
      PROVE  LET c == ComponentCompletion(m, result, decisions) IN c = Null \/ Shaped(c)
  BY <1>2, ProgressIsShaped, Zenon DEF ComponentCompletion, NeedsDefinition, Towards
<1> DEFINE current == ResolvedActual(measure, Actuals(year), year, month)
           plan == CumulativeActual(measure, Actuals(year), year, PlanStart, month)
           policy == TargetPolicy(measure.targets, year, measure.type, measure.status)
           three == MeasureProgress(measure, current, plan, policy, month)
           byComponents == ComponentCompletion(measure, current.result,
                             ComponentDecisions(measure.components, year))
<1>4. Row(year, month).completion = MeasureCompletion(policy, three, byComponents)
  <2> HIDE DEF current, plan, policy, byComponents
  <2> QED
    BY DEF Row, MeasureSummary, Summarized, SummaryRow, current, plan, policy, byComponents
<1>5. Shaped(three.annual) /\ Shaped(three.plan) /\ (byComponents = Null \/ Shaped(byComponents))
  BY <1>1, <1>3
<1> HIDE DEF three, policy, byComponents
<1> QED
  BY <1>4, <1>5 DEF MeasureCompletion

(* A Measure of a Goal.                                                     *)
Member(k) ==
  /\ k.progress = Null \/ Shaped(k.progress)
  /\ k.status \in ConfigurationStatuses
  /\ k.informational \in BOOLEAN /\ k.weight \in Nat

(* A Measure counts exactly when one expects it to.                         *)
LEMMA ExclusionFacts ==
  ASSUME NEW k, Member(k)
  PROVE  /\ Exclusion(k) = Null <=> Expected(k)
         /\ Exclusion(k) \in ExclusionReasons \cup {Null}
         /\ Exclusion(k) = "informational" => k.informational
         /\ Expected(k) =>
              NormalizedProgress(k.progress).complete = k.progress.isComplete
<1> DEFINE normal == NormalizedProgress(k.progress)
<1>1. CASE k.progress = Null
  <2>1. normal.state = "missing"
    BY <1>1 DEF NormalizedProgress
  <2> HIDE DEF normal
  <2>2. Exclusion(k) = IF k.informational THEN "informational"
                       ELSE IF k.status \in {"draft", "archived", "needs_definition", "needs_target"}
                       THEN k.status ELSE "missing_progress"
    BY <1>1, <2>1 DEF Exclusion, normal
  <2> QED
    BY <1>1, <2>2, ReasonAssumption DEF Expected, ExclusionReasons, Member
<1>2. CASE k.progress # Null
  <2> DEFINE r == k.progress
  <2>0. Shaped(r)
    BY <1>2 DEF Member
  <2>1. CASE r.state = "missing" /\ r.status = "not_started"
    <3>1. normal.state = "ok" /\ normal.progress = 0 /\ normal.complete = FALSE
      BY <1>2, <2>1 DEF NormalizedProgress
    <3> HIDE DEF normal
    <3>2. Exclusion(k) = IF k.informational THEN "informational"
                         ELSE IF k.status \in {"draft", "archived", "needs_definition", "needs_target"}
                         THEN k.status ELSE Null
      BY <3>1, NumberAssumption DEF Exclusion, Member, normal
    <3> QED
      BY <1>2, <2>0, <2>1, <3>1, <3>2, ReasonAssumption
         DEF Expected, ExclusionReasons, Member, Shaped, ConfigurationStatuses, normal
  <2>2. CASE r.state = "ok"
    <3>1. normal.state = "ok" /\ normal.progress # Null /\ normal.complete = r.isComplete
      BY <1>2, <2>0, <2>2 DEF NormalizedProgress, Shaped
    <3> HIDE DEF normal
    <3>2. Exclusion(k) = IF k.informational THEN "informational"
                         ELSE IF k.status \in {"draft", "archived", "needs_definition", "needs_target"}
                         THEN k.status ELSE Null
      BY <3>1, NumberAssumption DEF Exclusion, Member, normal
    <3> QED
      BY <1>2, <2>0, <2>2, <3>1, <3>2, ReasonAssumption
         DEF Expected, ExclusionReasons, Member, Shaped, ConfigurationStatuses, normal
  <2>3. CASE r.state # "ok" /\ ~(r.state = "missing" /\ r.status = "not_started")
    <3>1. normal.state = r.state /\ normal.state # "ok"
          /\ r.status \in {"needs_definition", "target_not_finalized"}
      BY <1>2, <2>0, <2>3 DEF NormalizedProgress, Shaped
    <3> HIDE DEF normal
    <3>2. Exclusion(k) = IF k.informational THEN "informational"
                         ELSE IF k.status \in {"draft", "archived", "needs_definition", "needs_target"}
                         THEN k.status
                         ELSE IF normal.state = "invalid" THEN "invalid_progress"
                         ELSE IF r.status = "needs_definition" THEN "needs_definition"
                         ELSE "needs_target"
      BY <1>2, <3>1 DEF Exclusion, normal
    <3> QED
      BY <1>2, <3>1, <3>2, ReasonAssumption DEF Expected, ExclusionReasons, Member
  <2> QED
    BY <2>0, <2>1, <2>2, <2>3
<1> QED
  BY <1>1, <1>2

(* What a Goal says of itself: the counted Measures, how many of them are   *)
(* complete, and why the others are not counted.                            *)
LEMMA OutcomeFacts ==
  ASSUME NEW fields
  PROVE  LET r == GoalResult(fields)
         IN  /\ r.eligible = IF "eligible" \in DOMAIN fields THEN fields["eligible"] ELSE FALSE
             /\ r.complete = IF "complete" \in DOMAIN fields THEN fields["complete"] ELSE FALSE
             /\ r.reasons = IF "reasons" \in DOMAIN fields THEN fields["reasons"] ELSE {}
<1>1. GoalResult(fields).eligible = IF "eligible" \in DOMAIN fields THEN fields["eligible"]
                                    ELSE FALSE
  BY DEF GoalResult, Over
<1>2. GoalResult(fields).complete = IF "complete" \in DOMAIN fields THEN fields["complete"]
                                    ELSE FALSE
  BY DEF GoalResult, Over
<1>3. GoalResult(fields).reasons = IF "reasons" \in DOMAIN fields THEN fields["reasons"] ELSE {}
  BY DEF GoalResult, Over
<1> QED
  BY <1>1, <1>2, <1>3

(* A rule that asks for all of n Measures is met by all of them only.       *)
LEMMA AllOfThem ==
  ASSUME NEW rule, rule.percentage = 100, NEW n \in Nat
  PROVE  ThresholdCount(rule, n) \in {n, Null}
<1>1. (n * 100 + 99) \div 100 = n
  OBVIOUS
<1> QED
  BY <1>1, NumberAssumption DEF ThresholdCount

LEMMA GoalFacts ==
  ASSUME NEW rule, NEW kpis, NEW len \in Nat, DOMAIN kpis = 1 .. len,
         \A i \in DOMAIN kpis : Member(kpis[i])
  PROVE  Earned(GoalCompletion(rule, kpis), rule, kpis)
<1> DEFINE counted == {i \in DOMAIN kpis : Exclusion(kpis[i]) = Null}
           complete == {i \in counted : NormalizedProgress(kpis[i].progress).complete}
           reasons == {Exclusion(kpis[i]) : i \in DOMAIN kpis} \ {Null}
           excluded == reasons \ {"informational"}
           n == Cardinality(counted)
           done == Cardinality(complete)
           goal == GoalCompletion(rule, kpis)
           expected == {i \in DOMAIN kpis : Expected(kpis[i])}
           earned == \A i \in expected : kpis[i].progress.isComplete
           all == rule.type = "all_required_kpis"
                  \/ (rule.type = "threshold_count" /\ rule.percentage = 100)
<1>1. counted = expected
  BY ExclusionFacts
<1>2. n \in Nat /\ done \in Nat /\ done <= n /\ (done = n <=> complete = counted)
  <2>1. IsFiniteSet(DOMAIN kpis)
    BY FS_Interval
  <2>2. IsFiniteSet(counted)
    BY <2>1, FS_Subset
  <2> HIDE DEF counted
  <2>3. complete \in SUBSET counted
    OBVIOUS
  <2> HIDE DEF complete
  <2> QED
    BY <2>2, <2>3, FS_Subset, FS_CardinalityType
<1>3. complete = counted <=> earned
  <2>1. \A i \in expected :
          NormalizedProgress(kpis[i].progress).complete = kpis[i].progress.isComplete
    BY ExclusionFacts
  <2>2. complete = {i \in expected : kpis[i].progress.isComplete}
    BY <1>1, <2>1
  <2> HIDE DEF complete, expected, counted
  <2> QED
    BY <1>1, <2>2
<1>4. ASSUME NEW i \in DOMAIN kpis, ~kpis[i].informational, i \notin expected
      PROVE  Exclusion(kpis[i]) \in excluded
  BY <1>4, ExclusionFacts
<1>5. /\ excluded \subseteq goal.reasons
      /\ all => (goal.complete <=> goal.eligible /\ done = n)
  <2> DEFINE held == goal = GoalResult([reasons |-> reasons])
             lacking == \E code : goal = GoalResult([state |-> "missing",
                                                     reasons |-> excluded \cup {code}])
             refused == \E codes : goal = GoalResult([completed |-> done, counted |-> n,
                                                      reasons |-> excluded \cup codes])
             outcome(met) == \E completion :
               goal = GoalResult([state |-> "ok", eligible |-> TRUE, complete |-> met,
                                  completion |-> completion, completed |-> done, counted |-> n,
                                  reasons |-> excluded])
             needed == ThresholdCount(rule, n)
  <2>1. \/ held \/ lacking \/ refused
        \/ rule.type = "manual_status" /\ outcome(rule.manual)
        \/ rule.type = "all_required_kpis" /\ outcome(done = n)
        \/ rule.type = "weighted_average" /\ \E met : outcome(met)
        \/ rule.type \notin {"manual_status", "all_required_kpis", "weighted_average"}
           /\ needed # Null /\ outcome(done >= needed)
    <3>1. CASE "invalid_progress" \in excluded
      BY <3>1, Zenon DEF GoalCompletion
    <3>2. CASE "invalid_progress" \notin excluded /\ rule.type = "manual_status"
      BY <3>2, Zenon DEF GoalCompletion
    <3>3. CASE /\ "invalid_progress" \notin excluded /\ rule.type # "manual_status"
               /\ n = 0
      BY <3>3, Zenon DEF GoalCompletion
    <3>4. CASE /\ "invalid_progress" \notin excluded /\ n # 0
               /\ rule.type = "all_required_kpis"
      BY <3>4, Zenon DEF GoalCompletion
    <3>5. CASE /\ "invalid_progress" \notin excluded /\ n # 0
               /\ rule.type = "weighted_average"
      <4> DEFINE weights == MapThenSumSet(LAMBDA i : kpis[i].weight, counted)
                 weighted == MapThenSumSet(
                   LAMBDA i : NormalizedProgress(kpis[i].progress).progress * kpis[i].weight,
                   counted)
                 threshold == IF rule.percentage = Null THEN 100 ELSE rule.percentage
                 reached == Rounded(weighted * GoalFactor, weights * Factor)
                 shown == IF reached = Null THEN Null ELSE Clamped(reached, 100 * GoalFactor)
                 met == (IF shown = Null THEN 0 ELSE shown) >= threshold * GoalFactor
                 codes == (IF weights <= 0 THEN {"ZERO_WEIGHT_TOTAL"} ELSE {})
                   \cup (IF threshold \notin 0 .. 100 THEN {"INVALID_COMPLETION_THRESHOLD"} ELSE {})
      <4>1. rule.type # "manual_status" /\ rule.type # "all_required_kpis"
        BY <3>5
      <4>2. goal = IF codes # {}
                   THEN GoalResult([completed |-> done, counted |-> n,
                                    reasons |-> excluded \cup codes])
                   ELSE GoalResult([state |-> "ok", eligible |-> TRUE, complete |-> met,
                                    completion |-> shown, completed |-> done,
                                    counted |-> n, reasons |-> excluded])
        BY <3>5, <4>1, Zenon DEF GoalCompletion
      <4> HIDE DEF met, shown, codes, goal, counted, complete, reasons, excluded, n, done
      <4> QED
        BY <3>5, <4>2, Zenon
    <3>6. CASE /\ "invalid_progress" \notin excluded /\ n # 0
               /\ rule.type \notin {"manual_status", "all_required_kpis", "weighted_average"}
      BY <3>6, Zenon DEF GoalCompletion
    <3> QED
      BY <3>1, <3>2, <3>3, <3>4, <3>5, <3>6, Zenon
  <2> HIDE DEF goal, counted, complete, reasons, excluded, n, done
  <2>2. CASE held
    <3>1. goal.eligible = FALSE /\ goal.complete = FALSE /\ goal.reasons = reasons
      BY <2>2 DEF GoalResult, Over
    <3> QED
      BY <3>1 DEF excluded
  <2>3. CASE lacking
    <3>1. PICK code : goal = GoalResult([state |-> "missing", reasons |-> excluded \cup {code}])
      BY <2>3
    <3>2. goal.eligible = FALSE /\ goal.complete = FALSE /\ goal.reasons = excluded \cup {code}
      BY <3>1, OutcomeFacts
    <3> QED
      BY <3>2
  <2>4. CASE refused
    <3>1. PICK codes : goal = GoalResult([completed |-> done, counted |-> n,
                                          reasons |-> excluded \cup codes])
      BY <2>4
    <3>2. goal.eligible = FALSE /\ goal.complete = FALSE /\ goal.reasons = excluded \cup codes
      BY <3>1, OutcomeFacts
    <3> QED
      BY <3>2
  <2>5. ASSUME NEW met, outcome(met)
        PROVE  goal.eligible = TRUE /\ goal.complete = met /\ goal.reasons = excluded
    <3>1. PICK completion :
            goal = GoalResult([state |-> "ok", eligible |-> TRUE, complete |-> met,
                               completion |-> completion, completed |-> done, counted |-> n,
                               reasons |-> excluded])
      BY <2>5
    <3> DEFINE fields == [state |-> "ok", eligible |-> TRUE, complete |-> met,
                          completion |-> completion, completed |-> done, counted |-> n,
                          reasons |-> excluded]
    <3>2. /\ {"eligible", "complete", "reasons"} \subseteq DOMAIN fields
          /\ fields["eligible"] = TRUE /\ fields["complete"] = met
          /\ fields["reasons"] = excluded
      BY Zenon
    <3>3. goal = GoalResult(fields)
      BY <3>1, Zenon
    <3> HIDE DEF fields
    <3> QED
      BY <3>2, <3>3, OutcomeFacts
  <2> HIDE DEF outcome
  <2>6. CASE rule.type = "manual_status" /\ outcome(rule.manual)
    BY <2>5, <2>6
  <2>7. CASE rule.type = "all_required_kpis" /\ outcome(done = n)
    BY <2>5, <2>7
  <2>8. CASE rule.type = "weighted_average" /\ \E met : outcome(met)
    BY <2>5, <2>8
  <2>9. CASE /\ rule.type \notin {"manual_status", "all_required_kpis", "weighted_average"}
             /\ needed # Null /\ outcome(done >= needed)
    <3>1. goal.eligible = TRUE /\ goal.reasons = excluded
          /\ (goal.complete <=> done >= needed)
      <4>1. goal.eligible = TRUE /\ goal.complete = (done >= needed) /\ goal.reasons = excluded
        BY <2>5, <2>9, Zenon
      <4> QED
        BY <4>1, Zenon
    <3>2. all => needed = n
      BY <1>2, <2>9, AllOfThem
    <3> HIDE DEF needed
    <3> QED
      BY <1>2, <3>1, <3>2
  <2> QED
    BY <2>1, <2>2, <2>3, <2>4, <2>6, <2>7, <2>8, <2>9
<1> HIDE DEF goal, complete, counted, n, done, expected, excluded
<1>6. all => (goal.complete <=> goal.eligible /\ earned)
  <2>1. done = n <=> earned
    BY <1>2, <1>3, Zenon
  <2> QED
    BY <1>5, <2>1, Zenon
<1>7. \A i \in DOMAIN kpis :
        kpis[i].informational \/ i \in expected \/ Exclusion(kpis[i]) \in goal.reasons
  BY <1>4, <1>5
<1> QED
  BY <1>6, <1>7, Zenon DEF Earned, goal, expected

(* A Goal that asks for all of its Measures is complete when they are, and  *)
(* only then, for every number of Measures, of any type and in any state    *)
(* (calculateGoalCompletion, calculations.ts).                              *)
THEOREM GoalsAlwaysEarned == EntrySpec => []GoalIsEarned
<1>1. ResultsInv => GoalIsEarned
  <2> SUFFICES ASSUME ResultsInv, NEW year \in PlanYears, NEW month \in ViewedMonths,
                      NEW rule \in Rules, NEW peers \in Peers
               PROVE  LET kpis == Kpis(Row(year, month), peers)
                      IN  Earned(Goal(rule, kpis), rule, kpis)
    BY DEF GoalIsEarned
  <2> DEFINE row == Row(year, month)
             kpis == Kpis(row, peers)
  <2>1. Shaped(row.completion)
    BY CompletionIsShaped
  <2> HIDE DEF row
  <2>2. Len(peers) \in Nat /\ DOMAIN kpis = 1 .. Len(peers) + 1
    BY PeerAssumption DEF Kpis
  <2>3. ASSUME NEW i \in DOMAIN kpis PROVE Member(kpis[i])
    <3>1. CASE i = 1
      <4>1. kpis[i] = Kpi(row)
        BY <2>2, <3>1 DEF Kpis
      <4>2. measure.status \in ConfigurationStatuses
        BY EntryAssumption DEF ResultsInv
      <4> HIDE DEF kpis
      <4> QED
        BY <2>1, <4>1, <4>2 DEF Kpi, Member
    <3>2. CASE i # 1
      <4>1. i - 1 \in 1 .. Len(peers) /\ kpis[i] = PeerKpi(peers[i - 1])
        BY <2>2, <3>2 DEF Kpis
      <4> DEFINE peer == peers[i - 1]
      <4>2. /\ peer.informational \in BOOLEAN /\ peer.weight \in Nat
            /\ peer.status \in ConfigurationStatuses
        BY <4>1, PeerAssumption
      <4> HIDE DEF kpis, peer
      <4>3. kpis[i] = PeerKpi(peer)
        BY <4>1 DEF peer
      <4>4. PeerKpi(peer).progress = Null \/ Shaped(PeerKpi(peer).progress)
        BY ProgressIsShaped DEF PeerKpi
      <4> QED
        BY <4>2, <4>3, <4>4 DEF PeerKpi, Member
    <3> QED
      BY <3>1, <3>2
  <2>4. Goal(rule, kpis) = GoalCompletion(rule, kpis)
    <3> HIDE DEF kpis
    <3> QED
      BY DEF Goal, GoalSummary
  <2> HIDE DEF kpis
  <2>5. Earned(GoalCompletion(rule, kpis), rule, kpis)
    BY <2>2, <2>3, GoalFacts
  <2> QED
    BY <2>4, <2>5 DEF kpis, row
<1> QED
  BY <1>1, ResultsInvariance, PTL

-----------------------------------------------------------------------------
(***************************************************************************)
(* What is saved computes.                                                 *)
(***************************************************************************)

(* Computes, and is missing only where it may be.                           *)
Says(result, excuses, maybeMissing) ==
  Computes(result, excuses) /\ (result.state = "missing" => maybeMissing)

ResultFields ==
  {"value", "state", "issues", "components", "num", "den", "respondents", "percent"}

LEMMA CodedResults ==
  ASSUME NEW code, NEW states
  PROVE  /\ Refused(code).state = "invalid" /\ Refused(code).issues = {code}
         /\ Lacking(code).state = "missing" /\ Lacking(code).issues = {code}
         /\ Unread(states).state = Combined(states)
         /\ Unread(states).issues = {"UNREADABLE_VALUE"}
         /\ Refused(code).components = <<>> /\ Lacking(code).components = <<>>
         /\ ResultFields \subseteq DOMAIN Refused(code)
         /\ ResultFields \subseteq DOMAIN Lacking(code)
         /\ ResultFields \subseteq DOMAIN Unread(states)
<1>1. ASSUME NEW fields
      PROVE  ResultFields \subseteq DOMAIN Result(fields)
  BY DEF Result, Over, ResultFields
<1>2. /\ Refused(code).state = "invalid" /\ Refused(code).issues = {code}
      /\ Refused(code).components = <<>>
  BY Results DEF Refused
<1>3. /\ Lacking(code).state = "missing" /\ Lacking(code).issues = {code}
      /\ Lacking(code).components = <<>>
  BY Results DEF Lacking
<1>4. /\ Unread(states).state = Combined(states)
      /\ Unread(states).issues = {"UNREADABLE_VALUE"}
  BY Results DEF Unread
<1>5. /\ ResultFields \subseteq DOMAIN Refused(code)
      /\ ResultFields \subseteq DOMAIN Lacking(code)
      /\ ResultFields \subseteq DOMAIN Unread(states)
  BY <1>1 DEF Refused, Lacking, Unread
<1> QED
  BY <1>2, <1>3, <1>4, <1>5

(* What is known of a value that is read.                                   *)
LEMMA StatesCombine ==
  ASSUME NEW x, x # NaN, NEW y, y # NaN
  PROVE  Combined({StateOf(x), StateOf(y)}) = IF Null \in {x, y} THEN "missing" ELSE "ok"
<1>1. StateOf(x) = (IF x = Null THEN "missing" ELSE "ok")
      /\ StateOf(y) = IF y = Null THEN "missing" ELSE "ok"
  BY DEF StateOf
<1> QED
  BY <1>1 DEF Combined

Simple == {"count", "currency", "cumulative", "year_over_year", "binary", "milestone"}

(* Is there something to calculate from?                                    *)
Stated(c, row) ==
  CASE c.type = "binary" -> row.completed # Null
    [] c.type = "milestone" -> row.milestone # Null
    [] OTHER -> row.value # Null

LEMMA SimpleSays ==
  ASSUME NEW c, c.type \in Simple, NEW row, NEW previous \in Finite,
         row.value \in Finite, row.milestone \in {Null} \cup 0 .. Whole
  PROVE  Says(Calculated(c, row, previous), Unsayable,
              c.type = "year_over_year" \/ ~ Stated(c, row))
<1> DEFINE in == KernelQuestion(c, row, previous)
           r == Calculated(c, row, previous)
<1>0. NaN \notin Finite /\ Whole \in Int /\ Whole > 0
  BY NumberAssumption DEF Finite, Whole
<1>1. CASE c.type = "binary"
  <2> DEFINE completed == IF row.completed = Null THEN Null ELSE row.completed = Factor
  <2>1. in = [type |-> "binary", completed |-> completed]
    BY <1>1 DEF KernelQuestion
  <2>2. r = Binary(completed)
    BY <2>1 DEF Calculated, SingleMeasurement
  <2>3. CASE row.completed = Null
    <3>1. r = Lacking("MISSING_BOOLEAN")
      BY <2>2, <2>3, Zenon DEF Binary
    <3> QED
      BY <1>1, <2>3, <3>1, CodedResults DEF ResultFields, Says, Computes, Stated
  <2>4. CASE row.completed # Null
    <3> DEFINE flag == row.completed = Factor
    <3>1. completed = flag /\ flag \in BOOLEAN
      BY <2>4
    <3>2. flag # Null
      BY <3>1, NumberAssumption
    <3> HIDE DEF completed, flag
    <3>3. \E v, p : r = Result([state |-> "ok", value |-> v, percent |-> p])
      BY <2>2, <3>1, <3>2, Zenon DEF Binary
    <3>4. r.state = "ok"
      BY <3>3, Results
    <3> QED
      BY <3>4 DEF Says, Computes, r
  <2> QED
    BY <2>3, <2>4
<1>2. CASE c.type = "milestone"
  <2>1. in = [type |-> "milestone", completed |-> Null, done |-> row.milestone, total |-> Whole]
    BY <1>2 DEF KernelQuestion
  <2>2. r = Milestone(in)
    BY <2>1 DEF Calculated, SingleMeasurement
  <2> DEFINE states == {StateOf(row.milestone), StateOf(Whole)}
  <2>3. Combined(states) = IF row.milestone = Null THEN "missing" ELSE "ok"
    <3>1. row.milestone # NaN /\ Whole # NaN /\ Whole # Null
      BY <1>0, NumberAssumption
    <3> QED
      BY <3>1, StatesCombine
  <2>4. CASE row.milestone = Null
    <3>1. r = Unread(states)
      BY <2>1, <2>2, <2>3, <2>4 DEF Milestone
    <3> HIDE DEF states, r
    <3> QED
      BY <1>2, <2>3, <2>4, <3>1, CodedResults DEF ResultFields, Says, Computes, Stated, r
  <2>5. CASE row.milestone # Null
    <3>1. row.milestone \in 0 .. Whole
      BY <2>5
    <3>2. r = Result([state |-> "ok", value |-> in.done, num |-> in.done, den |-> in.total,
                      percent |-> Percentage(in.done, in.total)])
      BY <1>0, <2>1, <2>2, <2>3, <2>5, <3>1 DEF Milestone
    <3>3. r.state = "ok"
      BY <3>2, Results
    <3> QED
      BY <3>3 DEF Says, Computes, r
  <2> QED
    BY <2>4, <2>5
<1>3. CASE c.type = "year_over_year"
  <2>1. in = [type |-> c.type, current |-> row.value, previous |-> previous]
    BY <1>3 DEF KernelQuestion
  <2>2. r = YearOverYear(in)
    BY <1>3, <2>1 DEF Calculated, SingleMeasurement
  <2> DEFINE states == {StateOf(row.value), StateOf(previous)}
             delta == row.value - previous
             value == Rounded(delta * Whole, IF previous < 0 THEN -previous ELSE previous)
  <2>3. Combined(states) \in {"missing", "ok"}
    BY <1>0, StatesCombine
  <2>4. r \in {Unread(states), [Refused("ZERO_PREVIOUS_PERIOD") EXCEPT !.num = delta, !.den = 0],
               Result([state |-> "ok", value |-> value, num |-> delta, den |-> previous])}
    BY <2>1, <2>2 DEF YearOverYear
  <2> HIDE DEF states, delta, value, r
  <2>5. CASE r = Unread(states)
    BY <1>3, <2>3, <2>5, CodedResults DEF ResultFields, Says, Computes, r
  <2>6. CASE r = [Refused("ZERO_PREVIOUS_PERIOD") EXCEPT !.num = delta, !.den = 0]
    BY <2>6, CodedResults DEF ResultFields, Says, Computes, Unsayable, r
  <2>7. CASE r = Result([state |-> "ok", value |-> value, num |-> delta, den |-> previous])
    <3>1. r.state = "ok"
      BY <2>7, Results
    <3> QED
      BY <3>1 DEF Says, Computes, r
  <2> QED
    BY <2>4, <2>5, <2>6, <2>7 DEF r
<1>4. CASE c.type \in {"count", "currency", "cumulative"}
  <2>1. in = [type |-> c.type, value |-> row.value]
    BY <1>4 DEF KernelQuestion
  <2>2. r = Scalar(row.value)
    BY <1>4, <2>1 DEF Calculated, SingleMeasurement
  <2>3. CASE row.value = Null
    <3>1. r = Unread({"missing"})
      BY <2>2, <2>3, NumberAssumption DEF Scalar, StateOf
    <3>2. Combined({"missing"}) = "missing"
      BY DEF Combined
    <3> QED
      BY <1>4, <2>3, <3>1, <3>2, CodedResults DEF ResultFields, Says, Computes, Stated
  <2>4. CASE row.value # Null
    <3>1. r.state = "ok"
      BY <2>2, <2>4, ScalarsAreThemselves DEF Finite
    <3> QED
      BY <3>1 DEF Says, Computes
  <2> QED
    BY <2>3, <2>4
<1> QED
  BY <1>1, <1>2, <1>3, <1>4 DEF Simple

(* What was entered of a row is what its type asks for.                     *)
LEMMA EnteredRows ==
  ASSUME NEW s, Entered(s), NEW c, c = Owner(s)
  PROVE  /\ c.type \notin {"distribution", "multi_component"}
         /\ s.row.value \in Finite /\ s.row.milestone \in {Null} \cup 0 .. Whole
         /\ c.type \in Simple => Stated(c, s.row)
         /\ c.type \in {"percentage", "ratio"} =>
              /\ s.row.num \in 0 .. MaxNum
              /\ c.fixed = Null => s.row.den \in 1 .. MaxNum
              /\ c.fixed # Null => s.row.den = Null
<1>1. PICK d : /\ \A f \in TypedFields : d[f] \in Readings
               /\ FormAccepts(c, d) /\ AcceptsResult(c, FormWrite(c, d, s.year))
               /\ s = Stored(c, s.component, FormWrite(c, d, s.year))
  BY DEF Entered
<1> DEFINE w == FormWrite(c, d, s.year)
<1>2. s.row = StoredRow(c, w)
  BY <1>1 DEF Stored
<1>3. WriteFields(c, d, w, s.year)
  BY WriteHasFields
<1>4. AcceptsResult(c, w)
  BY <1>1
<1>5. c.type \notin {"distribution", "multi_component"}
  BY <1>4 DEF AcceptsResult
<1> HIDE DEF w
<1>6. /\ s.row.value = (IF c.type \notin {"binary", "milestone", "percentage", "ratio", "average"}
                        THEN w.value ELSE Null)
      /\ s.row.completed = (IF c.type = "binary" THEN w.value ELSE Null)
      /\ s.row.milestone = (IF c.type = "milestone" THEN w.value ELSE Null)
      /\ s.row.num = w.num /\ s.row.den = w.den
  BY <1>2 DEF StoredRow
<1>7. /\ d.value \in Readings /\ d.num \in Readings /\ d.den \in Readings
      /\ d.binary \in Readings
  BY <1>1 DEF TypedFields
<1>8. c.type \in {"count", "currency", "cumulative", "year_over_year"} =>
        d.value \in Finite \ {Null}
  BY <1>1, <1>7, AnswersAreReadings DEF FormAccepts, Typed
<1>9. c.type = "milestone" => w.value \in 0 .. Whole
  BY <1>4 DEF AcceptsResult, ValueRules
<1>10. c.type = "binary" => w.value # Null
  BY <1>4 DEF AcceptsResult, ValueRules
<1>11. CASE c.type \in {"count", "currency", "cumulative", "year_over_year"}
  <2>1. s.row.value = d.value /\ s.row.milestone = Null
    BY <1>3, <1>6, <1>11 DEF WriteFields
  <2> QED
    BY <1>5, <1>8, <1>11, <2>1 DEF Stated
<1>12. CASE c.type = "binary"
  <2>1. s.row.value = Null /\ s.row.milestone = Null /\ s.row.completed = w.value
    BY <1>6, <1>12
  <2> QED
    BY <1>5, <1>10, <1>12, <2>1, AnswersAreReadings DEF Stated
<1>13. CASE c.type = "milestone"
  <2>1. s.row.value = Null /\ s.row.milestone = w.value
    BY <1>6, <1>13
  <2>2. Null \notin 0 .. Whole
    BY NumberAssumption DEF Whole
  <2> QED
    BY <1>5, <1>9, <1>13, <2>1, <2>2, AnswersAreReadings DEF Stated
<1>14. CASE c.type \in {"percentage", "ratio"}
  <2>1. /\ s.row.value = Null /\ s.row.milestone = Null /\ s.row.num = d.num
        /\ s.row.den = IF c.fixed = Null THEN d.den ELSE Null
    BY <1>3, <1>6, <1>14 DEF WriteFields
  <2>2. AcceptsFraction(c, d)
    BY <1>1, <1>14 DEF FormAccepts
  <2>3. d.num \in 0 .. MaxNum
    <3>1. d.num \notin {Null, NaN} /\ d.num >= 0
      BY <2>2 DEF AcceptsFraction, TypedNonNegative, Typed
    <3> QED
      BY <1>7, <3>1, NumberAssumption DEF Readings
  <2>4. c.fixed = Null => d.den \in 1 .. MaxNum
    <3>1. c.fixed = Null => d.den \notin {Null, NaN} /\ d.den > 0
      BY <2>2 DEF AcceptsFraction, TypedPositive, Typed
    <3> QED
      BY <1>7, <3>1, NumberAssumption DEF Readings
  <2> QED
    BY <1>5, <1>14, <2>1, <2>3, <2>4, AnswersAreReadings DEF Simple
<1>15. CASE c.type = "average"
  BY <1>5, <1>6, <1>15, AnswersAreReadings DEF Simple
<1> QED
  BY <1>1, <1>11, <1>12, <1>13, <1>14, <1>15 DEF FormAccepts

(* A share, or a ratio, of what was entered.                                *)
LEMMA FractionSays ==
  ASSUME NEW c, c.type \in {"percentage", "ratio"}, c.fixed \in {Null} \cup 1 .. MaxNum,
         NEW row, row.num \in 0 .. MaxNum,
         c.fixed = Null => row.den \in 1 .. MaxNum,
         c.fixed # Null => row.den = Null,
         NEW previous
  PROVE  /\ Computes(Calculated(c, row, previous), Unsayable)
         /\ Calculated(c, row, previous).state # "missing"
<1> DEFINE wanted == IF c.percents THEN Whole ELSE Factor
           in == [type |-> c.type, num |-> row.num, den |-> row.den, fixed |-> c.fixed,
                  scale |-> wanted]
           scale == IF c.type = "percentage" THEN Whole ELSE wanted
           den == IF row.den # Null THEN row.den ELSE c.fixed
           value == Rounded(row.num * scale, den)
           told == Result(Over([num |-> row.num, den |-> den], Stating(value)))
           r == Calculated(c, row, previous)
<1>1. KernelQuestion(c, row, previous) = in
  BY DEF KernelQuestion
<1>2. wanted \in Int
  BY NumberAssumption DEF Whole
<1>3. Null \notin Int /\ NaN \notin Int
  BY NumberAssumption
<1>4. Fraction(in, scale) = told
  <2>1. /\ NaN \notin {in.num, in.den, in.fixed} /\ in.num # Null
        /\ ~(Null \notin {in.den, in.fixed} /\ in.den # in.fixed)
        /\ den # Null /\ den # 0
    BY <1>3, NumberAssumption
  <2>2. Fraction(in, scale) = Result(Over([num |-> in.num, den |-> den], Stating(value)))
    BY <2>1 DEF Fraction
  <2> QED
    BY <2>2
<1>5. /\ told.state \in {"ok", "invalid"}
      /\ told.state = "invalid" => told.issues = {"NON_FINITE_RESULT"}
      /\ {"state", "issues"} \subseteq DOMAIN told
  BY StatedResults
<1> HIDE DEF told, wanted
<1>6. \E counts : r = WithPercent(told, counts)
  <2>1. CASE c.type = "percentage"
    <3>1. r = PercentageMeasure(in)
      BY <1>1, <2>1 DEF Calculated, SingleMeasurement
    <3> QED
      BY <1>4, <2>1, <3>1 DEF PercentageMeasure
  <2>2. CASE c.type = "ratio"
    <3>1. r = Ratio(in)
      BY <1>1, <2>2 DEF Calculated, SingleMeasurement
    <3>2. in.scale = wanted /\ wanted # Null /\ wanted # NaN
      BY <1>2, <1>3
    <3> HIDE DEF in
    <3>3. Ratio(in) = WithPercent(Fraction(in, wanted), wanted = Whole)
      BY <3>2, Zenon DEF Ratio
    <3>4. scale = wanted
      BY <2>2
    <3> QED
      BY <1>4, <3>1, <3>3, <3>4
  <2> QED
    BY <2>1, <2>2
<1>7. r.state = told.state /\ r.issues = told.issues
  BY <1>5, <1>6 DEF WithPercent
<1> QED
  BY <1>5, <1>7 DEF Computes, Unsayable, r

(* A pair that may be divided is.                                           *)
LEMMA AverageDivides ==
  ASSUME NEW in, in.respondents = Null \/ in.respondents \in 0 .. MaxNum,
         in.method = "total_score" => NaN \notin {in.possible, in.maxEach},
         AveragePair(in).num \in Nat, AveragePair(in).den \in Nat,
         AveragePair(in).den = 0 => in.method = "percent_positive",
         in.allowOver \/ AveragePair(in).num <= AveragePair(in).den
  PROVE  Says(Average(in), Unsayable, Average(in).issues = {"NO_RESPONSES_RECORDED"})
<1> DEFINE pair == AveragePair(in)
           states == {StateOf(pair.num), StateOf(pair.den)}
           positives == in.method = "percent_positive"
           asked == IF in.respondents # Null THEN in.respondents
                    ELSE IF positives THEN pair.den ELSE Null
           value == Percentage(pair.num, pair.den)
           r == Average(in)
<1>1. Combined(states) = "ok"
  <2>1. pair.num \notin {Null, NaN} /\ pair.den \notin {Null, NaN}
    BY NumberAssumption
  <2> HIDE DEF pair
  <2> QED
    BY <2>1, StatesCombine
<1>2. ~(in.respondents = NaN \/ (in.respondents # Null /\ in.respondents < 0))
  BY NumberAssumption
<1>3. ~(in.method = "total_score" /\ NaN \in {in.possible, in.maxEach})
  OBVIOUS
<1>4. ~(pair.num < 0) /\ (pair.den <= 0 => pair.den = 0)
  <2> HIDE DEF pair
  <2>1. pair.num \in Nat /\ pair.den \in Nat
    BY DEF pair
  <2> QED
    BY <2>1
<1>5. ~(~in.allowOver /\ pair.num > pair.den)
  <2>1. pair.num <= pair.den => ~(pair.num > pair.den)
    <3>1. pair.num \in Nat /\ pair.den \in Nat
      OBVIOUS
    <3> HIDE DEF pair
    <3> QED
      BY <3>1
  <2> QED
    BY <2>1
<1>6. pair.den = 0 => positives
  OBVIOUS
<1>7. r = IF pair.den = 0 /\ positives
          THEN [Lacking("NO_RESPONSES_RECORDED") EXCEPT
                  !.respondents = asked, !.num = pair.num, !.den = pair.den]
          ELSE Result([state |-> "ok", value |-> value, percent |-> value,
                       num |-> pair.num, den |-> pair.den, respondents |-> asked])
  BY <1>1, <1>2, <1>3, <1>4, <1>5, <1>6, Zenon DEF Average
<1> HIDE DEF pair, asked, value
<1>8. CASE pair.den = 0 /\ positives
  <2>1. r.state = "missing" /\ r.issues = {"NO_RESPONSES_RECORDED"}
    BY <1>7, <1>8, CodedResults DEF ResultFields
  <2> QED
    BY <2>1 DEF Says, Computes, r
<1>9. CASE ~(pair.den = 0 /\ positives)
  <2>1. r.state = "ok"
    BY <1>7, <1>9, Results
  <2> QED
    BY <2>1 DEF Says, Computes, r
<1> QED
  BY <1>8, <1>9

(* An average of what was entered, whichever way.                           *)
LEMMA AverageSays ==
  ASSUME NEW s, Entered(s), NEW c, c = Owner(s), c.type = "average", NEW previous
  PROVE  Says(Calculated(c, s.row, previous), Unsayable,
              Calculated(c, s.row, previous).issues = {"NO_RESPONSES_RECORDED"})
<1> DEFINE raw == s.row.raw
<1>1. PICK d : /\ \A f \in TypedFields : d[f] \in Readings
               /\ FormAccepts(c, d) /\ AcceptsResult(c, FormWrite(c, d, s.year))
               /\ s = Stored(c, s.component, FormWrite(c, d, s.year))
  BY DEF Entered
<1> DEFINE method == d.method
           in == Over(raw, [type |-> "average", allowOver |-> c.allowOver,
                            maxScale |-> raw.maxEach, method |-> method])
           a == Sent(d)
<1>2. raw = StoredRow(c, FormWrite(c, d, s.year)).raw
  BY <1>1 DEF Stored
<1>3. /\ method \in Methods
      /\ (IF InferredMethod(raw) = Null THEN "total_score" ELSE InferredMethod(raw)) = method
      /\ AverageRules(a, c.allowOver)
      /\ \A f \in DOMAIN NoAverage \ {"method"} :
           raw[f] = IF f \in SentFields(method) THEN d[f] ELSE Null
  <2> HIDE DEF raw
  <2> QED
    BY <1>1, <1>2, AverageReadsBack
<1>4. DOMAIN raw = DOMAIN NoAverage \ {"method"}
  BY <1>2 DEF StoredRow
<1>5. Calculated(c, s.row, previous) = Average(in)
  <2>1. KernelQuestion(c, s.row, previous) =
          Over(raw, [type |-> "average", allowOver |-> c.allowOver,
                     maxScale |-> raw.maxEach,
                     method |-> IF InferredMethod(raw) = Null THEN "total_score"
                                ELSE InferredMethod(raw)])
    BY DEF KernelQuestion
  <2>2. KernelQuestion(c, s.row, previous) = in
    BY <1>3, <2>1
  <2>3. in.type = "average"
    BY <1>4 DEF Over, NoAverage
  <2> HIDE DEF in
  <2> QED
    BY <2>2, <2>3 DEF Calculated, SingleMeasurement
<1>6. /\ in.method = method /\ in.allowOver = c.allowOver /\ in.maxScale = raw.maxEach
      /\ \A f \in DOMAIN NoAverage \ {"method"} : in[f] = raw[f]
  BY <1>4 DEF Over, NoAverage
<1> HIDE DEF in, raw
<1>7. \A f \in DOMAIN NoAverage \ {"method"} : in[f] = a[f]
  BY <1>3, <1>6 DEF Sent
<1>8. a.method = method
  BY SentHasMethod
<1>9. \A f \in DOMAIN NoAverage \ {"method"} : a[f] \in Readings
  <2>1. DOMAIN NoAverage \ {"method"} \subseteq TypedFields
    BY DEF NoAverage, TypedFields
  <2> QED
    BY <1>1, <2>1, AnswersAreReadings DEF Sent
<1>10. in.maxScale = a.maxEach
  BY <1>3, <1>6 DEF Sent, NoAverage
<1>11. /\ in.respondents = a.respondents /\ in.totalScore = a.totalScore
       /\ in.averageScore = a.averageScore /\ in.maxEach = a.maxEach
       /\ in.possible = a.possible /\ in.positive = a.positive /\ in.responses = a.responses
       /\ {a.respondents, a.totalScore, a.averageScore, a.maxEach, a.possible, a.positive,
           a.responses} \subseteq Readings
  BY <1>7, <1>9 DEF NoAverage
<1> HIDE DEF a, method
<1>12. \A f \in {"respondents", "totalScore", "averageScore", "positive", "responses"} :
         NonNegative(a[f])
  BY <1>3 DEF AverageRules
<1>13. /\ a.respondents = Null \/ a.respondents \in 0 .. MaxNum
       /\ a.totalScore = Null \/ a.totalScore \in 0 .. MaxNum
       /\ a.averageScore = Null \/ a.averageScore \in 0 .. MaxNum
       /\ a.positive = Null \/ a.positive \in 0 .. MaxNum
       /\ a.responses = Null \/ a.responses \in 0 .. MaxNum
  <2>1. ASSUME NEW x \in Readings, NonNegative(x) PROVE x = Null \/ x \in 0 .. MaxNum
    BY <2>1, NumberAssumption DEF NonNegative, Given, Readings
  <2> QED
    BY <1>11, <1>12, <2>1
<1>14. /\ a.maxEach # NaN /\ a.possible # NaN
  BY <1>3, NumberAssumption DEF AverageRules, Positive, Given
<1>15. CASE method = "percent_positive"
  <2>1. PositiveShareRules(a)
    BY <1>3, <1>8, <1>15 DEF AverageRules
  <2>2. AveragePair(in) = [num |-> a.positive, den |-> a.responses]
    BY <1>6, <1>11, <1>15 DEF AveragePair
  <2>3. a.positive \in Nat /\ a.responses \in Nat /\ a.positive <= a.responses
    BY <1>13, <2>1 DEF PositiveShareRules, Given
  <2>4. in.method = "percent_positive"
    BY <1>6, <1>15
  <2> QED
    BY <1>5, <1>11, <1>13, <2>2, <2>3, <2>4, AverageDivides
<1>16. ASSUME method # "percent_positive",
              NEW score, NEW most, AveragePair(in) = [num |-> score, den |-> most],
              score \in Nat, most \in 1 .. MaxNum, c.allowOver \/ score <= most
       PROVE  Says(Average(in), Unsayable, Average(in).issues = {"NO_RESPONSES_RECORDED"})
  <2>1. AveragePair(in).num = score /\ AveragePair(in).den = most
    BY <1>16
  <2>2. in.allowOver \/ AveragePair(in).num <= AveragePair(in).den
    BY <1>6, <1>16, <2>1
  <2>3. most \in Nat /\ most # 0
    BY <1>16
  <2> QED
    BY <1>11, <1>13, <1>14, <1>16, <2>1, <2>2, <2>3, AverageDivides
<1>17. CASE method = "average_score"
  <2>1. ScoreRules(a, c.allowOver)
    BY <1>3, <1>8, <1>17 DEF AverageRules
  <2>2. /\ a.averageScore # Null /\ a.maxEach \in 1 .. MaxNum
        /\ c.allowOver \/ a.averageScore <= a.maxEach
    BY <1>8, <1>17, <2>1 DEF ScoreRules
  <2>3. AveragePair(in) = [num |-> a.averageScore, den |-> a.maxEach]
    <3>1. in.maxScale # Null
      BY <1>10, <2>2, NumberAssumption
    <3> QED
      BY <1>6, <1>10, <1>11, <1>17, <3>1 DEF AveragePair
  <2> QED
    BY <1>5, <1>13, <1>16, <1>17, <2>2, <2>3
<1>18. CASE method = "total_score"
  <2> DEFINE most == IF a.possible # Null THEN a.possible
                     ELSE IF a.maxEach # Null THEN (a.respondents * a.maxEach) \div Factor
                     ELSE Null
  <2>1. ScoreRules(a, c.allowOver)
    BY <1>3, <1>8, <1>18 DEF AverageRules
  <2>2. /\ a.totalScore # Null /\ Given(a.respondents) /\ most \in 1 .. MaxNum
        /\ c.allowOver \/ a.totalScore <= most
    BY <1>8, <1>18, <2>1 DEF ScoreRules
  <2>3. AveragePair(in) = [num |-> a.totalScore, den |-> most]
    <3>1. AveragePair(in) =
            [num |-> a.totalScore,
             den |-> IF a.possible # Null THEN a.possible
                     ELSE IF Given(a.respondents) /\ Given(a.maxEach)
                          THEN (a.respondents * a.maxEach) \div Factor ELSE Null]
      BY <1>6, <1>11, <1>18 DEF AveragePair
    <3>2. Given(a.respondents) /\ Given(a.maxEach) <=> a.maxEach # Null
      BY <1>14, <2>2 DEF Given
    <3> QED
      BY <3>1, <3>2
  <2> HIDE DEF most
  <2> QED
    BY <1>5, <1>13, <1>16, <1>18, <2>2, <2>3
<1> QED
  BY <1>3, <1>15, <1>17, <1>18 DEF Methods

LEMMA PreviousIsFinite ==
  ASSUME \A r \in stored : Entered(r), NEW s, NEW start, NEW otherwise \in Finite
  PROVE  PreviousValue(stored, s, start, otherwise) \in Finite
<1> DEFINE before == {r \in stored : /\ r.year = s.year - 1 /\ r.year >= start
                                     /\ SamePeriod(r, s) /\ r.component = s.component
                                     /\ Given(r.row.value)}
<1>1. \A r \in before : r.row.value \in Finite
  BY EnteredRows
<1>2. PreviousValue(stored, s, start, otherwise) =
        IF before = {} THEN otherwise ELSE (CHOOSE r \in before : TRUE).row.value
  BY Zenon DEF PreviousValue
<1> HIDE DEF before
<1> QED
  BY <1>1, <1>2

(* A stored result of a Measure of one input.                               *)
LEMMA SingleSays ==
  ASSUME ResultsInv, measure.type # "multi_component", NEW s \in stored
  PROVE  Says(Outcome(s), Unsayable,
              measure.type = "year_over_year" \/ Outcome(s).issues = {"NO_RESPONSES_RECORDED"})
<1> DEFINE previous == PreviousValue(stored, s, PlanStart, measure.baseline)
<1>1. Entered(s) /\ Owner(s) = measure
  BY DEF ResultsInv, Alone, Owner
<1>2. /\ measure.baseline \in Finite /\ measure.fixed \in {Null} \cup 1 .. MaxNum
  BY EntryAssumption, AnswersAreReadings DEF ResultsInv
<1>3. previous \in Finite
  BY <1>2, PreviousIsFinite DEF ResultsInv
<1>4. Outcome(s) = Calculated(measure, s.row, previous)
  BY DEF Outcome, CalculatedResult
<1> HIDE DEF previous
<1>5. /\ measure.type \notin {"distribution", "multi_component"}
      /\ s.row.value \in Finite /\ s.row.milestone \in {Null} \cup 0 .. Whole
      /\ measure.type \in Simple => Stated(measure, s.row)
      /\ measure.type \in {"percentage", "ratio"} =>
           /\ s.row.num \in 0 .. MaxNum
           /\ measure.fixed = Null => s.row.den \in 1 .. MaxNum
           /\ measure.fixed # Null => s.row.den = Null
  BY <1>1, EnteredRows
<1>6. CASE measure.type \in Simple
  <2>1. Says(Outcome(s), Unsayable, measure.type = "year_over_year" \/ ~ Stated(measure, s.row))
    BY <1>3, <1>4, <1>5, <1>6, SimpleSays
  <2> QED
    BY <1>5, <1>6, <2>1 DEF Says
<1>7. CASE measure.type \in {"percentage", "ratio"}
  <2>1. /\ Computes(Calculated(measure, s.row, previous), Unsayable)
        /\ Calculated(measure, s.row, previous).state # "missing"
    BY <1>2, <1>5, <1>7, FractionSays
  <2> QED
    BY <1>4, <2>1 DEF Says
<1>8. CASE measure.type = "average"
  <2>1. Says(Outcome(s), Unsayable, Outcome(s).issues = {"NO_RESPONSES_RECORDED"})
    BY <1>1, <1>4, <1>8, AverageSays
  <2> QED
    BY <2>1 DEF Says
<1>9. measure.type \in Simple \cup {"percentage", "ratio", "average"}
  BY <1>1 DEF Entered, FormAccepts, Simple
<1> QED
  BY <1>6, <1>7, <1>8, <1>9

-----------------------------------------------------------------------------
(* Progress that is not ok says why, in words of its own.                   *)
LEMMA ProgressSays ==
  ASSUME NEW p
  PROVE  Progress(p).state # "ok" =>
           /\ Progress(p).issues # {}
           /\ Progress(p).issues \subseteq Unsayable \cup Misfits
<1> DEFINE told == ProgressTold(p)
           said(field, otherwise) == IF field \in DOMAIN told THEN told[field] ELSE otherwise
           codes == {"NEEDS_DEFINITION", "TARGET_NOT_FINALIZED", "NON_FINITE_VALUE",
                     "MISSING_ACTUAL", "BASELINE_REQUIRED", "INVALID_TARGET_RANGE",
                     "NON_FINITE_RESULT"}
           lacking == {[state |-> "missing", status |-> s, issues |-> {c}] :
                         s \in {"needs_definition", "target_not_finalized", "not_started"},
                         c \in codes}
           refused == {[issues |-> {c}] : c \in codes}
<1>1. /\ Progress(p).state = said("state", "invalid")
      /\ Progress(p).issues = said("issues", {})
  BY DEF Progress, ProgressResult, Over
<1>2. /\ [state |-> "missing", status |-> "needs_definition", issues |-> {"NEEDS_DEFINITION"}]
           \in lacking
      /\ [state |-> "missing", status |-> "target_not_finalized",
          issues |-> {"TARGET_NOT_FINALIZED"}] \in lacking
      /\ [state |-> "missing", status |-> "not_started", issues |-> {"MISSING_ACTUAL"}]
           \in lacking
  OBVIOUS
<1>3. /\ [issues |-> {"NON_FINITE_VALUE"}] \in refused
      /\ [issues |-> {"BASELINE_REQUIRED"}] \in refused
      /\ [issues |-> {"INVALID_TARGET_RANGE"}] \in refused
      /\ [issues |-> {"NON_FINITE_RESULT"}] \in refused
  OBVIOUS
<1>4. \/ told \in lacking \cup refused
      \/ ("state" \in DOMAIN told /\ told.state = "ok")
  <2> DEFINE actual == ShareCovered(p, Span(p))
             made == ProgressMade(p, actual, Met(p))
  <2> HIDE DEF lacking, refused
  <2>1. told \in lacking \cup refused \/ told = made
    BY <1>2, <1>3, Zenon DEF ProgressTold
  <2>2. \/ made \in refused
        \/ ("state" \in DOMAIN made /\ made.state = "ok")
    <3>1. CASE actual = Null
      BY <1>3, <3>1, Zenon DEF ProgressMade
    <3>2. CASE actual # Null
      <4> DEFINE exceeded == Met(p) /\ p.current # p.target
      <4>1. made = [state |-> "ok", actual |-> actual, display |-> Clamped(actual, Whole),
                    isComplete |-> Met(p), isExceeded |-> exceeded,
                    status |-> ProgressStatus(actual, Met(p), exceeded)]
        BY <3>2, Zenon DEF ProgressMade
      <4> HIDE DEF made, actual, exceeded
      <4> QED
        BY <4>1
    <3> QED
      BY <3>1, <3>2
  <2> HIDE DEF made, told
  <2> QED
    BY <2>1, <2>2
<1>5. codes \subseteq Unsayable \cup Misfits
  BY DEF Unsayable, Misfits
<1> HIDE DEF told
<1>6. told \in lacking \cup refused =>
        "issues" \in DOMAIN told /\ \E c \in codes : told.issues = {c}
  OBVIOUS
<1>7. CASE told \in lacking \cup refused
  <2> HIDE DEF codes, lacking, refused
  <2> QED
    BY <1>1, <1>5, <1>6, <1>7
<1>8. CASE "state" \in DOMAIN told /\ told.state = "ok"
  BY <1>1, <1>8
<1> QED
  BY <1>4, <1>7, <1>8

-----------------------------------------------------------------------------
(* A result that says why it has no value, in words it may use.             *)
Reports(r) ==
  /\ Computes(r, Unsayable \cup Misfits)
  /\ {"state", "issues", "components"} \subseteq DOMAIN r

LEMMA CodesReport ==
  /\ \A code \in Misfits : Reports(Refused(code))
  /\ \A code : Reports(Lacking(code))
<1>1. ASSUME NEW code \in Misfits PROVE Reports(Refused(code))
  <2>1. /\ Refused(code).state = "invalid" /\ Refused(code).issues = {code}
        /\ {"state", "issues", "components"} \subseteq DOMAIN Refused(code)
    BY CodedResults DEF ResultFields
  <2> QED
    BY <2>1 DEF Reports, Computes
<1>2. ASSUME NEW code PROVE Reports(Lacking(code))
  <2>1. /\ Lacking(code).state = "missing" /\ Lacking(code).issues = {code}
        /\ ResultFields \subseteq DOMAIN Lacking(code)
    BY CodedResults
  <2> QED
    BY <2>1 DEF Reports, Computes, ResultFields
<1> QED
  BY <1>1, <1>2

LEMMA StatedReports ==
  ASSUME NEW fields, DOMAIN fields \cap {"value", "state", "issues", "components"} = {},
         NEW value
  PROVE  Reports(Result(Over(fields, Stating(value))))
<1> DEFINE r == Result(Over(fields, Stating(value)))
<1>1. /\ r.state = IF value = Null THEN "invalid" ELSE "ok"
      /\ r.issues = IF value = Null THEN {"NON_FINITE_RESULT"} ELSE {}
      /\ {"value", "state", "issues", "components"} \subseteq DOMAIN r
  BY StatedResults
<1> HIDE DEF r
<1>2. Reports(r)
  BY <1>1 DEF Reports, Computes, Unsayable
<1> QED
  BY <1>2 DEF r

(* What the issues of some results come to.                                 *)
LEMMA IssuesReport ==
  ASSUME NEW codes, codes # {}, codes \subseteq Unsayable \cup Misfits
  PROVE  /\ Reports(Result([issues |-> codes]))
         /\ \A state : Reports(Result([state |-> state, issues |-> codes]))
<1>1. /\ Result([issues |-> codes]).issues = codes
      /\ {"state", "issues", "components"} \subseteq DOMAIN Result([issues |-> codes])
  BY Results
<1>2. ASSUME NEW state
      PROVE  /\ Result([state |-> state, issues |-> codes]).issues = codes
             /\ {"state", "issues", "components"}
                  \subseteq DOMAIN Result([state |-> state, issues |-> codes])
  BY Results
<1> QED
  BY <1>1, <1>2 DEF Reports, Computes

LEMMA MissingReports ==
  ASSUME NEW codes, codes # {}
  PROVE  Reports(Result([state |-> "missing", issues |-> codes]))
<1> DEFINE r == Result([state |-> "missing", issues |-> codes])
<1>1. /\ r.state = "missing" /\ r.issues = codes
      /\ {"state", "issues", "components"} \subseteq DOMAIN r
  BY Results
<1> HIDE DEF r
<1>2. Reports(r)
  BY <1>1 DEF Reports, Computes
<1> QED
  BY <1>2 DEF r

LEMMA BinaryReports ==
  ASSUME NEW done \in BOOLEAN
  PROVE  Reports(Binary(done))
<1>1. done # Null
  BY NumberAssumption
<1>2. \E v, p : Binary(done) = Result([state |-> "ok", value |-> v, percent |-> p])
  BY <1>1, Zenon DEF Binary
<1>3. Binary(done).state = "ok" /\ {"state", "issues", "components"} \subseteq DOMAIN Binary(done)
  BY <1>2, Results
<1> QED
  BY <1>3 DEF Reports, Computes

(* A part: its result computes, and its progress says why it is not ok.     *)
Part(c) ==
  /\ Computes(c.result, Unsayable)
  /\ c.progress # Null /\ c.progress.state # "ok" =>
       c.progress.issues # {} /\ c.progress.issues \subseteq Unsayable \cup Misfits

LEMMA CompletionReports ==
  ASSUME NEW included, \A c \in included : Part(c)
  PROVE  Reports(AllComplete(included))
<1> DEFINE unfinished == {c \in included : c.progress = Null \/ c.progress.state # "ok"}
           broken == \E c \in unfinished : c.progress # Null /\ c.progress.state = "invalid"
           codes == UNION {Unfinished(c) : c \in unfinished}
           done == \A c \in included : c.progress.isComplete
           state == IF broken THEN "invalid" ELSE "missing"
<1>1. CASE unfinished # {}
  <2>1. \A c \in unfinished : Unfinished(c) # {} /\ Unfinished(c) \subseteq Unsayable \cup Misfits
    BY DEF Unfinished, Part, Misfits
  <2>2. codes # {} /\ codes \subseteq Unsayable \cup Misfits
    BY <1>1, <2>1
  <2>3. AllComplete(included) = Result([state |-> state, issues |-> codes])
    BY <1>1, Zenon DEF AllComplete
  <2> HIDE DEF codes, state
  <2> QED
    BY <2>2, <2>3, IssuesReport
<1>2. CASE unfinished = {}
  <2>1. AllComplete(included) = Binary(done)
    BY <1>2, Zenon DEF AllComplete
  <2>2. done \in BOOLEAN
    OBVIOUS
  <2> HIDE DEF done
  <2> QED
    BY <2>1, <2>2, BinaryReports
<1> QED
  BY <1>1, <1>2

LEMMA AggregationReports ==
  ASSUME NEW comps, \A i \in DOMAIN comps : Part(comps[i]), NEW method
  PROVE  Reports(Aggregated(comps, method))
<1> DEFINE included == SelectSeq(comps, LAMBDA c : c.result.state = "ok")
           reported == {c \in Elements(comps) : c.result.state = "ok"}
           units == {c.unit : c \in reported}
           issuesOf(cs) == UNION {c.result.issues : c \in cs}
           broken == {c \in Elements(comps) : c.result.state = "invalid"}
           awaited == {c \in Elements(comps) : c.required /\ c.result.state = "missing"}
           r == Aggregated(comps, method)
<1>1. \A c \in Elements(comps) : Part(c)
  BY DEF Elements
<1>2. CASE broken # {}
  <2>1. \A c \in broken : c.result.issues # {} /\ c.result.issues \subseteq Unsayable
    BY <1>1 DEF Part, Computes
  <2>2. issuesOf(broken) # {} /\ issuesOf(broken) \subseteq Unsayable \cup Misfits
    BY <1>2, <2>1
  <2>3. r = Result([issues |-> issuesOf(broken)])
    BY <1>2, Zenon DEF Aggregated
  <2> HIDE DEF issuesOf, broken, r
  <2>4. Reports(r)
    BY <2>2, <2>3, IssuesReport
  <2> QED
    BY <2>4 DEF r
<1>3. CASE broken = {} /\ method = "none"
  <2> DEFINE all == issuesOf(Elements(comps))
  <2>1. r = Result([state |-> "ok", issues |-> all])
    BY <1>3, Zenon DEF Aggregated
  <2> HIDE DEF all, r
  <2>2. r.state = "ok" /\ {"state", "issues", "components"} \subseteq DOMAIN r
    BY <2>1, Results
  <2>3. Reports(r)
    BY <2>2 DEF Reports, Computes
  <2> QED
    BY <2>3 DEF r
<1>4. CASE broken = {} /\ method # "none" /\ awaited # {}
  <2>1. \A c \in awaited : c.result.issues # {}
    BY <1>1 DEF Part, Computes
  <2>2. issuesOf(awaited) # {}
    BY <1>4, <2>1
  <2>3. r = Result([state |-> "missing", issues |-> issuesOf(awaited)])
    BY <1>4, Zenon DEF Aggregated
  <2> HIDE DEF issuesOf, awaited, r
  <2>4. Reports(r)
    BY <2>2, <2>3, MissingReports
  <2> QED
    BY <2>4 DEF r
<1>5. CASE broken = {} /\ method # "none" /\ awaited = {}
  <2>1. r \in {Lacking("NO_AGGREGATABLE_COMPONENTS"), AllComplete(reported),
               Refused("INCOMPATIBLE_COMPONENT_UNITS"), Refused("NON_SCALAR_COMPONENT"),
               RatioOf(included), Blended(included, method)}
    BY <1>5, Zenon DEF Aggregated
  <2>2. Reports(Lacking("NO_AGGREGATABLE_COMPONENTS"))
    BY CodesReport
  <2>3. /\ Reports(Refused("INCOMPATIBLE_COMPONENT_UNITS"))
        /\ Reports(Refused("NON_SCALAR_COMPONENT"))
        /\ Reports(Refused("INVALID_RATIO_COMPONENT_ROLES"))
        /\ Reports(Refused("INVALID_RATIO_DENOMINATOR"))
        /\ Reports(Refused("INVALID_COMPONENT_WEIGHT"))
    BY CodesReport DEF Misfits
  <2>4. Reports(AllComplete(reported))
    BY <1>1, CompletionReports
  <2>5. Reports(RatioOf(included))
    <3> HIDE DEF included
    <3>1. PICK value, num, den :
            /\ value \in Finite
            /\ RatioOf(included) \in {Refused("INVALID_RATIO_COMPONENT_ROLES"),
                                    Refused("INVALID_RATIO_DENOMINATOR"),
                                    Result(Over([percent |-> value, num |-> num, den |-> den],
                                                Stating(value)))}
      BY RatioIsStated
    <3>2. Reports(Result(Over([percent |-> value, num |-> num, den |-> den], Stating(value))))
      BY StatedReports
    <3> QED
      BY <2>3, <3>1, <3>2
  <2>6. Reports(Blended(included, method))
    <3> HIDE DEF included
    <3>1. PICK value, percent :
            /\ value \in Finite
            /\ Blended(included, method) \in {Refused("INVALID_COMPONENT_WEIGHT"),
                                            Result(Over([percent |-> percent], Stating(value)))}
      BY BlendIsStated
    <3>2. Reports(Result(Over([percent |-> percent], Stating(value))))
      BY StatedReports
    <3> QED
      BY <2>3, <3>1, <3>2
  <2> HIDE DEF r, included, reported
  <2>7. Reports(r)
    BY <2>1, <2>2, <2>3, <2>4, <2>5, <2>6
  <2> QED
    BY <2>7 DEF r
<1> QED
  BY <1>2, <1>3, <1>4, <1>5

(* Parts that have ids of their own, put together in any way.               *)
LEMMA MultiReports ==
  ASSUME NEW comps, NEW method, \A i \in DOMAIN comps : Part(comps[i]),
         \A i, j \in DOMAIN comps : i < j => comps[i].id # comps[j].id
  PROVE  LET r == MultiComponent(comps, method)
         IN  /\ Computes(r, Unsayable \cup Misfits)
             /\ \A part \in Elements(r.components) : Computes(part.result, Unsayable)
<1> DEFINE r == MultiComponent(comps, method)
           aggregated == Aggregated(comps, method)
<1>1. r \in {Lacking("MISSING_COMPONENTS"), Refused("INVALID_AGGREGATION_METHOD"),
             [aggregated EXCEPT !.components = comps]}
  BY Zenon DEF MultiComponent
<1>2. Reports(aggregated)
  BY AggregationReports
<1>3. Reports(Refused("INVALID_AGGREGATION_METHOD")) /\ Reports(Lacking("MISSING_COMPONENTS"))
  BY CodesReport DEF Misfits
<1> HIDE DEF r, aggregated
<1>4. CASE r = [aggregated EXCEPT !.components = comps]
  <2>1. r.state = aggregated.state /\ r.issues = aggregated.issues /\ r.components = comps
    BY <1>2, <1>4 DEF Reports
  <2> QED
    BY <1>2, <2>1 DEF Reports, Computes, Elements, Part, r
<1>5. CASE r \in {Lacking("MISSING_COMPONENTS"), Refused("INVALID_AGGREGATION_METHOD")}
  <2>1. r.components = <<>>
    BY <1>5, CodedResults
  <2>2. Elements(r.components) = {}
    BY <2>1 DEF Elements
  <2>3. Reports(r)
    BY <1>3, <1>5
  <2> QED
    BY <2>2, <2>3 DEF Reports, r
<1> QED
  BY <1>1, <1>4, <1>5

-----------------------------------------------------------------------------
(* A Measure of components whose results are stored has only components the *)
(* form can be filled in for.                                               *)
Together ==
  measure.type = "multi_component" /\ stored # {} =>
    \A i \in DOMAIN measure.components : measure.components[i].type \in Simple

LEMMA TogetherStep ==
  ASSUME Together, Next
  PROVE  Together'
<1>1. measure' = measure
  BY DEF Next, Save, SaveComponents, RemoveResult
<1>2. CASE Save
  BY <1>1, <1>2 DEF Save, Together
<1>3. CASE RemoveResult
  BY <1>1, <1>3 DEF RemoveResult, Together
<1>4. CASE SaveComponents
  <2> DEFINE comp(i) == measure.components[i]
             draft(index, values, i) ==
               [Blank EXCEPT !.index = index, !.value = values[i], !.binary = values[i]]
  <2>1. PICK year \in PlanYears, index \in EntryIndexes :
          \E values \in [DOMAIN measure.components ->
                           UNION {Numbers[c.type] : c \in Elements(measure.components)}] :
            \A i \in DOMAIN values : FormAccepts(comp(i), draft(index, values, i))
    BY <1>4 DEF SaveComponents
  <2>2. PICK values \in [DOMAIN measure.components ->
                           UNION {Numbers[c.type] : c \in Elements(measure.components)}] :
            \A i \in DOMAIN values : FormAccepts(comp(i), draft(index, values, i))
    BY <2>1
  <2>3. ASSUME NEW i \in DOMAIN measure.components PROVE comp(i).type \in Simple
    <3> DEFINE d == draft(index, values, i)
               c == comp(i)
    <3>1. d.num = Null /\ d.respondents = Null /\ d.method = "total_score"
      BY DEF Blank
    <3>2. FormAccepts(c, d)
      BY <2>2
    <3> HIDE DEF d, c
    <3>3. ~ AcceptsFraction(c, d) /\ ~ AcceptsAverage(d)
      BY <3>1 DEF AcceptsFraction, AcceptsAverage, TypedNonNegative, TypedPositive, Typed
    <3>4. c.type \in Simple
      BY <3>2, <3>3 DEF FormAccepts, Simple
    <3> QED
      BY <3>4 DEF c
  <2> QED
    BY <1>1, <2>3 DEF Together
<1> QED
  BY <1>2, <1>3, <1>4 DEF Next

LEMMA TogetherInvariance == EntrySpec => []Together
<1>1. DistributionInit => Together
  BY DEF DistributionInit, Init, Together
<1>2. Together /\ [EntryNext]_entryVars => Together'
  <2> SUFFICES ASSUME Together, [EntryNext]_entryVars PROVE Together'
    OBVIOUS
  <2>1. CASE UNCHANGED vars
    BY <2>1 DEF vars, Together
  <2>2. CASE Next
    BY <2>2, TogetherStep
  <2> QED
    BY <2>1, <2>2 DEF EntryNext, entryVars
<1> QED
  BY <1>1, <1>2, PTL DEF EntrySpec, entryVars

(* What is asked of a component, and what it answers.                       *)
LEMMA PartsCompute ==
  ASSUME ResultsInv, Together, measure.type = "multi_component", NEW s \in stored,
         NEW i \in DOMAIN measure.components,
         NEW in, in = ComponentInput(measure, measure.components[i], stored, s, PlanStart),
         NEW part, part = CalculatedComponent(in, SingleMeasurement(in.input))
  PROVE  Part(part) /\ part.id = measure.components[i].id
<1> DEFINE comp == measure.components[i]
           own == {r \in stored : /\ r.component = comp.id /\ r.year = s.year
                                  /\ SamePeriod(r, s)}
           row == IF own = {} THEN EmptyRow ELSE (CHOOSE r \in own : TRUE).row
           previous == PreviousValue(stored, [s EXCEPT !.component = comp.id], PlanStart,
                                     comp.previous)
           c == [comp EXCEPT !.allowOver = measure.allowOver]
           asked == KernelQuestion(c, row, previous)
           targeting == Targeting(comp, TargetPolicy(comp.targets, s.year, comp.type,
                                                     comp.status).effective)
           told == [id |-> comp.id, unit |-> comp.unit, role |-> comp.role,
                    weight |-> comp.weight, required |-> TRUE, input |-> asked]
<1>1. in = Over(told, targeting)
  BY Zenon DEF ComponentInput
<1>2. comp.type \in Simple
  BY DEF Together
<1>3. row.value \in Finite /\ row.milestone \in {Null} \cup 0 .. Whole
  <2>1. CASE own = {}
    <3>1. row = EmptyRow
      BY <2>1
    <3> HIDE DEF row, own, comp
    <3> QED
      BY <3>1, AnswersAreReadings DEF EmptyRow
  <2>2. CASE own # {}
    <3>1. row \in {r.row : r \in own}
      BY <2>2
    <3>2. \A r \in own : r \in stored
      OBVIOUS
    <3> HIDE DEF row, own
    <3>3. PICK r \in own : row = r.row
      BY <3>1
    <3>4. Entered(r)
      BY <3>2 DEF ResultsInv
    <3> QED
      BY <3>3, <3>4, EnteredRows
  <2> QED
    BY <2>1, <2>2
<1>4. previous \in Finite
  <2>1. comp.previous \in Finite
    BY EntryAssumption, AnswersAreReadings DEF ResultsInv
  <2> QED
    BY <2>1, PreviousIsFinite DEF ResultsInv
<1>5. "type" \in DOMAIN comp => c.type = comp.type
  OBVIOUS
<1> HIDE DEF targeting, asked
<1>6. in.id = comp.id /\ in.input = asked
  <2>1. DOMAIN told = {"id", "unit", "role", "weight", "required", "input"}
    BY Zenon
  <2>2. told.id = comp.id /\ told.input = asked
    BY Zenon
  <2> HIDE DEF told, comp
  <2> QED
    BY <1>1, <2>1, <2>2 DEF Over
<1> HIDE DEF row, previous, c, comp
<1>7. c.type \in Simple
  BY <1>2, <1>5 DEF c
<1>8. Computes(SingleMeasurement(asked), Unsayable)
  <2>1. Says(Calculated(c, row, previous), Unsayable,
             c.type = "year_over_year" \/ ~ Stated(c, row))
    BY <1>3, <1>4, <1>7, SimpleSays
  <2> QED
    BY <2>1 DEF Says, Calculated, asked
<1>9. /\ part.id = in.id /\ part.result = SingleMeasurement(in.input)
      /\ part.progress = ComponentProgress(in, SingleMeasurement(in.input))
  BY DEF CalculatedComponent
<1>10. part.progress = Null \/ \E p : part.progress = Progress(p)
  BY <1>9, Zenon DEF ComponentProgress
<1>11. Part(part)
  BY <1>6, <1>8, <1>9, <1>10, ProgressSays DEF Part
<1> QED
  BY <1>6, <1>9, <1>11 DEF comp

(* A stored result of a Measure of components.                              *)
LEMMA MultiComputes ==
  ASSUME ResultsInv, Together, measure.type = "multi_component", NEW s \in stored
  PROVE  /\ Computes(Outcome(s), Unsayable \cup Misfits)
         /\ \A part \in Elements(Outcome(s).components) : Computes(part.result, Unsayable)
<1> DEFINE inputs == [i \in DOMAIN measure.components |->
                        ComponentInput(measure, measure.components[i], stored, s, PlanStart)]
           comps == [i \in DOMAIN inputs |->
                       CalculatedComponent(inputs[i], SingleMeasurement(inputs[i].input))]
           question == [type |-> measure.type, method |-> measure.method,
                        components |-> inputs]
<1>1. Outcome(s) = Measurement(question)
  BY Zenon DEF Outcome, CalculatedResult
<1>2. Measurement(question) = MultiComponent(comps, measure.method)
  <2>1. question.type = "multi_component" /\ question.method = measure.method
        /\ question.components = inputs
    BY Zenon
  <2> HIDE DEF question, inputs
  <2> QED
    BY <2>1, Zenon DEF Measurement
<1>3. DOMAIN comps = DOMAIN measure.components
  OBVIOUS
<1>4. ASSUME NEW i \in DOMAIN comps
      PROVE  Part(comps[i]) /\ comps[i].id = measure.components[i].id
  BY <1>3, PartsCompute
<1>5. \A i, j \in DOMAIN measure.components :
        i < j => measure.components[i].id # measure.components[j].id
  <2>1. DOMAIN measure.components = 1 .. Len(measure.components)
    BY EntryAssumption DEF ResultsInv
  <2>2. \A i, j \in DOMAIN measure.components : i < j => i # j
    BY <2>1
  <2> QED
    BY <2>2, EntryAssumption DEF ResultsInv
<1> HIDE DEF comps, question
<1>6. \A i, j \in DOMAIN comps : i < j => comps[i].id # comps[j].id
  BY <1>3, <1>4, <1>5
<1>7. \A i \in DOMAIN comps : Part(comps[i])
  BY <1>4
<1> DEFINE r == MultiComponent(comps, measure.method)
<1>8. /\ Computes(r, Unsayable \cup Misfits)
      /\ \A part \in Elements(r.components) : Computes(part.result, Unsayable)
  BY <1>6, <1>7, MultiReports
<1> QED
  BY <1>1, <1>2, <1>8

(* Whatever Data Entry stores the kernel can use (CALC-001): what the form  *)
(* and the server let through computes or says why it has no value, and the *)
(* reason is never that it should have been refused; and the counts of a    *)
(* year are those of one entry (upsertStrategyObservation,                  *)
(* upsertStrategyDistribution of value-entry.ts, calculations.ts).          *)
THEOREM EntriesAlwaysCompute == EntrySpec => []EntriesCompute
<1>1. ResultsInv /\ Together => SavableComputes
  <2> SUFFICES ASSUME ResultsInv, Together, NEW s \in stored
               PROVE  LET result == Outcome(s)
                          parts == {part.result : part \in Elements(result.components)}
                      IN  IF measure.type = "multi_component"
                          THEN /\ Computes(result, Unsayable \cup Misfits)
                               /\ \A part \in parts : Computes(part, Unsayable)
                          ELSE /\ Computes(result, Unsayable)
                               /\ result.state = "missing" =>
                                    measure.type = "year_over_year"
                                    \/ result.issues = {"NO_RESPONSES_RECORDED"}
    BY DEF SavableComputes
  <2>1. CASE measure.type = "multi_component"
    BY <2>1, MultiComputes
  <2>2. CASE measure.type # "multi_component"
    BY <2>2, SingleSays DEF Says
  <2> QED
    BY <2>1, <2>2
<1>2. EntrySpec => []SavableComputes
  BY <1>1, ResultsInvariance, TogetherInvariance, PTL
<1> QED
  BY <1>2, CountsInvariance, PTL DEF EntriesCompute

-----------------------------------------------------------------------------
(* The three together, as the run checks them: what was entered stands,     *)
(* whatever is entered, corrected, removed or defined after it.             *)
THEOREM EntriesAlwaysStand == EntrySpec => EntriesStand
BY ResavableAlways, OneBandAlways, SharesAlwaysStand, PTL DEF EntriesStand

=============================================================================
