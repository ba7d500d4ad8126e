--------------------------- MODULE DistributionEntry ---------------------------
(***************************************************************************)
(* Data Entry for one Measure, whose type decides how: ResultEntry's       *)
(* results, or - a distribution - the counts of its reporting groups, the  *)
(* bands that Admins define, change, reorder, archive and restore while    *)
(* others enter counts (value-entry.ts, /api/strategy/distribution-bands   *)
(* and /api/strategy/distributions).                                       *)
(*                                                                         *)
(* One action is one SQLite transaction.  A request is anything the route  *)
(* accepts, so that a form filled in from an old list of bands is one.  A  *)
(* year has one period, and classes stand for unknown, declined and the    *)
(* derived group; configurations are MeasureHistory's.                     *)
(***************************************************************************)
EXTENDS ResultEntry

CONSTANTS
  Bands,            \* bands that may come to exist
  Definitions,      \* what a band may be defined as: slug, label, order, class,
                    \* from and to (Onward: without an end)
  Totals,           \* respondents, and counts of a band
  MaxEntered        \* bound: years with a distribution

ASSUME BandAssumption ==
  /\ IsFiniteSet(Bands) /\ Totals \subseteq Int
  /\ \A def \in Definitions :
       /\ DOMAIN def = {"slug", "label", "order", "class", "from", "to"}
       /\ def.from \in Int /\ def.to \in Int

VARIABLES
  band,             \* distribution_bands
  entered,          \* distribution_observations and their values, by year
  frozen            \* is the Measure or its Priority archived?

groups == <<band, entered, frozen>>

Onward == 1 + (CHOOSE y \in PlanYears : \A z \in PlanYears : z <= y)

Absent == [state |-> "absent"]

Live(b) == band[b].state = "live"
Effective(b, year) == Live(b) /\ band[b].from <= year /\ year <= band[b].to
(* What a list of the year shows, and an entry of the year may name         *)
(* (findBand).                                                              *)
Listed(year) == {b \in Bands : Effective(b, year)}

(* findOverlappingActiveDistributionBand: archived bands do not count.      *)
(* Mutated form: a band without an end ends in its first year.              *)
Overlaps_EndsAtOnce(def, b) ==
  \E c \in Bands \ {b} :
    /\ Live(c) /\ band[c].slug = def.slug
    /\ band[c].from <= def.to
    /\ def.from <= (IF band[c].to = Onward THEN band[c].from ELSE band[c].to)

Overlaps(def, b) ==
  \E c \in Bands \ {b} :
    /\ Live(c) /\ band[c].slug = def.slug
    /\ band[c].from <= def.to /\ def.from <= band[c].to

(* The unique index of the table: archived bands do.                        *)
Indexed(def, b) ==
  \E c \in Bands \ {b} :
    band[c] # Absent /\ band[c].slug = def.slug /\ band[c].from = def.from

Definable(def, b) == def.from <= def.to /\ ~Overlaps(def, b) /\ ~Indexed(def, b)

LiveBand(def) == Over(def, [state |-> "live"])

HasValues(b) == \E y \in PlanYears : entered[y] # Null /\ b \in DOMAIN entered[y].counts

-----------------------------------------------------------------------------
(* Operations on bands.                                                     *)

CreateBand ==
  \E b \in Bands, def \in Definitions :
    /\ ~frozen /\ band[b] = Absent
    /\ Definable(def, b)
    /\ band' = [band EXCEPT ![b] = LiveBand(def)]
    /\ UNCHANGED <<entered, frozen>>

(* A class is part of every composition the band was counted in.  Mutated   *)
(* form: it may change at any time.                                         *)
Reclassifiable_Always(b, def) == TRUE

Reclassifiable(b, def) == def.class = band[b].class \/ ~HasValues(b)

UpdateBand ==
  \E b \in Bands, def \in Definitions :
    /\ ~frozen /\ Live(b)
    /\ Reclassifiable(b, def)
    /\ Definable(def, b)
    /\ band' = [band EXCEPT ![b] = LiveBand(def)]
    /\ UNCHANGED <<entered, frozen>>

(* Every band listed for the year, exactly once.                            *)
ReorderBands ==
  \E year \in PlanYears :
  \E order \in Bijection(Listed(year), 0 .. Cardinality(Listed(year)) - 1) :
    /\ ~frozen /\ Listed(year) # {}
    /\ band' = [b \in Bands |-> IF b \in Listed(year)
                                THEN [band[b] EXCEPT !.order = order[b]] ELSE band[b]]
    /\ UNCHANGED <<entered, frozen>>

ArchiveBand ==
  \E b \in Bands :
    /\ ~frozen /\ Live(b)
    /\ band' = [band EXCEPT ![b].state = "archived"]
    /\ UNCHANGED <<entered, frozen>>

RestoreBand ==
  \E b \in Bands :
    /\ ~frozen /\ band[b].state = "archived"
    /\ ~Overlaps(band[b], b)
    /\ band' = [band EXCEPT ![b].state = "live"]
    /\ UNCHANGED <<entered, frozen>>

-----------------------------------------------------------------------------
(* Operations on distributions.                                             *)

(* The write of these counts, with bands as in defs.                        *)
DistributionWrite(defs, counts, total, exclusive) ==
  LET named == SetToSeq(DOMAIN counts)
  IN  [total |-> total, exclusive |-> exclusive,
       bands |-> [i \in DOMAIN named |->
                    [slug |-> defs[named[i]].slug, label |-> defs[named[i]].label,
                     order |-> defs[named[i]].order, count |-> counts[named[i]],
                     group |-> defs[named[i]].class]]]

(* A band a request names without an id starts in the year of the entry and *)
(* has no end.                                                              *)
Implied(year) ==
  {LiveBand(def) : def \in {d \in Definitions : d.from = year /\ d.to = Onward}}

(* The values of an entry: those no longer requested go, those kept keep    *)
(* the label they were first entered under.  Mutated form: none goes.       *)
Values_Kept(old, counts) == IF old = Null THEN counts ELSE Over(counts, old.counts)

Values(old, counts) == counts

LabelsOf(old, counts, bands) ==
  [b \in DOMAIN counts |->
     IF old # Null /\ b \in DOMAIN old.counts THEN old.labels[b] ELSE bands[b].label]

Enter(year, implied, counts, total, exclusive, order) ==
  LET bands == Over(implied, band)
      asked == [b \in DOMAIN counts |-> [bands[b] EXCEPT !.order = order[b]]]
      values == Values(entered[year], counts)
  IN  /\ ~frozen /\ counts # <<>>
      /\ \A b \in DOMAIN implied : Definable(implied[b], b) /\ order[b] = implied[b].order
      /\ AcceptsDistribution(DistributionWrite(asked, counts, total, exclusive))
      /\ band' = bands
      /\ entered' = [entered EXCEPT ![year] =
           [total |-> total, exclusive |-> exclusive, counts |-> values,
            labels |-> LabelsOf(entered[year], values, bands)]]
      /\ Cardinality({y \in PlanYears : entered'[y] # Null}) <= MaxEntered
      /\ UNCHANGED frozen

(* A request names listed bands and at most one that does not exist yet, in *)
(* an order of its own that is stored for that one only.                    *)
SaveDistribution ==
  \E year \in PlanYears :
  \E known \in SUBSET Listed(year), new \in {{}} \cup {{b} : b \in {c \in Bands : band[c] = Absent}} :
  \E implied \in [new -> Implied(year)], counts \in [known \cup new -> Totals] :
  \E total \in Totals, exclusive \in BOOLEAN :
  \E order \in Bijection(known \cup new, 0 .. Cardinality(known \cup new) - 1) :
    Enter(year, implied, counts, total, exclusive, order)

RemoveDistribution ==
  \E year \in PlanYears :
    /\ ~frozen /\ entered[year] # Null
    /\ entered' = [entered EXCEPT ![year] = Null]
    /\ UNCHANGED <<band, frozen>>

(* The catalog archives and restores the Measure or its Priority.           *)
Freeze ==
  /\ frozen' = ~frozen
  /\ UNCHANGED <<band, entered>>

-----------------------------------------------------------------------------
IsDistribution == measure.type = "distribution"

DistributionInit ==
  /\ Init
  /\ band = [b \in Bands |-> Absent]
  /\ entered = [y \in PlanYears |-> Null]
  /\ frozen = FALSE

DistributionNext ==
  \/ CreateBand \/ UpdateBand \/ ReorderBands \/ ArchiveBand \/ RestoreBand
  \/ SaveDistribution \/ RemoveDistribution \/ Freeze

EntryNext ==
  \/ ~IsDistribution /\ Next /\ UNCHANGED groups
  \/ IsDistribution /\ DistributionNext /\ UNCHANGED vars

EntrySpec == DistributionInit /\ [][EntryNext]_<<vars, groups>>

-----------------------------------------------------------------------------
(* Properties.                                                              *)

(* A year never lists two bands of one slug, however their years are moved, *)
(* implied by entries and brought back: an entry by slug has one band.      *)
OneBandPerYear ==
  \A year \in PlanYears : \A b, c \in Listed(year) :
    band[b].slug = band[c].slug => b = c

(* What is stored for a year is one entry: its counts are of its own total, *)
(* whatever an earlier entry of other bands left behind.                    *)
CountsAreOfOneEntry ==
  \A year \in PlanYears :
    LET e == entered[year]
    IN  e # Null =>
          /\ \A b \in DOMAIN e.counts : e.counts[b] <= e.total
          /\ e.exclusive => SumFunction(e.counts) = e.total

(* Whatever Data Entry stores the kernel can use: a result computes, and a  *)
(* distribution is of one entry.                                            *)
EntriesCompute == SavableComputes /\ CountsAreOfOneEntry

Respondents(counts, bands) == FoldFunctionOnSet(+, 0, counts, bands)

(* The derived share of a reported year changes only by an entry for that   *)
(* year: no edit of the bands rewrites it (kpi-measurement-model.md: the    *)
(* guard "keeps historical derived percentages stable").                    *)
DerivedShare(year) ==
  LET e == entered[year]
  IN  Respondents(e.counts, {b \in DOMAIN e.counts : band[b].class = "non_white"})

SharesStand ==
  [][\A year \in PlanYears :
       entered[year] # Null /\ entered'[year] = entered[year] =>
         DerivedShare(year)' = DerivedShare(year)]_<<vars, groups>>

(* Whatever Data Entry stores stands as it was entered: a result opens in   *)
(* the form as itself, a slug names one band of a year, and a share is not  *)
(* rewritten from elsewhere.                                                *)
EntriesStand == []Resavable /\ []OneBandPerYear /\ SharesStand

=============================================================================
