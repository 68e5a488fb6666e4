-------------------------- MODULE PublisherQuotes ---------------------------
(***************************************************************************)
(* The publishers' quotes of one asset as compute_dispersion meets them:   *)
(* publishers join, leave and requote one at a time, and may quote a price *)
(* that is not positive.                                                   *)
(***************************************************************************)
EXTENDS Dispersion, SequencesExt

CONSTANTS
  Prices,           \* the prices publishers quote
  MaxPublishers     \* bound: publishers of the asset

ASSUME PricesAssumption == Prices \subseteq Nat
ASSUME PublisherAssumption == MaxPublishers \in Nat

VARIABLE quotes

Init == quotes = <<>>

Join(p) == Len(quotes) < MaxPublishers /\ quotes' = Append(quotes, p)
Leave(i) == quotes' = RemoveAt(quotes, i)
Requote(i, p) == quotes' = [quotes EXCEPT ![i] = p]

Next ==
  \/ \E p \in Prices : Join(p)
  \/ \E i \in DOMAIN quotes : Leave(i) \/ \E p \in Prices : Requote(i, p)

Spec == Init /\ [][Next]_quotes

-----------------------------------------------------------------------------
TypeOK ==
  /\ quotes \in Seq(Prices) /\ Len(quotes) <= MaxPublishers
  /\ DispersionScore(quotes) \in 0 .. Unit
  /\ Outliers(quotes) \subseteq DOMAIN quotes

(* All publishers but i quote one and the same positive price. *)
LoneOutlier(i) ==
  /\ \A j \in DOMAIN quotes : quotes[j] > 0
  /\ \A j, k \in DOMAIN quotes \ {i} : quotes[j] = quotes[k]
  /\ \E j \in DOMAIN quotes \ {i} : quotes[j] # quotes[i]

(* Among five publishers or more, one that disagrees with all the others   *)
(* does not score: the quartiles stay with the others.                     *)
LoneOutlierIgnored ==
  Len(quotes) >= 5 => \A i \in DOMAIN quotes : LoneOutlier(i) => DispersionScore(quotes) = 0

(* ... and it is the one that is named, however close it is: the standard  *)
(* deviation it is measured against is its own doing.                      *)
LoneOutlierNamed ==
  Len(quotes) >= 5 => \A i \in DOMAIN quotes : LoneOutlier(i) => Outliers(quotes) = {i}

(* The ramp rises without a drop: when the highest of the quotes rises,    *)
(* the median stays and the score does not fall.                           *)
RisingTopNeverScoresLess ==
  \A i \in DOMAIN quotes :
    (\A j \in DOMAIN quotes : 0 < quotes[j] /\ quotes[j] <= quotes[i]) =>
      \A p \in {q \in Prices : q >= quotes[i]} :
        DispersionScore(quotes) <= DispersionScore([quotes EXCEPT ![i] = p])

(* compute_dispersion: "Score scales with IQR (interquartile range) since  *)
(* IQR is robust to a single mis-pricing outlier" - from min_publishers    *)
(* on, which is 3.                                                         *)
SingleOutlierNeverScores ==
  \A i \in DOMAIN quotes : LoneOutlier(i) => DispersionScore(quotes) = 0
=============================================================================
