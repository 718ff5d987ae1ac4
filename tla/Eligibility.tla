---------------------------- MODULE Eligibility ----------------------------
(* The rules of src/eligibility.mjs: a pure function of what was read off a  *)
(* receipt, the live rules and the circumstances of the submission.  Text is *)
(* a set of catalogue keys it contains; days and instants are small numbers. *)
EXTENDS Naturals, Integers, Sequences, FiniteSets, Functions

CONSTANTS
  Skus, Grams, Qualifying,  \* the version's products: pack size, qualifying flag
  KeysOf,                   \* their codes, names and aliases
  KeyLength, KeySays,       \* length of a key, the pack size it prints (0: none)
  Within                    \* pairs <<k, l>>: key k is a substring of key l

(* A product has a few keys and a positive pack size (upsertProduct()).      *)
ASSUME EligibilityAssumption ==
  /\ IsFiniteSet(Skus) /\ \A p \in Skus : IsFiniteSet(KeysOf[p])
  /\ Grams \in [Skus -> Nat \ {0}]
  /\ \A p \in Skus : \A k \in KeysOf[p] : KeyLength[k] \in Nat

Keys == UNION {KeysOf[p] : p \in Skus}
PackSizes == {Grams[p] : p \in Skus}

\* ---- one line of the till
(* matchProduct(): the longest key the description contains wins.            *)
Candidates(line) ==
  {c \in Skus \X Keys : Qualifying[c[1]] /\ c[2] \in KeysOf[c[1]] \cap line.has}

Matches(line) == Candidates(line) # {}
Best(line) ==
  CHOOSE c \in Candidates(line) :
    \A d \in Candidates(line) : KeyLength[d[2]] <= KeyLength[c[2]]

(* packAmbiguous: a key that prints no size cannot settle it when several    *)
(* are sold, nor can one that a product of another size also answers to.     *)
SharedAcrossSizes(best) ==
  \E p \in Skus \ {best[1]} :
    Grams[p] # Grams[best[1]] /\ \E l \in KeysOf[p] : <<best[2], l>> \in Within

PackAmbiguousWhenShared(best) == SharedAcrossSizes(best)

PackAmbiguous(best) ==
  SharedAcrossSizes(best) \/ (KeySays[best[2]] = 0 /\ Cardinality(PackSizes) > 1)

(* The pack size credited to a line, 0 when it has to stay open.             *)
PackOf(line) ==
  IF line.says # 0 THEN line.says
  ELSE IF PackAmbiguous(Best(line)) THEN 0 ELSE Grams[Best(line)[1]]

Counted(lines) == {i \in DOMAIN lines : ~lines[i].voided /\ Matches(lines[i])}
Unsettled(line) == line.quantity = 0 \/ PackOf(line) = 0

\* ---- product and amount
Enough(packs, grams, rules) ==
  \/ packs >= rules.minPacks /\ packs * rules.packGrams >= rules.minTotal
  \/ rules.combinations /\ grams >= rules.minTotal

Settled(lines) == {i \in Counted(lines) : ~Unsettled(lines[i])}
Packs(lines) == [i \in DOMAIN lines |-> lines[i].quantity]
PrimaryPacks(lines, rules) ==
  SumFunctionOnSet(Packs(lines), {i \in Settled(lines) : PackOf(lines[i]) = rules.packGrams})
TotalGrams(lines) ==
  SumFunctionOnSet([i \in Settled(lines) |-> lines[i].quantity * PackOf(lines[i])], Settled(lines))

ProductRule(lines, rules) ==
  IF Counted(lines) = {}
  THEN IF lines = <<>> THEN "unknown" ELSE "fail"
  ELSE IF Enough(PrimaryPacks(lines, rules), TotalGrams(lines), rules) THEN "pass"
  ELSE IF Counted(lines) # Settled(lines) THEN "unknown" ELSE "fail"

\* ---- date and window
(* A receipt's day is the range it covers in the zone of each bound; the     *)
(* window is half open.                                                      *)
DayStart(day, offset) == 24 * day - offset
InWindow(day, w) ==
  /\ DayStart(day, w.startZone) + 24 > w.start
  /\ DayStart(day, w.endZone) < w.end

(* The configured order of day and month governs; a person decides only when *)
(* that reading is outside and the other one inside.                         *)
DateRule(f, w) ==
  IF f.day = 0 THEN "unknown"
  ELSE IF InWindow(f.day, w) THEN "pass"
  ELSE IF f.swapped # 0 /\ InWindow(f.swapped, w) THEN "unknown" ELSE "fail"

\* ---- the rules
FailsIf(bad) == IF bad THEN "fail" ELSE "pass"
OpenIf(bad) == IF bad THEN "unknown" ELSE "pass"

DocumentRule(f) ==
  IF f.document = "other" THEN "fail" ELSE OpenIf(f.document = "unclear")

(* In the code's order; the first two are about the image itself.            *)
Rules(f, lines, rules, w) ==
  << DocumentRule(f),
     FailsIf(f.poorImage /\ f.document # "receipt"),
     FailsIf(~f.open), FailsIf(~f.enrolled), FailsIf(f.blocked),
     OpenIf(~f.numbered), OpenIf(~f.totalled),
     DateRule(f, w),
     FailsIf(~f.participating),
     OpenIf(f.merchant # "selected"),
     ProductRule(lines, rules),
     FailsIf(rules.cap # 0 /\ f.entries >= rules.cap),
     OpenIf(~f.confident) >>

Outcomes(rs, o) == {i \in DOMAIN rs : rs[i] = o}

(* evaluateEligibility(): an unusable image asks for another one whatever    *)
(* else failed, any other failure refuses, anything open goes to a person.   *)
Disposition(rs) ==
  IF Outcomes(rs, "fail") \cap {1, 2} # {} THEN "REUPLOAD_REQUIRED"
  ELSE IF Outcomes(rs, "fail") # {} THEN "NOT_QUALIFIED"
  ELSE IF Outcomes(rs, "unknown") # {} THEN "REVIEW_REQUIRED" ELSE "QUALIFIED"

Evaluate(f, lines, rules, w) == Disposition(Rules(f, lines, rules, w))

\* ---- reference
(* What a line may have been: every pack size on sale, when it prints none.  *)
Readings(line) == IF line.says # 0 THEN {line.says} ELSE PackSizes

BoughtEnough(lines, size, rules) ==
  Enough(SumFunctionOnSet(Packs(lines), {i \in Counted(lines) : size[i] = rules.packGrams}),
         SumFunctionOnSet([i \in Counted(lines) |-> lines[i].quantity * size[i]], Counted(lines)),
         rules)

(* However the sizes the till left out are filled in, the purchase meets the *)
(* promotion's amount; a quantity that could not be read counts as none.     *)
CertainlyEnough(lines, rules) ==
  \A size \in [DOMAIN lines -> PackSizes \cup {lines[i].says : i \in DOMAIN lines}] :
    (\A i \in DOMAIN lines : size[i] \in Readings(lines[i])) => BoughtEnough(lines, size, rules)
============================================================================
