----------------------------- MODULE MCConsole -----------------------------
(* Instances of Server for TLC.                                              *)
EXTENDS Server, TLC

CONSTANTS a1, a2, t1, t2, x1, x2, c1, c2, v1, v2, p1, p2, o1, h1, h2, server, worker,
  u1, u2, f1, g1, g2, m1, m2, n1, n2, n3, i1, d1

Family(routes, rows, calls) == [routes |-> routes, rows |-> rows, calls |-> calls]
Alone == {Family({part}, 0, 0) : part \in Parts}
OneByOne == {Family({"logins"}, 1, 0), Family({"staff", "factor"}, 2, 1), Family({"trail"}, 4, 0),
             Family({"campaign"}, 4, 2), Family({"weeks"}, 4, 1), Family({"receipts"}, 0, 0)} \cup Alone
WorkerOnly == {Family({"worker"}, 0, 0)}

Alike == Permutations(Handlers) \cup Permutations(Sessions) \cup Permutations(Sources)

AllRoles == {{"platform_admin"}, {"draw_officer"}}
AnyWindow == {<<0, 1>>, <<0, 2>>, <<1, 3>>}

\* Two packs are sold.  Their full names print the size; the 2kg pack also
\* answers to the brand alone and to an abbreviation of it.
MCSkus == {"brown 2kg", "brown 1kg"}
MCGrams == [p \in MCSkus |-> IF p = "brown 2kg" THEN 2 ELSE 1]
MCQualifying == [p \in MCSkus |-> TRUE]
MCKeysOf == ("brown 2kg" :> {"goldcane 2kg", "goldcane", "gc"}) @@ ("brown 1kg" :> {"goldcane 1kg"})
MCKeyLength == ("goldcane 2kg" :> 12) @@ ("goldcane 1kg" :> 12) @@ ("goldcane" :> 8) @@ ("gc" :> 2)
MCKeySays == ("goldcane 2kg" :> 2) @@ ("goldcane 1kg" :> 1) @@ ("goldcane" :> 0) @@ ("gc" :> 0)
MCWithin == {<<k, k>> : k \in UNION {MCKeysOf[p] : p \in MCSkus}}
            \cup {<<"goldcane", "goldcane 2kg">>, <<"goldcane", "goldcane 1kg">>}

Texts == {<<{"goldcane 2kg", "goldcane"}, 2>>, <<{"goldcane 1kg", "goldcane"}, 1>>,
          <<{"goldcane"}, 0>>, <<{"gc"}, 0>>, <<{"gc"}, 2>>, <<{"gc"}, 1>>, <<{}, 0>>}
Line == {[has |-> x[1], says |-> x[2], quantity |-> q, voided |-> d] :
           x \in Texts, q \in {0, 1, 2, 4}, d \in BOOLEAN}
MCTills == {<<>>} \cup {<<l>> : l \in Line}
           \cup {<<l, m>> : l, m \in {k \in Line : ~k.voided /\ k.quantity # 4}}

Good == [document |-> "receipt", poorImage |-> FALSE, open |-> TRUE, enrolled |-> TRUE,
         blocked |-> FALSE, numbered |-> TRUE, totalled |-> TRUE, day |-> 2, swapped |-> 0,
         participating |-> TRUE, merchant |-> "selected", entries |-> 0, confident |-> TRUE]
MCFacts == {Good} \cup
  {[Good EXCEPT !.document = d, !.poorImage = b] : d \in {"unclear", "other"}, b \in BOOLEAN} \cup
  {[Good EXCEPT !.day = d, !.swapped = s] : d \in {0, 1, 3}, s \in {0, 2}} \cup
  {[Good EXCEPT !.open = FALSE], [Good EXCEPT !.enrolled = FALSE], [Good EXCEPT !.blocked = TRUE],
   [Good EXCEPT !.numbered = FALSE], [Good EXCEPT !.totalled = FALSE], [Good EXCEPT !.participating = FALSE],
   [Good EXCEPT !.merchant = "other"], [Good EXCEPT !.entries = 1], [Good EXCEPT !.confident = FALSE]}

\* Every till with nothing else amiss, and everything amiss with one till.
Enough2 == <<[has |-> {"goldcane 2kg"}, says |-> 2, quantity |-> 2, voided |-> FALSE]>>
MCReadable == {[facts |-> Good, till |-> t] : t \in MCTills} \cup {[facts |-> f, till |-> Enough2] : f \in MCFacts}

(* The receipts of the run are ones the theorem on credit speaks of.         *)
ASSUME MCReadingsPrintTheirSizes == SizesArePrinted

MCRuleBook == {[minPacks |-> 2, packGrams |-> 2, minTotal |-> 4, combinations |-> c, cap |-> k] :
                 c \in BOOLEAN, k \in {0, 1}}
MCWindow == [start |-> 46, end |-> 70, startZone |-> 2, endZone |-> 2]
============================================================================
