------------------------------- MODULE MCPacks -------------------------------
(***************************************************************************)
(* Packs on small instances: every set of profile names with a list of its *)
(* own each, so that long names, short names and volumes meet; every kind  *)
(* of list; policies and data files with every kind of name. Numbers are   *)
(* written in base three with one digit, so that three files sort like     *)
(* their list and a fourth does not.                                       *)
(***************************************************************************)
EXTENDS Packs, TLC

dflt == 20
shop == 21
volume == 22
bad == 99

MCPolicyName == <<40>>

MCLists == [l1 |-> <<12, 10>>, l2 |-> <<11>>, l3 |-> <<10, 12, 11>>,
            l4 |-> <<13, 12, 11, 10>>, lempty |-> << >>, lgone |-> <<10, 14>>,
            lbad |-> <<99>>]

MCContents == DOMAIN MCLists \cup {"f1", "f2", "f3", "p1", "d1"}

AllFiles == (10 :> "f1" @@ 11 :> "f2") @@ (12 :> "f3" @@ 13 :> "f1") @@ (99 :> "f1")

APack(profiles, policies, data) ==
    [profiles |-> profiles, files |-> AllFiles, policies |-> policies, data |-> data]

\* Every name with its own list.
ListOf(n) == CASE n = <<0, dflt>> -> "l1"
               [] n = <<1, dflt>> -> "l2"
               [] n = <<0, shop>> -> "l3"
               [] n = <<1, shop>> -> "l2"
               [] n = <<2, shop>> -> "l1"
               [] OTHER -> "l3"

Names == {<<0, dflt>>, <<1, dflt>>, <<0, shop>>, <<1, shop>>, <<2, shop>>,
          <<0, volume>>, <<1, volume>>}

OfNames ==
    {APack([n \in S |-> ListOf(n)], policies, Empty) : S \in SUBSET Names,
        policies \in {Empty, [n \in Names |-> IF n[1] = 0 THEN "p1" ELSE "f2"]}}

OfLists ==
    {APack((<<0, dflt>> :> l) @@ (<<0, shop>> :> k), Empty, data) :
        l, k \in DOMAIN MCLists,
        data \in {Empty, [text |-> <<30>>, conf |-> TRUE] :> "d1"}}

Two == (<<0, dflt>> :> "l1") @@ (<<1, shop>> :> "l2")

DataNames == {[text |-> <<30>>, conf |-> FALSE], [text |-> <<30>>, conf |-> TRUE],
              [text |-> <<40>>, conf |-> FALSE], [text |-> <<99>>, conf |-> FALSE],
              RuleFile(0, 12)}

OfData == {APack(Two, policies, n :> "d1") : n \in DataNames,
              policies \in {Empty, <<0, dflt>> :> "p1",
                            (<<0, shop>> :> "p1") @@ (<<1, shop>> :> "f2")}}

\* Refused by ParsePack, and a profile whose name is no directory.
Odd == {NoPack, APack((<<0, dflt>> :> "l1") @@ (<<0, bad>> :> "l1"), Empty, Empty)}

MCPackSet == OfNames \cup OfLists \cup OfData \cup Odd
=============================================================================
