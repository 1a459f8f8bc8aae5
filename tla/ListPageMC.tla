------------------------------ MODULE ListPageMC ------------------------------
(***************************************************************************)
(* Small instances of ListPage for TLC.                                    *)
(***************************************************************************)
EXTENDS ListPage

MCTrim == [t \in Texts |-> IF t = "gin " THEN "gin" ELSE t]

\* The name filter leaves out the last row, the type filter the first.
MCMatching ==
  [name \in {Trim[t] : t \in Texts} |->
     [type \in Types |->
        {r \in Rows : (name = "gin" => r # Max(Rows)) /\ (type = "vermouth" => r # 1)}]]

ByTime == <<[field |-> "created_at", sort |-> "desc"]>>
ByName == <<[field |-> "name", sort |-> "asc"]>>

MCSortModels == {ByTime, ByName}

MCDefault == <<"", "any", ByTime, 1>>

\* One field changed at a time.
MCSearches ==
  {<<"", "any", ByTime, 1>>, <<"gin ", "any", ByTime, 1>>, <<"", "vermouth", ByTime, 1>>,
   <<"", "any", ByName, 1>>, <<"", "any", ByTime, 2>>}

=============================================================================
