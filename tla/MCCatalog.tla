--------------------------------- MODULE MCCatalog --------------------------------
(* Two ingestions that find `tool' and, at another query, `tool' again or     *)
(* `data'; the profile of `tool' is edited twice at its provider, so that     *)
(* concurrent writers may leave a row that has columns of two versions.       *)
EXTENDS Catalog

CONSTANTS q1, q2, tool, data, i1, i2

Described(description, topics) ==
  [title |-> {}, description |-> description, topics |-> topics, language |-> TRUE, stars |-> 1]

MCWords == [q \in {q1, q2} |-> IF q = q1 THEN {"solver"} ELSE {"mesh", "solver"}]
MCQueryLength == [q \in {q1, q2} |-> IF q = q1 THEN 6 ELSE 11]

MCProfiles ==
  [r \in {tool, data} |->
     IF r = tool
     THEN <<Described({"solver"}, {}), Described({"mesh"}, {}), Described({"solver"}, {"mesh"})>>
     ELSE <<Described({}, {})>>]

Find(r, q, n) == [repository |-> r, query |-> q, rank |-> n]
\* Two queries may find one repository, and so may a query that is asked again.
MCFinds == {<<Find(tool, q1, 2), Find(tool, q2, 1)>>, <<Find(tool, q1, 1), Find(data, q2, 1)>>}

RetriedFinds == {<<Find(tool, q1, 1)>>, <<Find(tool, q1, 1), Find(tool, q1, 1)>>}
=============================================================================
