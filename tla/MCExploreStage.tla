------------------------------ MODULE MCExploreStage ------------------------------
(* Two lanes of one source and two repositories: `tool' is found by its       *)
(* description and by two of its files, `data' looks like a data set until a  *)
(* file of it is found; the second query is the longer one.                   *)
EXTENDS ExploreStage

CONSTANTS q1, q2, tool, data

RepositoryLane == [source |-> "github", channel |-> "repository_search"]
CodeLane == [source |-> "github", channel |-> "code_search"]

MCWords == [q \in {q1, q2} |-> IF q = q1 THEN {"solver"} ELSE {"mesh", "solver"}]
MCQueryLength == [q \in {q1, q2} |-> IF q = q1 THEN 6 ELSE 11]
MCLanes == {RepositoryLane, CodeLane}
MCPlans == {<<>>, <<q1, q2>>}

About(r) == IF r = tool THEN {"solver"} ELSE {"dataset"}

Profile(q, r) ==
  [repository |-> r,
   signal |-> [title |-> {}, description |-> About(r), topics |-> {"mesh"},
               language |-> r = tool, stars |-> 2, query |-> q, path |-> "",
               text |-> [words |-> About(r), path |-> "", length |-> 6]]]

File(q, r, path, length) ==
  [repository |-> r,
   signal |-> [title |-> {}, description |-> {}, topics |-> {}, language |-> FALSE,
               stars |-> 1, query |-> q, path |-> path,
               text |-> [words |-> {}, path |-> path, length |-> length]]]

Usage(q, r) == File(q, r, "docs/use.md", 11)
Code(q, r) == File(q, r, "mesh.py", 7)

MCListings ==
  [x \in MCLanes \X {q1, q2} |->
     IF x[1] = CodeLane
     THEN {<<Usage(x[2], data), Code(x[2], tool), Usage(x[2], tool)>>}
     ELSE IF x[2] = q1 THEN {<<>>, <<Profile(q1, tool)>>} ELSE {<<Profile(q2, data)>>}]

MCItems == UNION {{f[i] : i \in DOMAIN f} : f \in UNION {MCListings[x] : x \in DOMAIN MCListings}}

MCCatalogPools ==
  [q \in {q1, q2} |->
     IF q = q2 THEN {NoPool}
     ELSE {NoPool,
           [r \in {data} |->
              [signal |-> Profile(q, data).signal, queries |-> {q},
               ranks |-> {<<"catalog", 1>>}, hits |-> 1, origins |-> {"catalog"},
               evidence |-> {[query |-> q, location |-> "metadata", path |-> "",
                              alignment |-> 20, channel |-> "catalog",
                              origin |-> "catalog", rank |-> 0]}]]}]
=============================================================================
