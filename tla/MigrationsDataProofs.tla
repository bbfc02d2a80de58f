------------------------ MODULE MigrationsDataProofs ------------------------
(***************************************************************************)
(* Theorems about Migrations, continued: for every set of tenants and      *)
(* whichever role migrates, the schema is the one the applied revisions    *)
(* define, and what they fill in stays consistent.                         *)
(***************************************************************************)
EXTENDS MigrationsProofs

(***************************************************************************)
(* The tree of revisions: the place of a revision in its own branch, and   *)
(* in each order a command can take.                                       *)
(***************************************************************************)
Depth ==
  [r \in Revision |->
     CASE r = "0001" -> 1 [] r = "0002" -> 2 [] r = "0003" -> 3
       [] r = "0004" -> 4 [] r = "0005" -> 5 [] r = "A06" -> 6
       [] r = "A07" -> 7 [] r = "A08" -> 8 [] r = "A09" -> 9
       [] r = "A10" -> 10 [] r = "A11" -> 11 [] r = "A12" -> 12
       [] r = "B06" -> 6 [] r = "B07" -> 7 [] r = "B08" -> 8
       [] r = "B09" -> 9]
LineA == Trunk \o BranchA
LineB == Trunk \o BranchB

LEMMA LineASteps ==
  /\ DOMAIN LineA = 1 .. 12
  /\ LineA[1] = "0001" /\ LineA[2] = "0002" /\ LineA[3] = "0003"
  /\ LineA[4] = "0004" /\ LineA[5] = "0005" /\ LineA[6] = "A06"
  /\ LineA[7] = "A07" /\ LineA[8] = "A08" /\ LineA[9] = "A09"
  /\ LineA[10] = "A10" /\ LineA[11] = "A11" /\ LineA[12] = "A12"
BY DEF LineA, Trunk, BranchA

LEMMA LineBSteps ==
  /\ DOMAIN LineB = 1 .. 9
  /\ LineB[1] = "0001" /\ LineB[2] = "0002" /\ LineB[3] = "0003"
  /\ LineB[4] = "0004" /\ LineB[5] = "0005" /\ LineB[6] = "B06"
  /\ LineB[7] = "B07" /\ LineB[8] = "B08" /\ LineB[9] = "B09"
BY DEF LineB, Trunk, BranchB

LEMMA ABSteps ==
  /\ DOMAIN AThenB = 1 .. 16
  /\ \A i \in 1 .. 12 : AThenB[i] = LineA[i]
  /\ AThenB[13] = "B06" /\ AThenB[14] = "B07" /\ AThenB[15] = "B08" /\ AThenB[16] = "B09"
BY DEF AThenB, LineA, Trunk, BranchA, BranchB

LEMMA BASteps ==
  /\ DOMAIN BThenA = 1 .. 16
  /\ \A i \in 1 .. 9 : BThenA[i] = LineB[i]
  /\ BThenA[10] = "A06" /\ BThenA[11] = "A07" /\ BThenA[12] = "A08" /\ BThenA[13] = "A09"
  /\ BThenA[14] = "A10" /\ BThenA[15] = "A11" /\ BThenA[16] = "A12"
BY DEF BThenA, LineB, Trunk, BranchA, BranchB

LEMMA NewestSteps ==
  /\ DOMAIN Newest = 1 .. 16
  /\ \A i \in 1 .. 16 : Newest[i] = AThenB[17 - i]
<1>1. Len(AThenB) = 16
  BY DEF AThenB, Trunk, BranchA, BranchB
<1>. QED  BY <1>1 DEF Newest, Reverse

LEMMA DepthOf ==
  /\ \A i \in 1 .. 12 : LineA[i] \in Revision /\ Depth[LineA[i]] = i
  /\ \A i \in 1 .. 9 : LineB[i] \in Revision /\ Depth[LineB[i]] = i
<1>1. ASSUME NEW i \in 1 .. 12 PROVE LineA[i] \in Revision /\ Depth[LineA[i]] = i
  <2>1. \/ i = 1 \/ i = 2 \/ i = 3 \/ i = 4 \/ i = 5 \/ i = 6 \/ i = 7 \/ i = 8 \/ i = 9
        \/ i = 10 \/ i = 11 \/ i = 12
    OBVIOUS
  <2>. QED  BY <2>1, LineASteps, RevisionSet DEF Depth
<1>2. ASSUME NEW i \in 1 .. 9 PROVE LineB[i] \in Revision /\ Depth[LineB[i]] = i
  <2>1. i = 1 \/ i = 2 \/ i = 3 \/ i = 4 \/ i = 5 \/ i = 6 \/ i = 7 \/ i = 8 \/ i = 9
    OBVIOUS
  <2>. QED  BY <2>1, LineBSteps, RevisionSet DEF Depth
<1>. QED  BY <1>1, <1>2

\* Below, by places on a line.
LEMMA BelowPlaces ==
  ASSUME NEW x \in Revision, NEW r \in Revision
  PROVE  x \in Below[r] <=>
           \/ \E i, j \in 1 .. 12 : i < j /\ LineA[i] = x /\ LineA[j] = r
           \/ \E i, j \in 1 .. 9 : i < j /\ LineB[i] = x /\ LineB[j] = r
<1>1. x \in Below[r] <=> \E line \in {LineA, LineB} :
                           \E i, j \in DOMAIN line : i < j /\ line[i] = x /\ line[j] = r
  BY DEF Below, LineA, LineB
<1>2. DOMAIN LineA = 1 .. 12 /\ DOMAIN LineB = 1 .. 9
  BY LineASteps, LineBSteps
<1>. HIDE DEF LineA, LineB
<1>. QED  BY <1>1, <1>2

\* The lines agree on the trunk and nowhere else.
LEMMA Trunks ==
  /\ \A i \in 1 .. 5 : LineA[i] = LineB[i]
  /\ \A i \in 6 .. 12, j \in 6 .. 9 : LineA[i] # LineB[j]
<1>1. ASSUME NEW i \in 1 .. 5 PROVE LineA[i] = LineB[i]
  <2>1. i = 1 \/ i = 2 \/ i = 3 \/ i = 4 \/ i = 5
    OBVIOUS
  <2>. QED  BY <2>1, LineASteps, LineBSteps
<1>2. ASSUME NEW i \in 6 .. 12, NEW j \in 6 .. 9 PROVE LineA[i] # LineB[j]
  <2>1. i = 6 \/ i = 7 \/ i = 8 \/ i = 9 \/ i = 10 \/ i = 11 \/ i = 12
    OBVIOUS
  <2>2. j = 6 \/ j = 7 \/ j = 8 \/ j = 9
    OBVIOUS
  <2>. QED  BY <2>1, <2>2, LineASteps, LineBSteps
<1>. QED  BY <1>1, <1>2

LEMMA BelowBelow ==
  ASSUME NEW x \in Revision, NEW y \in Below[x], NEW z \in Below[y]
  PROVE  z \in Below[x]
<1>1. y \in Revision /\ z \in Revision
  BY DEF Below
<1>2. CASE \E i, j \in 1 .. 12 : i < j /\ LineA[i] = y /\ LineA[j] = x
  <2>1. PICK i \in 1 .. 12, j \in 1 .. 12 : i < j /\ LineA[i] = y /\ LineA[j] = x
    BY <1>2
  <2>2. CASE \E k, l \in 1 .. 12 : k < l /\ LineA[k] = z /\ LineA[l] = y
    <3>1. PICK k \in 1 .. 12, l \in 1 .. 12 : k < l /\ LineA[k] = z /\ LineA[l] = y
      BY <2>2
    <3>2. l = i
      BY <2>1, <3>1, DepthOf
    <3>. QED  BY <1>1, <2>1, <3>1, <3>2, BelowPlaces
  <2>3. CASE \E k, l \in 1 .. 9 : k < l /\ LineB[k] = z /\ LineB[l] = y
    <3>1. PICK k \in 1 .. 9, l \in 1 .. 9 : k < l /\ LineB[k] = z /\ LineB[l] = y
      BY <2>3
    <3>2. l = i
      BY <2>1, <3>1, DepthOf
    <3>3. l <= 5
      BY <2>1, <3>1, <3>2, Trunks
    <3>4. LineA[k] = z /\ k < j /\ k \in 1 .. 12
      BY <2>1, <3>1, <3>2, <3>3, Trunks
    <3>. QED  BY <1>1, <2>1, <3>4, BelowPlaces
  <2>. QED  BY <1>1, <2>2, <2>3, BelowPlaces
<1>3. CASE \E i, j \in 1 .. 9 : i < j /\ LineB[i] = y /\ LineB[j] = x
  <2>1. PICK i \in 1 .. 9, j \in 1 .. 9 : i < j /\ LineB[i] = y /\ LineB[j] = x
    BY <1>3
  <2>2. CASE \E k, l \in 1 .. 9 : k < l /\ LineB[k] = z /\ LineB[l] = y
    <3>1. PICK k \in 1 .. 9, l \in 1 .. 9 : k < l /\ LineB[k] = z /\ LineB[l] = y
      BY <2>2
    <3>2. l = i
      BY <2>1, <3>1, DepthOf
    <3>. QED  BY <1>1, <2>1, <3>1, <3>2, BelowPlaces
  <2>3. CASE \E k, l \in 1 .. 12 : k < l /\ LineA[k] = z /\ LineA[l] = y
    <3>1. PICK k \in 1 .. 12, l \in 1 .. 12 : k < l /\ LineA[k] = z /\ LineA[l] = y
      BY <2>3
    <3>2. l = i
      BY <2>1, <3>1, DepthOf
    <3>3. l <= 5
      BY <2>1, <3>1, <3>2, Trunks
    <3>4. LineB[k] = z /\ k < j /\ k \in 1 .. 9
      BY <2>1, <3>1, <3>2, <3>3, Trunks
    <3>. QED  BY <1>1, <2>1, <3>4, BelowPlaces
  <2>. QED  BY <1>1, <2>2, <2>3, BelowPlaces
<1>. QED  BY <1>1, <1>2, <1>3, BelowPlaces

LEMMA NotBelowItself ==
  ASSUME NEW r \in Revision
  PROVE  r \notin Below[r]
<1>1. ~ \E i, j \in 1 .. 12 : i < j /\ LineA[i] = r /\ LineA[j] = r
  BY DepthOf
<1>2. ~ \E i, j \in 1 .. 9 : i < j /\ LineB[i] = r /\ LineB[j] = r
  BY DepthOf
<1>. QED  BY <1>1, <1>2, BelowPlaces

(***************************************************************************)
(* The orders respect the tree.                                            *)
(***************************************************************************)
\* Whatever is below the revision in place j of an order of upgrades stands
\* before it.
LEMMA UpInOrder ==
  ASSUME NEW order \in {"AB", "BA"}, NEW j \in 1 .. 16, NEW x \in Below[Line[order][j]],
         Line[order][j] \in Revision
  PROVE  \E i \in 1 .. j - 1 : Line[order][i] = x
<1>0. x \in Revision
  BY DEF Below
<1>1. CASE order = "AB"
  <2>1. Line[order] = AThenB
    BY <1>1 DEF Line
  <2>2. CASE j \in 1 .. 12
    <3>1. AThenB[j] = LineA[j]
      BY <2>2, ABSteps
    <3>2. CASE \E i, k \in 1 .. 12 : i < k /\ LineA[i] = x /\ LineA[k] = LineA[j]
      BY <2>1, <2>2, <3>2, DepthOf, ABSteps
    <3>3. CASE \E i, k \in 1 .. 9 : i < k /\ LineB[i] = x /\ LineB[k] = LineA[j]
      <4>1. PICK i \in 1 .. 9, k \in 1 .. 9 : i < k /\ LineB[i] = x /\ LineB[k] = LineA[j]
        BY <3>3
      <4>2. k = j
        BY <2>2, <4>1, DepthOf
      <4>3. j <= 5
        BY <2>2, <4>1, <4>2, Trunks
      <4>4. AThenB[i] = x
        BY <4>1, <4>2, <4>3, Trunks, ABSteps
      <4>. QED  BY <2>1, <4>1, <4>2, <4>4
    <3>. QED  BY <1>0, <2>1, <3>1, <3>2, <3>3, BelowPlaces
  <2>3. CASE j \in 13 .. 16
    <3>1. AThenB[j] = LineB[j - 7]
      BY <2>3, ABSteps, LineBSteps
    <3>2. ~ \E i, k \in 1 .. 12 : i < k /\ LineA[i] = x /\ LineA[k] = AThenB[j]
      BY <2>3, <3>1, DepthOf, Trunks
    <3>3. PICK i \in 1 .. 9, k \in 1 .. 9 : i < k /\ LineB[i] = x /\ LineB[k] = AThenB[j]
      BY <1>0, <2>1, <3>2, BelowPlaces
    <3>4. k = j - 7
      BY <2>3, <3>1, <3>3, DepthOf
    <3>5. CASE i <= 5
      BY <2>1, <2>3, <3>3, <3>5, Trunks, ABSteps
    <3>6. CASE i >= 6
      <4>1. AThenB[i + 7] = LineB[i]
        BY <3>3, <3>6, ABSteps, LineBSteps
      <4>. QED  BY <2>1, <2>3, <3>3, <3>4, <3>6, <4>1
    <3>. QED  BY <3>3, <3>5, <3>6
  <2>. QED  BY <2>2, <2>3
<1>2. CASE order = "BA"
  <2>1. Line[order] = BThenA
    BY <1>2 DEF Line
  <2>2. CASE j \in 1 .. 9
    <3>1. BThenA[j] = LineB[j]
      BY <2>2, BASteps
    <3>2. CASE \E i, k \in 1 .. 9 : i < k /\ LineB[i] = x /\ LineB[k] = LineB[j]
      BY <2>1, <2>2, <3>2, DepthOf, BASteps
    <3>3. CASE \E i, k \in 1 .. 12 : i < k /\ LineA[i] = x /\ LineA[k] = LineB[j]
      <4>1. PICK i \in 1 .. 12, k \in 1 .. 12 : i < k /\ LineA[i] = x /\ LineA[k] = LineB[j]
        BY <3>3
      <4>2. k = j
        BY <2>2, <4>1, DepthOf
      <4>3. j <= 5
        BY <2>2, <4>1, <4>2, Trunks
      <4>4. BThenA[i] = x
        BY <4>1, <4>2, <4>3, Trunks, BASteps
      <4>. QED  BY <2>1, <4>1, <4>2, <4>4
    <3>. QED  BY <1>0, <2>1, <3>1, <3>2, <3>3, BelowPlaces
  <2>3. CASE j \in 10 .. 16
    <3>1. BThenA[j] = LineA[j - 4]
      BY <2>3, BASteps, LineASteps
    <3>2. ~ \E i, k \in 1 .. 9 : i < k /\ LineB[i] = x /\ LineB[k] = BThenA[j]
      BY <2>3, <3>1, DepthOf, Trunks
    <3>3. PICK i \in 1 .. 12, k \in 1 .. 12 : i < k /\ LineA[i] = x /\ LineA[k] = BThenA[j]
      BY <1>0, <2>1, <3>2, BelowPlaces
    <3>4. k = j - 4
      BY <2>3, <3>1, <3>3, DepthOf
    <3>5. CASE i <= 5
      BY <2>1, <2>3, <3>3, <3>5, Trunks, BASteps
    <3>6. CASE i >= 6
      <4>1. BThenA[i + 4] = LineA[i]
        BY <3>3, <3>6, BASteps, LineASteps
      <4>. QED  BY <2>1, <2>3, <3>3, <3>4, <3>6, <4>1
    <3>. QED  BY <3>3, <3>5, <3>6
  <2>. QED  BY <2>2, <2>3
<1>. QED  BY <1>1, <1>2

\* And the revisions above the one in place j of a downgrade do.
LEMMA DownInOrder ==
  ASSUME NEW j \in 1 .. 16, NEW x \in Revision, Newest[j] \in Below[x]
  PROVE  \E i \in 1 .. j - 1 : Newest[i] = x
<1>1. PICK k \in 1 .. 16 : AThenB[k] = x
  <2>1. \/ \E i \in 1 .. 12 : LineA[i] = x
        \/ \E i \in 6 .. 9 : LineB[i] = x
    BY RevisionSet, LineASteps, LineBSteps
  <2>2. \A i \in 6 .. 9 : AThenB[i + 7] = LineB[i]
    BY ABSteps, LineBSteps
  <2>. QED  BY <2>1, <2>2, ABSteps
<1>2. Line["AB"] = AThenB
  BY DEF Line
<1>3. Newest[j] = AThenB[17 - j] /\ Newest[17 - k] = x
  BY <1>1, NewestSteps
<1>4. PICK i \in 1 .. k - 1 : AThenB[i] = AThenB[17 - j]
  BY <1>1, <1>2, <1>3, UpInOrder
<1>5. i = 17 - j
  <2>1. \A m, n \in 1 .. 16 : AThenB[m] = AThenB[n] => m = n
    <3>1. \A m \in 13 .. 16 : AThenB[m] = LineB[m - 7]
      BY ABSteps, LineBSteps
    <3>2. \A m \in 1 .. 12, n \in 13 .. 16 : AThenB[m] # AThenB[n]
      <4>1. ASSUME NEW m \in 1 .. 12, NEW n \in 13 .. 16, AThenB[m] = AThenB[n]
            PROVE  FALSE
        <5>1. LineA[m] = LineB[n - 7]
          BY <3>1, <4>1, ABSteps
        <5>2. m = n - 7
          BY <5>1, DepthOf
        <5>. QED  BY <5>1, <5>2, Trunks
      <4>. QED  BY <4>1
    <3>3. \A m, n \in 1 .. 12 : AThenB[m] = AThenB[n] => m = n
      BY ABSteps, DepthOf
    <3>4. \A m, n \in 13 .. 16 : AThenB[m] = AThenB[n] => m = n
      BY <3>1, DepthOf
    <3>. QED  BY <3>2, <3>3, <3>4
  <2>. QED  BY <1>4, <2>1
<1>. QED  BY <1>1, <1>3, <1>4, <1>5

(***************************************************************************)
(* What the single revisions create and drop.                              *)
(***************************************************************************)
\* A revision drops what it created, by name or with its table; what it locks
\* are its own tables, and it isolates all that the tenant mixin maps.
OwnFacts(u, d) ==
  /\ d.table = u.table /\ u.locked \subseteq u.table
  /\ \A t \in u.table \cap Isolates : t \in u.locked /\ <<t, "isolation">> \in u.policy
  /\ \A x \in u.column : x[1] \in d.table \/ x \in d.column
  /\ \A x \in u.key : x[1] \in d.table \/ x \in d.key
  /\ \A x \in u.policy : x[1] \in d.table \/ x \in d.policy
  /\ d.column \subseteq u.column /\ d.key \subseteq u.key /\ d.policy \subseteq u.policy

LEMMA Named ==
  /\ Upgrade["0001"] = R0001 /\ Downgrade["0001"] = D0001
  /\ Upgrade["0002"] = R0002 /\ Downgrade["0002"] = D0002
  /\ Upgrade["0003"] = R0003 /\ Downgrade["0003"] = D0003
  /\ Upgrade["0004"] = R0004 /\ Downgrade["0004"] = D0004
  /\ Upgrade["0005"] = R0005 /\ Downgrade["0005"] = D0005
  /\ Upgrade["A06"] = RA06 /\ Downgrade["A06"] = DA06
  /\ Upgrade["A07"] = RA07 /\ Downgrade["A07"] = DA07
  /\ Upgrade["A08"] = RA08 /\ Downgrade["A08"] = DA08
  /\ Upgrade["A09"] = RA09 /\ Downgrade["A09"] = DA09
  /\ Upgrade["A10"] = RA10 /\ Downgrade["A10"] = DA10
  /\ Upgrade["A11"] = RA11 /\ Downgrade["A11"] = DA11
  /\ Upgrade["A12"] = RA12 /\ Downgrade["A12"] = DA12
  /\ Upgrade["B06"] = RB06 /\ Downgrade["B06"] = DB06
  /\ Upgrade["B07"] = RB07 /\ Downgrade["B07"] = DB07
  /\ Upgrade["B08"] = RB08 /\ Downgrade["B08"] = DB08
  /\ Upgrade["B09"] = RB09 /\ Downgrade["B09"] = DB09
BY RevisionSet DEF Upgrade, Downgrade

LEMMA OwnFactsHold ==
  /\ OwnFacts(R0001, D0001) /\ OwnFacts(R0002, D0002)
  /\ OwnFacts(R0003, D0003) /\ OwnFacts(R0004, D0004)
  /\ OwnFacts(R0005, D0005) /\ OwnFacts(RA06, DA06)
  /\ OwnFacts(RA07, DA07) /\ OwnFacts(RA08, DA08)
  /\ OwnFacts(RA09, DA09) /\ OwnFacts(RA10, DA10)
  /\ OwnFacts(RA11, DA11) /\ OwnFacts(RA12, DA12)
  /\ OwnFacts(RB06, DB06) /\ OwnFacts(RB07, DB07)
  /\ OwnFacts(RB08, DB08) /\ OwnFacts(RB09, DB09)
<1>. USE DEF OwnFacts, Nothing, Isolated, Isolation, Columns
<1>1. OwnFacts(R0001, D0001)
  BY DEF R0001, D0001, TenancyTables, OrganizationTables, Isolates
<1>2. OwnFacts(R0002, D0002)
  BY DEF R0002, D0002
<1>3. OwnFacts(R0003, D0003)
  BY DEF R0003, D0003
<1>4. OwnFacts(R0004, D0004)
  BY DEF R0004, D0004
<1>5. OwnFacts(R0005, D0005)
  BY DEF R0005, D0005
<1>6. OwnFacts(RA06, DA06)
  BY DEF RA06, DA06, Isolates
<1>7. OwnFacts(RA07, DA07)
  BY DEF RA07, DA07
<1>8. OwnFacts(RA08, DA08)
  BY DEF RA08, DA08
<1>9. OwnFacts(RA09, DA09)
  BY DEF RA09, DA09, Isolates
<1>10. OwnFacts(RA10, DA10)
  BY DEF RA10, DA10
<1>11. OwnFacts(RA11, DA11)
  BY DEF RA11, DA11
<1>12. OwnFacts(RA12, DA12)
  BY DEF RA12, DA12
<1>13. OwnFacts(RB06, DB06)
  BY DEF RB06, DB06
<1>14. OwnFacts(RB07, DB07)
  BY DEF RB07, DB07
<1>15. OwnFacts(RB08, DB08)
  BY DEF RB08, DB08
<1>16. OwnFacts(RB09, DB09)
  BY DEF RB09, DB09
<1>. QED
  BY <1>1, <1>2, <1>3, <1>4, <1>5, <1>6, <1>7, <1>8, <1>9, <1>10, <1>11, <1>12, <1>13, <1>14, <1>15, <1>16

\* A table has one home, except that each branch has its role tables.
Home(t) ==
  CASE t \in TenancyTables \cup OrganizationTables -> "0001"
    [] t \in {"content_run", "human_task", "material"} -> "0002"
    [] t \in {"workflow_template", "workflow_template_version"} -> "A07"
    [] t = "audit_event" -> "A08"
    [] t \in {"model_provider", "model_definition", "tenant_model_credential"} -> "A09"
    [] t \in {"model_route_policy", "model_route_candidate"} -> "A10"
    [] t \in {"quota_policy", "quota_usage_bucket"} -> "A11"
    [] t = "membership_role" -> "B06"
    [] t \in {"content_export", "content_run_material"} -> "B08"
    [] t = "material_file" -> "B09"

LEMMA AtHome ==
  ASSUME NEW r \in Revision, NEW t \in Upgrade[r].table
  PROVE  IF t \in RoleTables THEN r \in {"A06", "B06"} ELSE r = Home(t)
<1>. USE DEF Home, Nothing, Isolated, TenancyTables, OrganizationTables, RoleTables
<1>1. CASE r = "0001"  BY <1>1, Named DEF R0001
<1>2. CASE r = "0002"  BY <1>2, Named DEF R0002
<1>3. CASE r = "0003"  BY <1>3, Named DEF R0003
<1>4. CASE r = "0004"  BY <1>4, Named DEF R0004
<1>5. CASE r = "0005"  BY <1>5, Named DEF R0005
<1>6. CASE r = "A06"  BY <1>6, Named DEF RA06
<1>7. CASE r = "A07"  BY <1>7, Named DEF RA07
<1>8. CASE r = "A08"  BY <1>8, Named DEF RA08
<1>9. CASE r = "A09"  BY <1>9, Named DEF RA09
<1>10. CASE r = "A10"  BY <1>10, Named DEF RA10
<1>11. CASE r = "A11"  BY <1>11, Named DEF RA11
<1>12. CASE r = "A12"  BY <1>12, Named DEF RA12
<1>13. CASE r = "B06"  BY <1>13, Named DEF RB06
<1>14. CASE r = "B07"  BY <1>14, Named DEF RB07
<1>15. CASE r = "B08"  BY <1>15, Named DEF RB08
<1>16. CASE r = "B09"  BY <1>16, Named DEF RB09
<1>. QED
  BY RevisionSet, <1>1, <1>2, <1>3, <1>4, <1>5, <1>6, <1>7, <1>8, <1>9, <1>10, <1>11,
     <1>12, <1>13, <1>14, <1>15, <1>16

\* The tables of earlier revisions that columns, constraints and policies of a
\* revision are added to, and those revisions.
Ground(s) ==
  CASE s \in {"0003", "A06"} -> {"tenant_membership"}
    [] s \in {"0004", "B07", "B08"} -> {"content_run", "human_task", "material"}
    [] s = "A12" -> RoleTables
    [] OTHER -> {}
GroundOf(s) ==
  CASE s \in {"0003", "A06"} -> "0001"
    [] s \in {"0004", "B07", "B08"} -> "0002"
    [] s = "A12" -> "A06"
    [] OTHER -> s
Rests(c, tables) ==
  /\ \A x \in c.column : x[1] \in c.table \cup tables
  /\ \A x \in c.key : x[1] \in c.table \cup tables
  /\ \A x \in c.policy : x[1] \in c.table \cup tables

LEMMA Grounded ==
  ASSUME NEW s \in Revision
  PROVE  Rests(Upgrade[s], Ground(s))
<1>. USE DEF Rests, Ground, Nothing, Isolated, Isolation, Columns
<1>1. CASE s = "0001"  BY <1>1, Named DEF R0001
<1>2. CASE s = "0002"  BY <1>2, Named DEF R0002
<1>3. CASE s = "0003"  BY <1>3, Named DEF R0003
<1>4. CASE s = "0004"  BY <1>4, Named DEF R0004
<1>5. CASE s = "0005"  BY <1>5, Named DEF R0005
<1>6. CASE s = "A06"  BY <1>6, Named DEF RA06
<1>7. CASE s = "A07"  BY <1>7, Named DEF RA07
<1>8. CASE s = "A08"  BY <1>8, Named DEF RA08
<1>9. CASE s = "A09"  BY <1>9, Named DEF RA09
<1>10. CASE s = "A10"  BY <1>10, Named DEF RA10
<1>11. CASE s = "A11"  BY <1>11, Named DEF RA11
<1>12. CASE s = "A12"  BY <1>12, Named DEF RA12, RoleTables
<1>13. CASE s = "B06"  BY <1>13, Named DEF RB06
<1>14. CASE s = "B07"  BY <1>14, Named DEF RB07, StatusColumns
<1>15. CASE s = "B08"  BY <1>15, Named DEF RB08
<1>16. CASE s = "B09"  BY <1>16, Named DEF RB09
<1>. QED
  BY RevisionSet, <1>1, <1>2, <1>3, <1>4, <1>5, <1>6, <1>7, <1>8, <1>9, <1>10, <1>11,
     <1>12, <1>13, <1>14, <1>15, <1>16

LEMMA OnLine ==
  /\ \A i, j \in 1 .. 12 : i < j => LineA[i] \in Below[LineA[j]]
  /\ \A i, j \in 1 .. 9 : i < j => LineB[i] \in Below[LineB[j]]
BY DepthOf, BelowPlaces

LEMMA SomeBelow ==
  /\ "0001" \in Below["0003"] /\ "0001" \in Below["A06"] /\ "0001" \in Below["A07"]
  /\ "0001" \in Below["A11"] /\ "0001" \in Below["A12"]
  /\ "0002" \in Below["0004"] /\ "0002" \in Below["B07"] /\ "0002" \in Below["B08"]
  /\ "A06" \in Below["A12"] /\ "0001" \in Below["0002"]
<1>1. /\ LineA[1] \in Below[LineA[3]] /\ LineA[1] \in Below[LineA[6]]
      /\ LineA[1] \in Below[LineA[7]] /\ LineA[1] \in Below[LineA[11]]
      /\ LineA[1] \in Below[LineA[12]] /\ LineA[2] \in Below[LineA[4]]
      /\ LineA[6] \in Below[LineA[12]] /\ LineA[1] \in Below[LineA[2]]
      /\ LineB[2] \in Below[LineB[7]] /\ LineB[2] \in Below[LineB[8]]
  BY OnLine
<1>. QED  BY <1>1, LineASteps, LineBSteps

LEMMA GroundBelow ==
  ASSUME NEW s \in Revision, Ground(s) # {}
  PROVE  GroundOf(s) \in Below[s] /\ Ground(s) \subseteq Upgrade[GroundOf(s)].table
<1>1. /\ "tenant_membership" \in Upgrade["0001"].table
      /\ Upgrade["0002"].table = {"content_run", "human_task", "material"}
      /\ Upgrade["A06"].table = RoleTables
  BY Named DEF R0001, R0002, RA06, RoleTables, TenancyTables, Isolated, Nothing
<1>. QED  BY <1>1, SomeBelow DEF Ground, GroundOf

\* Who adds a column or a constraint to a table.
ColumnOf(x) ==
  IF x[2] \in {"is_builtin", "is_default", "data_scope", "role_id"} THEN "A06"
  ELSE IF x[2] \in {"content", "exported_at"} THEN "B08"
  ELSE IF x[1] \in RoleTables THEN "B06" ELSE "B07"
KeyOf(x) ==
  CASE x[2] = "tenant_fk" -> "0004" [] x[2] = "role_fk" -> "A06"
    [] x[2] = "append_only" -> "A08" [] x[2] = "tenant_id_id" -> "B08"
    [] OTHER -> "B07"

LEMMA ColumnHome ==
  ASSUME NEW s \in Revision, NEW x \in Upgrade[s].column
  PROVE  s = ColumnOf(x)
<1>. USE DEF ColumnOf, RoleTables, Nothing, Isolated, Columns
<1>1. CASE s = "0001"  BY <1>1, Named DEF R0001
<1>2. CASE s = "0002"  BY <1>2, Named DEF R0002
<1>3. CASE s = "0003"  BY <1>3, Named DEF R0003
<1>4. CASE s = "0004"  BY <1>4, Named DEF R0004
<1>5. CASE s = "0005"  BY <1>5, Named DEF R0005
<1>6. CASE s = "A06"  BY <1>6, Named DEF RA06
<1>7. CASE s = "A07"  BY <1>7, Named DEF RA07
<1>8. CASE s = "A08"  BY <1>8, Named DEF RA08
<1>9. CASE s = "A09"  BY <1>9, Named DEF RA09
<1>10. CASE s = "A10"  BY <1>10, Named DEF RA10
<1>11. CASE s = "A11"  BY <1>11, Named DEF RA11
<1>12. CASE s = "A12"  BY <1>12, Named DEF RA12
<1>13. CASE s = "B06"  BY <1>13, Named DEF RB06
<1>14. CASE s = "B07"  BY <1>14, Named DEF RB07, StatusColumns
<1>15. CASE s = "B08"  BY <1>15, Named DEF RB08
<1>16. CASE s = "B09"  BY <1>16, Named DEF RB09
<1>. QED
  BY RevisionSet, <1>1, <1>2, <1>3, <1>4, <1>5, <1>6, <1>7, <1>8, <1>9, <1>10, <1>11,
     <1>12, <1>13, <1>14, <1>15, <1>16

LEMMA KeyHome ==
  ASSUME NEW s \in Revision, NEW x \in Upgrade[s].key
  PROVE  s = KeyOf(x)
<1>. USE DEF KeyOf, Nothing, Isolated
<1>1. CASE s = "0001"  BY <1>1, Named DEF R0001
<1>2. CASE s = "0002"  BY <1>2, Named DEF R0002
<1>3. CASE s = "0003"  BY <1>3, Named DEF R0003
<1>4. CASE s = "0004"  BY <1>4, Named DEF R0004
<1>5. CASE s = "0005"  BY <1>5, Named DEF R0005
<1>6. CASE s = "A06"  BY <1>6, Named DEF RA06
<1>7. CASE s = "A07"  BY <1>7, Named DEF RA07
<1>8. CASE s = "A08"  BY <1>8, Named DEF RA08
<1>9. CASE s = "A09"  BY <1>9, Named DEF RA09
<1>10. CASE s = "A10"  BY <1>10, Named DEF RA10
<1>11. CASE s = "A11"  BY <1>11, Named DEF RA11
<1>12. CASE s = "A12"  BY <1>12, Named DEF RA12
<1>13. CASE s = "B06"  BY <1>13, Named DEF RB06
<1>14. CASE s = "B07"  BY <1>14, Named DEF RB07
<1>15. CASE s = "B08"  BY <1>15, Named DEF RB08
<1>16. CASE s = "B09"  BY <1>16, Named DEF RB09
<1>. QED
  BY RevisionSet, <1>1, <1>2, <1>3, <1>4, <1>5, <1>6, <1>7, <1>8, <1>9, <1>10, <1>11,
     <1>12, <1>13, <1>14, <1>15, <1>16

\* A table is isolated by the revision that creates it, the role tables of
\* branch A by its last one.
LEMMA PolicyHome ==
  ASSUME NEW s \in Revision, NEW x \in Upgrade[s].policy
  PROVE  \/ s = "0003" /\ x[2] = "self_lookup"
         \/ s = "A12" /\ x[2] = "isolation" /\ x[1] \in RoleTables
         \/ s \notin {"0003", "A06", "A12"} /\ x[2] = "isolation" /\ x[1] \in Upgrade[s].table
<1>. USE DEF RoleTables, Nothing, Isolated, Isolation
<1>1. CASE s = "0001"  BY <1>1, Named DEF R0001
<1>2. CASE s = "0002"  BY <1>2, Named DEF R0002
<1>3. CASE s = "0003"  BY <1>3, Named DEF R0003
<1>4. CASE s = "0004"  BY <1>4, Named DEF R0004
<1>5. CASE s = "0005"  BY <1>5, Named DEF R0005
<1>6. CASE s = "A06"  BY <1>6, Named DEF RA06
<1>7. CASE s = "A07"  BY <1>7, Named DEF RA07
<1>8. CASE s = "A08"  BY <1>8, Named DEF RA08
<1>9. CASE s = "A09"  BY <1>9, Named DEF RA09
<1>10. CASE s = "A10"  BY <1>10, Named DEF RA10
<1>11. CASE s = "A11"  BY <1>11, Named DEF RA11
<1>12. CASE s = "A12"  BY <1>12, Named DEF RA12
<1>13. CASE s = "B06"  BY <1>13, Named DEF RB06
<1>14. CASE s = "B07"  BY <1>14, Named DEF RB07
<1>15. CASE s = "B08"  BY <1>15, Named DEF RB08
<1>16. CASE s = "B09"  BY <1>16, Named DEF RB09
<1>. QED
  BY RevisionSet, <1>1, <1>2, <1>3, <1>4, <1>5, <1>6, <1>7, <1>8, <1>9, <1>10, <1>11,
     <1>12, <1>13, <1>14, <1>15, <1>16

LEMMA OwnFactsOf ==
  ASSUME NEW r \in Revision
  PROVE  OwnFacts(Upgrade[r], Downgrade[r])
BY RevisionSet, Named, OwnFactsHold

LEMMA DropsPolicy ==
  ASSUME NEW r \in Revision, r \notin {"0003", "A12"}
  PROVE  Downgrade[r].policy = {}
<1>. USE DEF Nothing
<1>1. CASE r = "0001"  BY <1>1, Named DEF D0001
<1>2. CASE r = "0002"  BY <1>2, Named DEF D0002
<1>3. CASE r = "0004"  BY <1>3, Named DEF D0004
<1>4. CASE r = "0005"  BY <1>4, Named DEF D0005
<1>5. CASE r = "A06"  BY <1>5, Named DEF DA06
<1>6. CASE r = "A07"  BY <1>6, Named DEF DA07
<1>7. CASE r = "A08"  BY <1>7, Named DEF DA08
<1>8. CASE r = "A09"  BY <1>8, Named DEF DA09
<1>9. CASE r = "A10"  BY <1>9, Named DEF DA10
<1>10. CASE r = "A11"  BY <1>10, Named DEF DA11
<1>11. CASE r = "B06"  BY <1>11, Named DEF DB06
<1>12. CASE r = "B07"  BY <1>12, Named DEF DB07
<1>13. CASE r = "B08"  BY <1>13, Named DEF DB08
<1>14. CASE r = "B09"  BY <1>14, Named DEF DB09
<1>. QED
  BY RevisionSet, <1>1, <1>2, <1>3, <1>4, <1>5, <1>6, <1>7, <1>8, <1>9, <1>10, <1>11,
     <1>12, <1>13, <1>14

\* No revision drops by name what another has created, except that A12 and B06
\* isolate the same role tables.
LEMMA DropsOwn ==
  ASSUME NEW r \in Revision, NEW s \in Revision, r # s
  PROVE  /\ Downgrade[r].column \cap Upgrade[s].column = {}
         /\ Downgrade[r].key \cap Upgrade[s].key = {}
         /\ Downgrade[r].policy \cap Upgrade[s].policy # {} => r = "A12" /\ s = "B06"
<1>1. /\ Downgrade[r].column \subseteq Upgrade[r].column
      /\ Downgrade[r].key \subseteq Upgrade[r].key
      /\ Downgrade[r].policy \subseteq Upgrade[r].policy
  BY OwnFactsOf DEF OwnFacts
<1>2. Downgrade[r].column \cap Upgrade[s].column = {}
  BY <1>1, ColumnHome
<1>3. Downgrade[r].key \cap Upgrade[s].key = {}
  BY <1>1, KeyHome
<1>4. ASSUME NEW x \in Downgrade[r].policy, x \in Upgrade[s].policy
      PROVE  r = "A12" /\ s = "B06"
  <2>1. r \in {"0003", "A12"}
    BY DropsPolicy
  <2>2. x \in Upgrade[r].policy
    BY <1>1
  <2>3. r = "A12" /\ x[2] = "isolation" /\ x[1] \in RoleTables
    BY <1>4, <2>1, <2>2, PolicyHome
  <2>4. x[1] \in Upgrade[s].table /\ s # "A06"
    BY <1>4, <2>3, PolicyHome
  <2>. QED  BY <2>3, <2>4, AtHome
<1>. QED  BY <1>2, <1>3, <1>4

(***************************************************************************)
(* What a fill and a forget leave of a database.                           *)
(***************************************************************************)
SameTables(d, e) ==
  /\ HasShape(e) /\ e.applied = d.applied
  /\ e.schema.table = d.schema.table /\ e.schema.column = d.schema.column
  /\ e.schema.key = d.schema.key /\ e.schema.policy = d.schema.policy
SameTenants(d, e) == e.tenants = d.tenants /\ e.active = d.active
SameRoles(d, e) == e.role = d.role /\ e.bound = d.bound

LockedAs(d, x) == [d EXCEPT !.schema.locked = x]
LEMMA Locking ==
  ASSUME NEW d, HasShape(d), NEW x
  PROVE  LET e == LockedAs(d, x)
         IN /\ SameTables(d, e) /\ SameTenants(d, e) /\ SameRoles(d, e) /\ e.run = d.run
            /\ e.schema.locked = x
<1>. DEFINE e == [d EXCEPT !.schema.locked = x]
            s == [d.schema EXCEPT !.locked = x]
<1>1. /\ IsSchema(s) /\ s.table = d.schema.table /\ s.column = d.schema.column
      /\ s.key = d.schema.key /\ s.policy = d.schema.policy /\ s.locked = x
  BY DEF HasShape, IsSchema
<1>2. e = [d EXCEPT !.schema = s]
  BY DEF HasShape
<1>. HIDE DEF s, e
<1>3. /\ e = [schema |-> s, applied |-> d.applied, tenants |-> d.tenants, active |-> d.active,
              bound |-> d.bound, role |-> d.role, run |-> d.run]
      /\ d.applied \subseteq Revision
  BY <1>2 DEF HasShape
<1>4. HasShape(e) /\ e.applied = d.applied /\ e.schema = s
  BY <1>1, <1>3 DEF HasShape
<1>5. SameTables(d, e)
  BY <1>1, <1>4 DEF SameTables
<1>6. SameTenants(d, e) /\ SameRoles(d, e) /\ e.run = d.run
  BY <1>3 DEF SameTenants, SameRoles
<1>. QED  BY <1>1, <1>4, <1>5, <1>6 DEF e, LockedAs

\* Two databases that differ at most in what is locked.
SameButLocked(d, e) ==
  SameTables(d, e) /\ SameTenants(d, e) /\ SameRoles(d, e) /\ e.run = d.run

LEMMA SameButLockedTrans ==
  ASSUME NEW d, NEW e, NEW f, SameButLocked(d, e), SameButLocked(e, f)
  PROVE  SameButLocked(d, f)
BY DEF SameButLocked, SameTables, SameTenants, SameRoles

LEMMA Locks ==
  ASSUME NEW d, HasShape(d), NEW tables
  PROVE  /\ SameButLocked(d, Relaxed(d, tables))
         /\ Relaxed(d, tables).schema.locked = d.schema.locked \ tables
         /\ SameButLocked(d, Restored(d, tables))
         /\ Restored(d, tables).schema.locked = d.schema.locked \cup tables
<1>1. /\ Relaxed(d, tables) = LockedAs(d, d.schema.locked \ tables)
      /\ Restored(d, tables) = LockedAs(d, d.schema.locked \cup tables)
  BY DEF Relaxed, Restored, LockedAs
<1>. QED  BY <1>1, Locking DEF SameButLocked

\* Row security is off for a while: what was locked is locked again.
LEMMA OffAndOn ==
  ASSUME NEW d, HasShape(d), NEW tables
  PROVE  LET e == Restored(Relaxed(d, tables), tables)
         IN SameButLocked(d, e) /\ e.schema.locked = d.schema.locked \cup tables
<1>. DEFINE f == Relaxed(d, tables)
            e == Restored(f, tables)
<1>1. SameButLocked(d, f) /\ f.schema.locked = d.schema.locked \ tables /\ HasShape(f)
  BY Locks DEF SameButLocked, SameTables
<1>. HIDE DEF f
<1>2. SameButLocked(f, e) /\ e.schema.locked = f.schema.locked \cup tables
  BY <1>1, Locks
<1>. HIDE DEF e
<1>3. SameButLocked(d, e) /\ e.schema.locked = d.schema.locked \cup tables
  BY <1>1, <1>2, SameButLockedTrans
<1>. QED  BY <1>3 DEF e, f

SameSchemas(d, e) == SameTables(d, e) /\ e.schema = d.schema

WithRole(d, x) == [d EXCEPT !.role = x]
WithBound(d, x) == [d EXCEPT !.bound = x]
WithRun(d, x) == [d EXCEPT !.run = x]
WithTenants(d, x) == [d EXCEPT !.tenants = x]
WithActive(d, x) == [d EXCEPT !.active = x]

LEMMA RoleRows ==
  ASSUME NEW d, HasShape(d), NEW x
  PROVE  LET e == WithRole(d, x)
         IN SameSchemas(d, e) /\ SameTenants(d, e) /\ e.role = x /\ e.bound = d.bound
            /\ e.run = d.run
BY DEF WithRole, HasShape, SameSchemas, SameTables, SameTenants

LEMMA BoundRows ==
  ASSUME NEW d, HasShape(d), NEW x
  PROVE  LET e == WithBound(d, x)
         IN SameSchemas(d, e) /\ SameTenants(d, e) /\ e.role = d.role /\ e.bound = x
            /\ e.run = d.run
BY DEF WithBound, HasShape, SameSchemas, SameTables, SameTenants

LEMMA RunRows ==
  ASSUME NEW d, HasShape(d), NEW x
  PROVE  LET e == WithRun(d, x)
         IN SameSchemas(d, e) /\ SameTenants(d, e) /\ SameRoles(d, e) /\ e.run = x
BY DEF WithRun, HasShape, SameSchemas, SameTables, SameTenants, SameRoles

LEMMA TenantRows ==
  ASSUME NEW d, HasShape(d), NEW x
  PROVE  LET e == WithTenants(d, x)
         IN SameSchemas(d, e) /\ e.tenants = x /\ e.active = d.active /\ SameRoles(d, e)
            /\ e.run = d.run
BY DEF WithTenants, HasShape, SameSchemas, SameTables, SameRoles

LEMMA ActiveRows ==
  ASSUME NEW d, HasShape(d), NEW x
  PROVE  LET e == WithActive(d, x)
         IN SameSchemas(d, e) /\ e.tenants = d.tenants /\ e.active = x /\ SameRoles(d, e)
            /\ e.run = d.run
BY DEF WithActive, HasShape, SameSchemas, SameTables, SameRoles

(***************************************************************************)
(* The fills.                                                              *)
(***************************************************************************)
FirstSeed(seen) == (seen \X {"admin"} \X {FALSE}) \cup (seen \X {"editor"} \X {TRUE})

LEMMA FillingA06 ==
  ASSUME NEW d, HasShape(d)
  PROVE  LET e == FillA06(d)
         IN /\ SameSchemas(d, e) /\ SameTenants(d, e) /\ e.run = d.run
            /\ \E seen \in {{}, d.tenants} : e.role = Seeded(d.role, FirstSeed(seen))
            /\ e.bound \in {d.bound, d.bound \cup (d.active \cap WithAdmin(e))}
<1>. DEFINE seen == IF Visible(d, "tenant") THEN d.tenants ELSE {}
            rows == Seeded(d.role, FirstSeed(seen))
            seeded == WithRole(d, rows)
            bound == seeded.bound \cup (d.active \cap WithAdmin(seeded))
            e == WithBound(seeded, bound)
<1>1. FillA06(d) = seeded \/ FillA06(d) = e
  BY DEF FillA06, FirstSeed, WithRole, WithBound
<1>2. /\ SameSchemas(d, seeded) /\ SameTenants(d, seeded) /\ seeded.run = d.run
      /\ seeded.role = rows /\ seeded.bound = d.bound
  <2>. HIDE DEF rows
  <2>. QED  BY RoleRows
<1>3. seen \in {{}, d.tenants}
  OBVIOUS
<1>. HIDE DEF seeded, seen
<1>4. /\ SameSchemas(seeded, e) /\ SameTenants(seeded, e) /\ e.run = seeded.run
      /\ e.role = seeded.role /\ e.bound = bound
  <2>. HIDE DEF bound
  <2>. QED  BY <1>2, BoundRows DEF SameSchemas, SameTables
<1>5. WithAdmin(e) = WithAdmin(seeded)
  BY <1>4 DEF WithAdmin
<1>. HIDE DEF e
<1>6. SameSchemas(d, e) /\ SameTenants(d, e)
  BY <1>2, <1>4 DEF SameSchemas, SameTables, SameTenants
<1>. QED  BY <1>1, <1>2, <1>3, <1>4, <1>5, <1>6

\* Row security is on again after the seeds of 0007 and 0011.
LEMMA FillingA07 ==
  ASSUME NEW d, HasShape(d)
  PROVE  /\ SameButLocked(d, FillA07(d))
         /\ FillA07(d).schema.locked =
              d.schema.locked \cup {"tenant", "workflow_template", "workflow_template_version"}
BY OffAndOn DEF FillA07

LEMMA FillingA11 ==
  ASSUME NEW d, HasShape(d)
  PROVE  /\ SameButLocked(d, FillA11(d))
         /\ FillA11(d).schema.locked = d.schema.locked \cup {"tenant", "quota_policy"}
BY OffAndOn DEF FillA11

LEMMA FillingA12 ==
  ASSUME NEW d, HasShape(d)
  PROVE  LET e == FillA12(d)
         IN /\ SameTables(d, e) /\ SameTenants(d, e) /\ e.run = d.run
            /\ d.tenants = {} =>
                 /\ e.role = d.role
                 /\ e.schema.locked = d.schema.locked \cup {"tenant", "tenant_membership"}
            /\ d.tenants # {} =>
                 /\ e.role = Seeded(d.role, RoleSeed(d.tenants))
                 /\ e.schema.locked =
                      d.schema.locked \cup {"tenant", "tenant_membership"} \cup RoleTables
            /\ \E more \in {{}, WithAdmin(e) \cap d.tenants} : e.bound = d.bound \cup more
<1>. DEFINE open == Relaxed(d, {"tenant"})
            listed == Restored(open, {"tenant"})
            unlocked == Restored(Relaxed(listed, RoleTables), RoleTables)
            rows == Seeded(unlocked.role, RoleSeed(open.tenants))
            roles == WithRole(unlocked, rows)
            seeded == IF open.tenants = {} THEN listed ELSE roles
            relaxed == Relaxed(seeded, {"tenant_membership"})
            rebound == IF Visible(relaxed, "role") THEN WithAdmin(relaxed) \cap d.tenants
                                                   ELSE {}
            now == relaxed.bound \cup rebound
            bound == WithBound(relaxed, now)
            e == Restored(bound, {"tenant_membership"})
<1>1. FillA12(d) = e
  BY Zenon DEF FillA12, WithRole, WithBound
<1>2. open.tenants = d.tenants
  BY Locks DEF SameButLocked, SameTenants
<1>3. SameButLocked(d, listed) /\ listed.schema.locked = d.schema.locked \cup {"tenant"}
  BY OffAndOn
<1>. HIDE DEF open, listed
<1>4. /\ SameButLocked(listed, unlocked)
      /\ unlocked.schema.locked = listed.schema.locked \cup RoleTables
  BY <1>3, OffAndOn DEF SameButLocked, SameTables
<1>. HIDE DEF unlocked
<1>5. /\ SameSchemas(unlocked, roles) /\ SameTenants(unlocked, roles) /\ roles.role = rows
      /\ roles.bound = unlocked.bound /\ roles.run = unlocked.run
  <2>. HIDE DEF rows
  <2>. QED  BY <1>4, RoleRows DEF SameButLocked, SameTables
<1>6. unlocked.role = d.role
  BY <1>3, <1>4 DEF SameButLocked, SameRoles
<1>7. rows = Seeded(d.role, RoleSeed(d.tenants))
  BY <1>2, <1>6
<1>. HIDE DEF rows, roles
<1>8. /\ SameTables(d, seeded) /\ SameTenants(d, seeded) /\ seeded.run = d.run
      /\ seeded.bound = d.bound
      /\ d.tenants = {} =>
           seeded.role = d.role /\ seeded.schema.locked = d.schema.locked \cup {"tenant"}
      /\ d.tenants # {} =>
           /\ seeded.role = rows
           /\ seeded.schema.locked = d.schema.locked \cup {"tenant"} \cup RoleTables
  <2>1. CASE d.tenants = {}
    <3>1. seeded = listed
      BY <1>2, <2>1
    <3>. QED  BY <1>3, <2>1, <3>1 DEF SameButLocked, SameTables, SameTenants, SameRoles
  <2>2. CASE d.tenants # {}
    <3>1. seeded = roles
      BY <1>2, <2>2
    <3>2. roles.schema.locked = d.schema.locked \cup {"tenant"} \cup RoleTables
      BY <1>3, <1>4, <1>5 DEF SameSchemas
    <3>. QED
      BY <1>3, <1>4, <1>5, <2>2, <3>1, <3>2
         DEF SameButLocked, SameTables, SameSchemas, SameTenants, SameRoles
  <2>. QED  BY <2>1, <2>2
<1>. HIDE DEF seeded
<1>9. /\ SameButLocked(seeded, relaxed)
      /\ relaxed.schema.locked = seeded.schema.locked \ {"tenant_membership"}
  BY <1>8, Locks DEF SameTables
<1>10. rebound \in {{}, WithAdmin(relaxed) \cap d.tenants}
  OBVIOUS
<1>. HIDE DEF relaxed, rebound
<1>11. /\ SameSchemas(relaxed, bound) /\ SameTenants(relaxed, bound)
       /\ bound.role = relaxed.role /\ bound.bound = now /\ bound.run = relaxed.run
  <2>. HIDE DEF now
  <2>. QED  BY <1>9, BoundRows DEF SameButLocked, SameTables
<1>. HIDE DEF bound
<1>12. /\ SameButLocked(bound, e)
       /\ e.schema.locked = bound.schema.locked \cup {"tenant_membership"}
  BY <1>11, Locks DEF SameSchemas, SameTables
<1>. HIDE DEF e
<1>13. e.role = seeded.role /\ e.role = relaxed.role /\ e.bound = now /\ now = d.bound \cup rebound
  BY <1>8, <1>9, <1>11, <1>12 DEF SameButLocked, SameRoles
<1>14. WithAdmin(relaxed) = WithAdmin(e)
  BY <1>13 DEF WithAdmin
<1>15. /\ SameTables(d, e) /\ SameTenants(d, e) /\ e.run = d.run
  BY <1>8, <1>9, <1>11, <1>12 DEF SameButLocked, SameTables, SameSchemas, SameTenants
<1>16. e.schema.locked = seeded.schema.locked \cup {"tenant_membership"}
  BY <1>9, <1>11, <1>12 DEF SameSchemas
<1>. HIDE DEF now
<1>17. /\ d.tenants = {} =>
            /\ e.role = d.role
            /\ e.schema.locked = d.schema.locked \cup {"tenant", "tenant_membership"}
       /\ d.tenants # {} =>
            /\ e.role = Seeded(d.role, RoleSeed(d.tenants))
            /\ e.schema.locked =
                 d.schema.locked \cup {"tenant", "tenant_membership"} \cup RoleTables
  BY <1>7, <1>8, <1>13, <1>16
<1>18. \E more \in {{}, WithAdmin(e) \cap d.tenants} : e.bound = d.bound \cup more
  BY <1>10, <1>13, <1>14
<1>. QED  BY <1>1, <1>15, <1>17, <1>18

LEMMA FillingB07 ==
  ASSUME NEW d, HasShape(d)
  PROVE  LET e == FillB07(d)
             status(row) == IF Visible(d, "content_run") THEN Backfill(row.label) ELSE "RUNNING"
         IN /\ SameSchemas(d, e) /\ SameTenants(d, e) /\ SameRoles(d, e)
            /\ e.run = [t \in Tenant |->
                          IF d.run[t] = NoRun THEN NoRun
                          ELSE [label |-> d.run[t].label, status |-> status(d.run[t])]]
<1>. DEFINE status(row) ==
              IF Visible(d, "content_run") THEN Backfill(row.label) ELSE "RUNNING"
            rows == [t \in Tenant |->
                       IF d.run[t] = NoRun THEN NoRun
                       ELSE [label |-> d.run[t].label, status |-> status(d.run[t])]]
<1>1. FillB07(d) = WithRun(d, rows)
  BY DEF FillB07, WithRun
<1>. HIDE DEF rows
<1>2. LET e == WithRun(d, rows)
      IN SameSchemas(d, e) /\ SameTenants(d, e) /\ SameRoles(d, e) /\ e.run = rows
  BY RunRows
<1>. QED  BY <1>1, <1>2 DEF rows

\* What a fill locks again, of tables that are there.
Touched(r) ==
  CASE r = "A07" -> {"tenant", "workflow_template", "workflow_template_version"}
    [] r = "A11" -> {"tenant", "quota_policy"}
    [] r = "A12" -> {"tenant", "tenant_membership"}
    [] OTHER -> {}

\* No fill leaves a table unlocked that was locked.
LEMMA FillSchema ==
  ASSUME NEW d, HasShape(d), NEW r \in Revision
  PROVE  /\ SameTables(d, Fill(d, r)) /\ SameTenants(d, Fill(d, r))
         /\ d.schema.locked \subseteq Fill(d, r).schema.locked
         /\ Fill(d, r).schema.locked \ RoleTables
              = (d.schema.locked \cup Touched(r)) \ RoleTables
         /\ r # "A12" => Fill(d, r).schema.locked = d.schema.locked \cup Touched(r)
<1>1. CASE r = "A06"
  <2>1. Fill(d, r) = FillA06(d) /\ Touched(r) = {}
    BY <1>1 DEF Fill, Touched
  <2>. QED  BY <2>1, FillingA06 DEF SameSchemas
<1>2. CASE r = "A07"
  <2>1. Fill(d, r) = FillA07(d)
        /\ Touched(r) = {"tenant", "workflow_template", "workflow_template_version"}
    BY <1>2 DEF Fill, Touched
  <2>. QED  BY <2>1, FillingA07 DEF SameButLocked
<1>3. CASE r = "A11"
  <2>1. Fill(d, r) = FillA11(d) /\ Touched(r) = {"tenant", "quota_policy"}
    BY <1>3 DEF Fill, Touched
  <2>. QED  BY <2>1, FillingA11 DEF SameButLocked
<1>4. CASE r = "A12"
  <2>1. Fill(d, r) = FillA12(d) /\ Touched(r) = {"tenant", "tenant_membership"}
    BY <1>4 DEF Fill, Touched
  <2>2. \/ FillA12(d).schema.locked = d.schema.locked \cup {"tenant", "tenant_membership"}
        \/ FillA12(d).schema.locked
             = d.schema.locked \cup {"tenant", "tenant_membership"} \cup RoleTables
    BY FillingA12
  <2>. QED  BY <1>4, <2>1, <2>2, FillingA12
<1>5. CASE r = "B07"
  <2>1. Fill(d, r) = FillB07(d) /\ Touched(r) = {}
    BY <1>5 DEF Fill, Touched
  <2>. QED  BY <2>1, FillingB07 DEF SameSchemas
<1>6. CASE r \notin {"A06", "A07", "A11", "A12", "B07"}
  <2>1. Fill(d, r) = d /\ Touched(r) = {}
    BY <1>6 DEF Fill, Touched
  <2>. QED  BY <2>1 DEF SameTables, SameTenants
<1>. QED  BY <1>1, <1>2, <1>3, <1>4, <1>5, <1>6

LEMMA ForgetSchema ==
  ASSUME NEW d, HasShape(d), NEW r
  PROVE  LET e == Forget(d, r)
         IN /\ SameSchemas(d, e)
            /\ r # "0001" => SameTenants(d, e)
            /\ r = "0001" => e.tenants = {} /\ e.active = {}
            /\ r # "A06" => SameRoles(d, e)
            /\ r = "A06" => e.role = {} /\ e.bound = {}
            /\ r \notin {"B07", "0002"} => e.run = d.run
            /\ r = "B07" => e.run = [t \in Tenant |->
                                       [label |-> d.run[t].label, status |-> "none"]]
            /\ r = "0002" => e.run = [t \in Tenant |-> NoRun]
<1>0. SameSchemas(d, d) /\ SameTenants(d, d) /\ SameRoles(d, d)
  BY DEF SameSchemas, SameTables, SameTenants, SameRoles
<1>1. CASE r = "A06"
  <2>. DEFINE f == WithRole(d, {})
              e == WithBound(f, {})
  <2>1. Forget(d, r) = e
    BY <1>1 DEF Forget, WithRole, WithBound
  <2>2. SameSchemas(d, f) /\ SameTenants(d, f) /\ f.role = {} /\ f.run = d.run
    BY RoleRows
  <2>. HIDE DEF f
  <2>3. SameSchemas(f, e) /\ SameTenants(f, e) /\ e.role = {} /\ e.bound = {} /\ e.run = d.run
    BY <2>2, BoundRows DEF SameSchemas, SameTables
  <2>. HIDE DEF e
  <2>. QED  BY <1>1, <2>1, <2>2, <2>3 DEF SameSchemas, SameTables, SameTenants
<1>2. CASE r = "B07"
  <2>. DEFINE rows == [t \in Tenant |-> [label |-> d.run[t].label, status |-> "none"]]
  <2>1. Forget(d, r) = WithRun(d, rows)
    BY <1>2 DEF Forget, WithRun
  <2>. HIDE DEF rows
  <2>2. LET e == WithRun(d, rows)
        IN SameSchemas(d, e) /\ SameTenants(d, e) /\ SameRoles(d, e) /\ e.run = rows
    BY RunRows
  <2>. QED  BY <1>2, <2>1, <2>2 DEF rows
<1>3. CASE r = "0002"
  <2>. DEFINE rows == [t \in Tenant |-> NoRun]
  <2>1. Forget(d, r) = WithRun(d, rows)
    BY <1>3 DEF Forget, WithRun
  <2>. HIDE DEF rows
  <2>2. LET e == WithRun(d, rows)
        IN SameSchemas(d, e) /\ SameTenants(d, e) /\ SameRoles(d, e) /\ e.run = rows
    BY RunRows
  <2>. QED  BY <1>3, <2>1, <2>2 DEF rows
<1>4. CASE r = "0001"
  <2>. DEFINE f == WithTenants(d, {})
              e == WithActive(f, {})
  <2>1. Forget(d, r) = e
    BY <1>4 DEF Forget, WithTenants, WithActive
  <2>2. SameSchemas(d, f) /\ f.tenants = {} /\ SameRoles(d, f) /\ f.run = d.run
    BY TenantRows
  <2>. HIDE DEF f
  <2>3. /\ SameSchemas(f, e) /\ e.tenants = {} /\ e.active = {} /\ SameRoles(f, e)
        /\ e.run = d.run
    BY <2>2, ActiveRows DEF SameSchemas, SameTables
  <2>. HIDE DEF e
  <2>. QED  BY <1>4, <2>1, <2>2, <2>3 DEF SameSchemas, SameTables, SameRoles
<1>5. CASE r \notin {"A06", "B07", "0002", "0001"}
  <2>1. Forget(d, r) = d
    BY <1>5 DEF Forget
  <2>. QED  BY <1>0, <1>5, <2>1
<1>. QED  BY <1>1, <1>2, <1>3, <1>4, <1>5

(***************************************************************************)
(* One revision, up and down, before it fills or forgets rows.             *)
(***************************************************************************)
LEMMA Updating ==
  ASSUME NEW d, HasShape(d), NEW a \in SUBSET Revision, NEW s, IsSchema(s)
  PROVE  LET e == Updated(d, a, s)
         IN SameTenants(d, e) /\ SameRoles(d, e) /\ e.run = d.run
<1>. DEFINE f == [d EXCEPT !.applied = a]
            e == [f EXCEPT !.schema = s]
<1>1. f = [schema |-> d.schema, applied |-> a, tenants |-> d.tenants,
           active |-> d.active, bound |-> d.bound, role |-> d.role, run |-> d.run]
  BY DEF HasShape
<1>. HIDE DEF f
<1>2. e = [schema |-> s, applied |-> a, tenants |-> d.tenants,
           active |-> d.active, bound |-> d.bound, role |-> d.role, run |-> d.run]
  BY <1>1
<1>. HIDE DEF e
<1>3. SameTenants(d, e) /\ SameRoles(d, e) /\ e.run = d.run
  BY <1>2 DEF SameTenants, SameRoles
<1>. QED  BY <1>3 DEF e, f, Updated

Raised(d, e, r) ==
  /\ HasShape(e) /\ e.applied = d.applied \cup {r}
  /\ e.schema.table = d.schema.table \cup Upgrade[r].table
  /\ e.schema.column = d.schema.column \cup Upgrade[r].column
  /\ e.schema.key = d.schema.key \cup Upgrade[r].key
  /\ e.schema.policy = d.schema.policy \cup Upgrade[r].policy
  /\ e.schema.locked = d.schema.locked \cup Upgrade[r].locked
  /\ SameTenants(d, e) /\ SameRoles(d, e) /\ e.run = d.run

LEMMA Raising ==
  ASSUME NEW d, HasShape(d), NEW r \in Revision
  PROVE  \E e : Raised(d, e, r) /\ Build(d, r) = Fill(e, r)
<1>. DEFINE c == Upgrade[r]
            s == [table |-> d.schema.table \cup c.table,
                  column |-> d.schema.column \cup c.column,
                  key |-> d.schema.key \cup c.key,
                  policy |-> d.schema.policy \cup c.policy,
                  locked |-> d.schema.locked \cup c.locked]
            a == d.applied \cup {r}
            e == Updated(d, a, s)
<1>1. Build(d, r) = Fill(e, r)
  BY DEF Build, HasShape, Updated
<1>2. /\ IsSchema(s) /\ s.table = d.schema.table \cup c.table
      /\ s.column = d.schema.column \cup c.column /\ s.key = d.schema.key \cup c.key
      /\ s.policy = d.schema.policy \cup c.policy /\ s.locked = d.schema.locked \cup c.locked
  BY DEF IsSchema
<1>3. a \in SUBSET Revision
  BY DEF HasShape
<1>. HIDE DEF s, a
<1>4. /\ HasShape(e) /\ e.applied = a /\ e.schema = s
      /\ SameTenants(d, e) /\ SameRoles(d, e) /\ e.run = d.run
  BY <1>2, <1>3, SetSchema, Updating
<1>5. Raised(d, e, r)
  BY <1>2, <1>4 DEF Raised, a
<1>. QED  BY <1>1, <1>5

Lowered(d, e, r) ==
  /\ HasShape(e) /\ e.applied = d.applied \ {r}
  /\ e.schema.table = d.schema.table \ Downgrade[r].table
  /\ e.schema.column =
       {x \in d.schema.column : x[1] \notin Downgrade[r].table} \ Downgrade[r].column
  /\ e.schema.key = {x \in d.schema.key : x[1] \notin Downgrade[r].table} \ Downgrade[r].key
  /\ e.schema.policy =
       {x \in d.schema.policy : x[1] \notin Downgrade[r].table} \ Downgrade[r].policy
  /\ e.schema.locked = d.schema.locked \ Downgrade[r].table
  /\ SameTenants(d, e) /\ SameRoles(d, e) /\ e.run = d.run

LEMMA Lowering ==
  ASSUME NEW d, HasShape(d), NEW r \in Revision
  PROVE  \E e : Lowered(d, e, r) /\ Strip(d, r) = Forget(e, r)
<1>. DEFINE c == Downgrade[r]
            Kept(x) == {y \in x : y[1] \notin c.table}
            s == [table |-> d.schema.table \ c.table,
                  column |-> Kept(d.schema.column) \ c.column,
                  key |-> Kept(d.schema.key) \ c.key,
                  policy |-> Kept(d.schema.policy) \ c.policy,
                  locked |-> d.schema.locked \ c.table]
            a == d.applied \ {r}
            e == Updated(d, a, s)
<1>1. Strip(d, r) = Forget(e, r)
  BY DEF Strip, HasShape, Updated
<1>2. /\ IsSchema(s) /\ s.table = d.schema.table \ c.table
      /\ s.column = Kept(d.schema.column) \ c.column /\ s.key = Kept(d.schema.key) \ c.key
      /\ s.policy = Kept(d.schema.policy) \ c.policy /\ s.locked = d.schema.locked \ c.table
  BY DEF IsSchema
<1>3. a \in SUBSET Revision
  BY DEF HasShape
<1>. HIDE DEF s, a
<1>4. /\ HasShape(e) /\ e.applied = a /\ e.schema = s
      /\ SameTenants(d, e) /\ SameRoles(d, e) /\ e.run = d.run
  BY <1>2, <1>3, SetSchema, Updating
<1>5. Lowered(d, e, r)
  BY <1>2, <1>4 DEF Lowered, a
<1>. QED  BY <1>1, <1>5

(***************************************************************************)
(* The schema is what the applied revisions make it.                       *)
(***************************************************************************)
MadeBy(d, s) ==
  /\ d.schema.table = Made(s, "table") /\ d.schema.column = Made(s, "column")
  /\ d.schema.key = Made(s, "key") /\ d.schema.policy = Made(s, "policy")
  /\ d.schema.locked \ RoleTables = Made(s, "locked") \ RoleTables

LEMMA MadeAdd ==
  ASSUME NEW s, NEW r, NEW f
  PROVE  Made(s \cup {r}, f) = Made(s, f) \cup Upgrade[r][f]
BY DEF Made

LEMMA InMade ==
  ASSUME NEW s, NEW f, NEW x
  PROVE  x \in Made(s, f) <=> \E r \in s : x \in Upgrade[r][f]
BY DEF Made

\* Of the role tables the revisions themselves lock both, in 0006 of branch B, or none.
LEMMA RoleTablesLocked ==
  ASSUME NEW r \in Revision
  PROVE  Upgrade[r].locked \cap RoleTables = IF r = "B06" THEN RoleTables ELSE {}
<1>1. CASE r = "B06"
  <2>1. RoleTables \subseteq Upgrade[r].locked
    BY <1>1, Named DEF RB06, Isolated, Nothing, RoleTables
  <2>. QED  BY <1>1, <2>1
<1>2. CASE r = "A06"
  <2>1. Upgrade[r].locked = {}
    BY <1>2, Named DEF RA06, Nothing
  <2>. QED  BY <1>2, <2>1
<1>3. CASE r \notin {"A06", "B06"}
  <2>1. Upgrade[r].locked \subseteq Upgrade[r].table
    BY OwnFactsOf DEF OwnFacts
  <2>2. Upgrade[r].table \cap RoleTables = {}
    BY <1>3, AtHome
  <2>. QED  BY <1>3, <2>1, <2>2
<1>. QED  BY <1>1, <1>2, <1>3

\* The row security of the role tables: from 0006 of branch B, or from the seed
\* of 0012, which outlives its downgrade.
RoleLock(d) ==
  d.schema.locked \cap RoleTables =
    IF "B06" \in d.applied \/ SeededBy12(d) THEN RoleTables ELSE {}

LEMMA MadeRoleTables ==
  ASSUME NEW s, s \subseteq Revision
  PROVE  Made(s, "locked") \cap RoleTables = IF "B06" \in s THEN RoleTables ELSE {}
<1>1. ASSUME NEW t \in RoleTables
      PROVE  t \in Made(s, "locked") <=> "B06" \in s
  <2>1. ASSUME NEW r \in s, t \in Upgrade[r].locked PROVE r = "B06"
    BY <2>1, RoleTablesLocked
  <2>2. "B06" \in s => t \in Upgrade["B06"].locked
    BY RoleTablesLocked
  <2>. QED  BY <2>1, <2>2, InMade
<1>. QED  BY <1>1

LEMMA MadeFields ==
  ASSUME NEW d, d.applied \subseteq Revision
  PROVE  SchemaIsMade(d) <=> MadeBy(d, d.applied) /\ RoleLock(d)
<1>. DEFINE s == d.applied
            left == IF SeededBy12(d) THEN RoleTables ELSE {}
            locked == d.schema.locked
            made == Made(s, "locked")
            both == IF "B06" \in s THEN RoleTables ELSE {}
<1>1. made \cap RoleTables = both
  BY MadeRoleTables
<1>2. SchemaIsMade(d) <=>
        /\ d.schema.table = Made(s, "table") /\ d.schema.column = Made(s, "column")
        /\ d.schema.key = Made(s, "key") /\ d.schema.policy = Made(s, "policy")
        /\ locked = made \cup left
  BY DEF SchemaIsMade
<1>3. RoleLock(d) <=> locked \cap RoleTables = both \cup left
  BY DEF RoleLock
<1>4. left \subseteq RoleTables
  OBVIOUS
<1>. HIDE DEF s, left, locked, made, both
<1>5. locked = made \cup left <=>
        locked \ RoleTables = made \ RoleTables /\ locked \cap RoleTables = both \cup left
  BY <1>1, <1>4
<1>. QED  BY <1>2, <1>3, <1>5 DEF MadeBy, s, locked, made

\* What a fill locks again was locked by a revision that is applied.
LEMMA TouchedMade ==
  ASSUME NEW r \in Revision, NEW s, r \in s, Below[r] \subseteq s
  PROVE  Touched(r) \subseteq Made(s, "locked")
<1>1. /\ {"tenant", "tenant_membership"} \subseteq Upgrade["0001"].locked
      /\ {"workflow_template", "workflow_template_version"} \subseteq Upgrade["A07"].locked
      /\ "quota_policy" \in Upgrade["A11"].locked
  <2>1. {"tenant", "tenant_membership"} \subseteq Upgrade["0001"].locked
    BY Named DEF R0001, Isolated, Nothing, TenancyTables
  <2>2. {"workflow_template", "workflow_template_version"} \subseteq Upgrade["A07"].locked
    BY Named DEF RA07, Isolated, Nothing
  <2>3. "quota_policy" \in Upgrade["A11"].locked
    BY Named DEF RA11, Isolated, Nothing
  <2>. QED  BY <2>1, <2>2, <2>3
<1>2. CASE r \in {"A07", "A11", "A12"}
  <2>1. "0001" \in s
    BY <1>2, SomeBelow
  <2>. QED  BY <1>1, <1>2, <2>1, InMade DEF Touched
<1>3. CASE r \notin {"A07", "A11", "A12"}
  BY <1>3 DEF Touched
<1>. QED  BY <1>2, <1>3

LEMMA BuildMade ==
  ASSUME NEW d, HasShape(d), MadeBy(d, d.applied), NEW r \in Revision,
         Below[r] \subseteq d.applied
  PROVE  /\ MadeBy(Build(d, r), Build(d, r).applied)
         /\ d.schema.locked \subseteq Build(d, r).schema.locked
<1>1. PICK e : Raised(d, e, r) /\ Build(d, r) = Fill(e, r)
  BY Raising
<1>. DEFINE b == Fill(e, r)
            s == d.applied \cup {r}
<1>2. /\ SameTables(e, b) /\ e.schema.locked \subseteq b.schema.locked
      /\ b.schema.locked \ RoleTables = (e.schema.locked \cup Touched(r)) \ RoleTables
  BY <1>1, FillSchema DEF Raised
<1>. HIDE DEF b
<1>4. b.applied = s
  BY <1>1, <1>2 DEF Raised, SameTables
<1>5. /\ b.schema.table = Made(s, "table") /\ b.schema.column = Made(s, "column")
      /\ b.schema.key = Made(s, "key") /\ b.schema.policy = Made(s, "policy")
  <2>1. /\ Made(s, "table") = Made(d.applied, "table") \cup Upgrade[r].table
        /\ Made(s, "column") = Made(d.applied, "column") \cup Upgrade[r].column
        /\ Made(s, "key") = Made(d.applied, "key") \cup Upgrade[r].key
        /\ Made(s, "policy") = Made(d.applied, "policy") \cup Upgrade[r].policy
    BY MadeAdd
  <2>. QED  BY <1>1, <1>2, <2>1 DEF Raised, SameTables, MadeBy
<1>6. b.schema.locked \ RoleTables = Made(s, "locked") \ RoleTables
  <2>1. Touched(r) \subseteq Made(s, "locked")
    BY TouchedMade
  <2>2. Made(s, "locked") = Made(d.applied, "locked") \cup Upgrade[r].locked
    BY MadeAdd
  <2>3. e.schema.locked = d.schema.locked \cup Upgrade[r].locked
    BY <1>1 DEF Raised
  <2>4. d.schema.locked \ RoleTables = Made(d.applied, "locked") \ RoleTables
    BY DEF MadeBy
  <2>. QED  BY <1>2, <2>1, <2>2, <2>3, <2>4
<1>7. MadeBy(b, b.applied)
  BY <1>4, <1>5, <1>6 DEF MadeBy
<1>8. d.schema.locked \subseteq b.schema.locked
  BY <1>1, <1>2 DEF Raised
<1>. QED  BY <1>1, <1>7, <1>8 DEF b

(***************************************************************************)
(* A downgrade takes what its revision created, and nothing else.          *)
(***************************************************************************)
\* r is applied last: nothing above it is, nor the other branch's role tables.
Topmost(s, r) ==
  /\ s \subseteq Revision /\ r \in s /\ Closed(s) /\ Closed(s \ {r})
  /\ ~({"A06", "B06"} \subseteq s)

LEMMA OtherTables ==
  ASSUME NEW s, NEW r, Topmost(s, r), NEW q \in s, q # r
  PROVE  Upgrade[r].table \cap Upgrade[q].table = {}
<1>1. ASSUME NEW t \in Upgrade[r].table, t \in Upgrade[q].table PROVE FALSE
  <2>1. r \in Revision /\ q \in Revision
    BY DEF Topmost
  <2>2. CASE t \in RoleTables
    BY <1>1, <2>1, <2>2, AtHome DEF Topmost
  <2>3. CASE t \notin RoleTables
    BY <1>1, <2>1, <2>3, AtHome
  <2>. QED  BY <2>2, <2>3
<1>. QED  BY <1>1

LEMMA OtherGround ==
  ASSUME NEW s, NEW r, Topmost(s, r), NEW q \in s, q # r
  PROVE  Upgrade[r].table \cap (Upgrade[q].table \cup Ground(q)) = {}
<1>1. q \in Revision
  BY DEF Topmost
<1>2. CASE Ground(q) = {}
  BY <1>2, OtherTables
<1>3. CASE Ground(q) # {}
  <2>1. GroundOf(q) \in Below[q] /\ Ground(q) \subseteq Upgrade[GroundOf(q)].table
    BY <1>1, <1>3, GroundBelow
  <2>2. GroundOf(q) \in s /\ GroundOf(q) # r
    BY <2>1 DEF Topmost, Closed
  <2>. QED  BY <2>1, <2>2, OtherTables
<1>. QED  BY <1>2, <1>3

\* Of columns, constraints and policies, made the ones of all revisions in s.
LEMMA KeptOf ==
  ASSUME NEW s, NEW r, Topmost(s, r), NEW f \in {"column", "key", "policy"}
  PROVE  {x \in Made(s, f) : x[1] \notin Downgrade[r].table} \ Downgrade[r][f]
           = Made(s \ {r}, f)
<1>0. r \in Revision /\ s \subseteq Revision
  BY DEF Topmost
<1>1. /\ Downgrade[r].table = Upgrade[r].table
      /\ \A x \in Upgrade[r][f] : x[1] \in Downgrade[r].table \/ x \in Downgrade[r][f]
  BY <1>0, OwnFactsOf DEF OwnFacts
<1>2. ASSUME NEW q \in s, q # r, NEW x \in Upgrade[q][f]
      PROVE  x[1] \notin Downgrade[r].table /\ x \notin Downgrade[r][f]
  <2>1. x[1] \in Upgrade[q].table \cup Ground(q)
    BY <1>0, Grounded DEF Rests
  <2>2. x[1] \notin Upgrade[r].table
    BY <1>2, <2>1, OtherGround
  <2>3. x \notin Downgrade[r][f]
    <3>1. CASE r = "A12" /\ q = "B06"
      BY <1>0, <3>1, SomeBelow DEF Topmost, Closed
    <3>2. CASE ~(r = "A12" /\ q = "B06")
      BY <1>0, <1>2, <3>2, DropsOwn
    <3>. QED  BY <3>1, <3>2
  <2>. QED  BY <1>1, <2>2, <2>3
<1>3. ASSUME NEW x
      PROVE  x \in {y \in Made(s, f) : y[1] \notin Downgrade[r].table} \ Downgrade[r][f]
               <=> x \in Made(s \ {r}, f)
  BY <1>1, <1>2, InMade
<1>. QED  BY <1>3

LEMMA StripMade ==
  ASSUME NEW d, HasShape(d), MadeBy(d, d.applied), NEW r, Topmost(d.applied, r)
  PROVE  /\ MadeBy(Strip(d, r), Strip(d, r).applied)
         /\ Strip(d, r).schema.locked = d.schema.locked \ Upgrade[r].table
<1>0. r \in Revision /\ Downgrade[r].table = Upgrade[r].table
  BY OwnFactsOf DEF Topmost, OwnFacts
<1>1. PICK e : Lowered(d, e, r) /\ Strip(d, r) = Forget(e, r)
  BY <1>0, Lowering
<1>. DEFINE b == Forget(e, r)
            s == d.applied \ {r}
<1>2. SameSchemas(e, b)
  BY <1>1, ForgetSchema DEF Lowered
<1>. HIDE DEF b
<1>4. b.applied = s /\ b.schema = e.schema
  BY <1>1, <1>2 DEF Lowered, SameSchemas, SameTables
<1>5. /\ e.schema.column = Made(s, "column") /\ e.schema.key = Made(s, "key")
      /\ e.schema.policy = Made(s, "policy")
  <2>1. {x \in Made(d.applied, "column") : x[1] \notin Downgrade[r].table}
          \ Downgrade[r].column = Made(s, "column")
    BY KeptOf
  <2>2. {x \in Made(d.applied, "key") : x[1] \notin Downgrade[r].table}
          \ Downgrade[r].key = Made(s, "key")
    BY KeptOf
  <2>3. {x \in Made(d.applied, "policy") : x[1] \notin Downgrade[r].table}
          \ Downgrade[r].policy = Made(s, "policy")
    BY KeptOf
  <2>. QED  BY <1>1, <2>1, <2>2, <2>3 DEF Lowered, MadeBy
<1>6. e.schema.table = Made(s, "table")
  <2>1. ASSUME NEW x
        PROVE  x \in Made(d.applied, "table") \ Upgrade[r].table <=> x \in Made(s, "table")
    BY InMade, OtherTables
  <2>. QED  BY <1>0, <1>1, <2>1 DEF Lowered, MadeBy
<1>7. e.schema.locked \ RoleTables = Made(s, "locked") \ RoleTables
  <2>1. \A q \in Revision : Upgrade[q].locked \subseteq Upgrade[q].table
    BY OwnFactsOf DEF OwnFacts
  <2>2. d.applied \subseteq Revision
    BY DEF HasShape
  <2>3. ASSUME NEW x
        PROVE  x \in Made(d.applied, "locked") \ Upgrade[r].table <=> x \in Made(s, "locked")
    BY <1>0, <2>1, <2>2, InMade, OtherTables
  <2>4. Made(d.applied, "locked") \ Upgrade[r].table = Made(s, "locked")
    BY <2>3
  <2>. QED  BY <1>0, <1>1, <2>4 DEF Lowered, MadeBy
<1>8. MadeBy(b, b.applied)
  BY <1>4, <1>5, <1>6, <1>7 DEF MadeBy
<1>. QED  BY <1>0, <1>1, <1>4, <1>8 DEF Lowered, b

(***************************************************************************)
(* The roles the revisions seed.                                           *)
(***************************************************************************)
Admins(rows) == {r[1] : r \in {x \in rows : x[2] = "admin"}}
RolesOf(rows, tenants) ==
  /\ rows \subseteq tenants \X Roles \X BOOLEAN
  /\ OneDefault(rows)
  /\ \A r \in rows : r[1] \in Admins(rows)

LEMMA InAdmins ==
  ASSUME NEW rows, NEW t
  PROVE  t \in Admins(rows) <=> \E r \in rows : r[1] = t /\ r[2] = "admin"
BY DEF Admins

LEMMA NoRoles ==
  ASSUME NEW tenants
  PROVE  RolesOf({}, tenants)
BY DEF RolesOf, OneDefault

\* 0006 gives every tenant it sees an administrator and a default editor.
LEMMA FirstRoles ==
  ASSUME NEW tenants, NEW seen \in {{}, tenants}
  PROVE  RolesOf(Seeded({}, FirstSeed(seen)), tenants)
<1>. DEFINE rows == Seeded({}, FirstSeed(seen))
<1>1. rows = FirstSeed(seen)
  BY DEF Seeded
<1>2. ASSUME NEW r \in rows
      PROVE  /\ r[1] \in seen /\ r \in tenants \X Roles \X BOOLEAN
             /\ r[2] \in {"admin", "editor"} /\ r[3] = (r[2] = "editor")
  BY <1>1 DEF FirstSeed, Roles
<1>3. \A t \in seen : <<t, "admin", FALSE>> \in rows
  BY <1>1 DEF FirstSeed
<1>. HIDE DEF rows
<1>4. ASSUME NEW r \in rows PROVE r[1] \in Admins(rows)
  <2>. DEFINE a == <<r[1], "admin", FALSE>>
  <2>1. a \in rows
    BY <1>2, <1>3
  <2>2. a[1] = r[1] /\ a[2] = "admin"
    OBVIOUS
  <2>. HIDE DEF a
  <2>. QED  BY <2>1, <2>2, InAdmins
<1>5. OneDefault(rows)
  BY <1>2 DEF OneDefault
<1>6. rows \subseteq tenants \X Roles \X BOOLEAN
  BY <1>2
<1>. QED  BY <1>4, <1>5, <1>6 DEF RolesOf, rows

\* Only 0012 seeds reviewers and viewers: for every tenant it sees.
LEMMA FirstSeedOnly ==
  ASSUME NEW seen, NEW r \in Seeded({}, FirstSeed(seen))
  PROVE  r[2] \notin {"reviewer", "viewer"}
<1>1. r \in FirstSeed(seen)
  BY DEF Seeded
<1>2. r[2] \in {"admin", "editor"}
  BY <1>1 DEF FirstSeed
<1>. QED  BY <1>2

LEMMA ViewerSeeded ==
  ASSUME NEW rows, NEW tenants, NEW t \in tenants
  PROVE  \E x \in Seeded(rows, RoleSeed(tenants)) : x[2] = "viewer"
<1>. DEFINE s == <<t, "viewer", "viewer" = "admin">>
<1>1. s \in RoleSeed(tenants) /\ s[1] = t /\ s[2] = "viewer"
  BY DEF RoleSeed, Roles
<1>. HIDE DEF s
<1>2. CASE \E r \in rows : r[1] = t /\ r[2] = "viewer"
  BY <1>2 DEF Seeded
<1>3. CASE ~\E r \in rows : r[1] = t /\ r[2] = "viewer"
  <2>1. s \in Seeded(rows, RoleSeed(tenants))
    BY <1>1, <1>3 DEF Seeded
  <2>. QED  BY <1>1, <2>1
<1>. QED  BY <1>2, <1>3

\* 0012 adds the administrator as the default only where there was no role.
LEMMA MoreRoles ==
  ASSUME NEW tenants, NEW rows, RolesOf(rows, tenants)
  PROVE  LET more == Seeded(rows, RoleSeed(tenants))
         IN RolesOf(more, tenants) /\ Admins(rows) \subseteq Admins(more)
<1>. DEFINE more == Seeded(rows, RoleSeed(tenants))
            added == {s \in RoleSeed(tenants) :
                        ~\E r \in rows : r[1] = s[1] /\ r[2] = s[2]}
<1>1. more = rows \cup added
  BY DEF Seeded
<1>2. ASSUME NEW s \in RoleSeed(tenants)
      PROVE  /\ s \in tenants \X Roles \X BOOLEAN /\ s[1] \in tenants
             /\ s[3] => s[2] = "admin"
  <2>1. PICK t \in tenants, c \in Roles : s = <<t, c, c = "admin">>
    BY DEF RoleSeed
  <2>2. (c = "admin") \in BOOLEAN
    OBVIOUS
  <2>3. s[1] = t /\ s[2] = c /\ s[3] = (c = "admin")
    BY <2>1
  <2>. QED  BY <2>1, <2>2, <2>3
<1>3. more \subseteq tenants \X Roles \X BOOLEAN
  BY <1>1, <1>2 DEF RolesOf
<1>4. ASSUME NEW r \in rows, NEW s \in added, r[1] = s[1], s[3] PROVE FALSE
  <2>1. s[2] = "admin"
    BY <1>2, <1>4
  <2>2. PICK a \in rows : a[1] = r[1] /\ a[2] = "admin"
    BY InAdmins DEF RolesOf
  <2>. QED  BY <1>4, <2>1, <2>2
<1>5. \A r, s \in added : r[3] /\ s[3] => r[2] = s[2]
  BY <1>2
<1>. HIDE DEF more, added
<1>6. OneDefault(more)
  BY <1>1, <1>4, <1>5 DEF OneDefault, RolesOf
<1>7. Admins(rows) \subseteq Admins(more)
  BY <1>1, InAdmins
<1>8. ASSUME NEW t \in tenants PROVE t \in Admins(more)
  <2>. DEFINE s == <<t, "admin", "admin" = "admin">>
  <2>1. s \in RoleSeed(tenants) /\ s[1] = t /\ s[2] = "admin"
    BY DEF RoleSeed, Roles
  <2>. HIDE DEF s
  <2>2. CASE \E r \in rows : r[1] = t /\ r[2] = "admin"
    BY <1>1, <2>2, InAdmins
  <2>3. CASE ~\E r \in rows : r[1] = t /\ r[2] = "admin"
    BY <1>1, <2>1, <2>3, InAdmins DEF added
  <2>. QED  BY <2>2, <2>3
<1>9. \A r \in more : r[1] \in tenants
  BY <1>3
<1>. QED  BY <1>3, <1>6, <1>7, <1>8, <1>9 DEF RolesOf, more

LEMMA RoleInvRows ==
  ASSUME NEW d
  PROVE  /\ WithAdmin(d) = Admins(d.role)
         /\ IsDatabase(d) /\ RoleInv(d) => RolesOf(d.role, d.tenants)
         /\ RolesOf(d.role, d.tenants) =>
              OneDefault(d.role) /\ {r[1] : r \in d.role} \subseteq WithAdmin(d)
BY DEF WithAdmin, Admins, IsDatabase, RoleInv, RolesOf

(***************************************************************************)
(* The rows, one revision up.                                              *)
(***************************************************************************)
RowsInv(d, as) == IsDatabase(d) /\ RoleInv(d) /\ RunInv(d, as)

LEMMA FreshRoles ==
  ASSUME NEW d, HasShape(d), RowsInv(d, owner), Closed(d.applied),
         "A06" \notin d.applied
  PROVE  RowsInv(Build(d, "A06"), owner)
<1>. DEFINE r == "A06"
<1>0. r \in Revision
  BY RevisionSet
<1>. HIDE DEF r
<1>1. PICK e : Raised(d, e, r) /\ Build(d, r) = Fill(e, r)
  BY <1>0, Raising
<1>. DEFINE b == FillA06(e)
<1>2. Build(d, r) = b
  BY <1>1 DEF Fill, r
<1>3. /\ HasShape(e) /\ e.applied = d.applied \cup {r} /\ e.run = d.run
      /\ e.tenants = d.tenants /\ e.active = d.active
      /\ e.role = d.role /\ e.bound = d.bound
  BY <1>1 DEF Raised, SameTenants, SameRoles
<1>4. d.role = {} /\ d.bound = {}
  BY DEF RowsInv, RoleInv
<1>5. /\ SameSchemas(e, b) /\ SameTenants(e, b) /\ b.run = e.run
      /\ \E seen \in {{}, e.tenants} : b.role = Seeded(e.role, FirstSeed(seen))
      /\ b.bound \in {e.bound, e.bound \cup (e.active \cap WithAdmin(b))}
  BY <1>3, FillingA06
<1>. HIDE DEF b
<1>6. /\ b.applied = d.applied \cup {r} /\ b.run = d.run
      /\ b.tenants = d.tenants /\ b.active = d.active
  BY <1>3, <1>5 DEF SameSchemas, SameTables, SameTenants
<1>7. RolesOf(b.role, b.tenants)
  BY <1>3, <1>4, <1>5, <1>6, FirstRoles
<1>8. b.bound \subseteq WithAdmin(b) /\ b.bound \subseteq b.active
  BY <1>3, <1>4, <1>5, <1>6
<1>9. "A12" \notin b.applied
  BY <1>6, SomeBelow DEF Closed, r
<1>10. IsDatabase(b)
  BY <1>0, <1>6, <1>7, <1>8 DEF RowsInv, IsDatabase, RolesOf
<1>11. RoleInv(b)
  BY <1>6, <1>7, <1>8, <1>9, RoleInvRows DEF RoleInv, r
<1>12. RunInv(b, owner)
  BY <1>6 DEF RowsInv, RunInv, r
<1>. QED  BY <1>2, <1>10, <1>11, <1>12 DEF RowsInv, r

LEMMA MoreAdmins ==
  ASSUME NEW d, HasShape(d), RowsInv(d, owner), Closed(d.applied),
         "A06" \in d.applied
  PROVE  RowsInv(Build(d, "A12"), owner)
<1>. DEFINE r == "A12"
<1>0. r \in Revision
  BY RevisionSet
<1>. HIDE DEF r
<1>1. PICK e : Raised(d, e, r) /\ Build(d, r) = Fill(e, r)
  BY <1>0, Raising
<1>. DEFINE b == FillA12(e)
<1>2. Build(d, r) = b
  BY <1>1 DEF Fill, r
<1>3. /\ HasShape(e) /\ e.applied = d.applied \cup {r} /\ e.run = d.run
      /\ e.tenants = d.tenants /\ e.active = d.active
      /\ e.role = d.role /\ e.bound = d.bound
  BY <1>1 DEF Raised, SameTenants, SameRoles
<1>4. RolesOf(d.role, d.tenants)
  BY RoleInvRows DEF RowsInv
<1>5. /\ SameTables(e, b) /\ SameTenants(e, b) /\ b.run = e.run
      /\ e.tenants = {} => b.role = e.role
      /\ e.tenants # {} =>
           /\ b.role = Seeded(e.role, RoleSeed(e.tenants))
           /\ b.schema.locked =
                e.schema.locked \cup {"tenant", "tenant_membership"} \cup RoleTables
      /\ \E more \in {{}, WithAdmin(b) \cap e.tenants} : b.bound = e.bound \cup more
  BY <1>3, FillingA12
<1>. HIDE DEF b
<1>6. /\ b.applied = d.applied \cup {r} /\ b.run = d.run
      /\ b.tenants = d.tenants /\ b.active = d.active
  BY <1>3, <1>5 DEF SameTables, SameTenants
<1>7. RolesOf(b.role, b.tenants) /\ WithAdmin(d) \subseteq WithAdmin(b)
  <2>1. CASE e.tenants = {}
    BY <1>3, <1>4, <1>5, <1>6, <2>1, RoleInvRows
  <2>2. CASE e.tenants # {}
    BY <1>3, <1>4, <1>5, <1>6, <2>2, MoreRoles, RoleInvRows
  <2>. QED  BY <2>1, <2>2
<1>8. b.bound \subseteq WithAdmin(b) /\ b.bound \subseteq b.tenants
  BY <1>3, <1>5, <1>6, <1>7 DEF RowsInv, RoleInv, IsDatabase
<1>9. b.role # {} => RoleTables \subseteq b.schema.locked
  <2>1. CASE e.tenants = {}
    <3>1. ~ \E x \in b.role : TRUE
      BY <1>3, <1>6, <1>7, <2>1 DEF RolesOf
    <3>. QED  BY <3>1
  <2>2. CASE e.tenants # {}
    BY <1>5, <2>2
  <2>. QED  BY <2>1, <2>2
<1>10. IsDatabase(b)
  BY <1>0, <1>6, <1>7, <1>8 DEF RowsInv, IsDatabase, RolesOf
<1>11. RoleInv(b)
  BY <1>6, <1>7, <1>8, <1>9, RoleInvRows DEF RoleInv
<1>12. RunInv(b, owner)
  BY <1>6 DEF RowsInv, RunInv, r
<1>. QED  BY <1>2, <1>10, <1>11, <1>12 DEF RowsInv, r

LEMMA BackfillIs ==
  /\ \A l \in Label : Backfill(l) = l
  /\ \A l : Backfill(l) \in Label
BY DEF Backfill, Label

LEMMA Backfilled ==
  ASSUME NEW d, HasShape(d), RowsInv(d, owner), "B07" \notin d.applied
  PROVE  RowsInv(Build(d, "B07"), owner)
<1>. DEFINE r == "B07"
<1>0. r \in Revision
  BY RevisionSet
<1>. HIDE DEF r
<1>1. PICK e : Raised(d, e, r) /\ Build(d, r) = Fill(e, r)
  BY <1>0, Raising
<1>. DEFINE b == FillB07(e)
            status(row) == IF Visible(e, "content_run") THEN Backfill(row.label) ELSE "RUNNING"
<1>2. Build(d, r) = b
  BY <1>1 DEF Fill, r
<1>3. /\ HasShape(e) /\ e.applied = d.applied \cup {r} /\ e.run = d.run
      /\ e.schema.locked = d.schema.locked \cup Upgrade[r].locked
      /\ e.tenants = d.tenants /\ e.active = d.active
      /\ e.role = d.role /\ e.bound = d.bound
  BY <1>1 DEF Raised, SameTenants, SameRoles
<1>4. /\ SameSchemas(e, b) /\ SameTenants(e, b) /\ SameRoles(e, b)
      /\ b.run = [t \in Tenant |->
                    IF e.run[t] = NoRun THEN NoRun
                    ELSE [label |-> e.run[t].label, status |-> status(e.run[t])]]
  BY <1>3, FillingB07
<1>. HIDE DEF b
<1>5. /\ b.applied = d.applied \cup {r} /\ b.schema.locked = e.schema.locked
      /\ b.tenants = d.tenants /\ b.active = d.active
      /\ b.role = d.role /\ b.bound = d.bound
  BY <1>3, <1>4 DEF SameSchemas, SameTables, SameTenants, SameRoles
<1>6. ASSUME NEW t \in Tenant
      PROVE  /\ d.run[t] \in Rows
             /\ d.run[t] = NoRun \/ d.run[t].label \in Label
  <2>1. d.run[t] \in Rows
    BY DEF RowsInv, IsDatabase
  <2>2. d.run[t].label = "none" => d.run[t].status = "none"
    BY DEF RowsInv, RunInv
  <2>. QED  BY <2>1, <2>2 DEF Rows, NoRun
<1>7. ASSUME NEW t \in Tenant
      PROVE  /\ b.run[t] \in Rows
             /\ b.run[t].label = "none" => b.run[t].status = "none"
             /\ owner = "bypass" => b.run[t].status = b.run[t].label
  <2>. DEFINE row == d.run[t]
  <2>1. CASE row = NoRun
    <3>1. b.run[t] = NoRun
      BY <1>3, <1>4, <2>1
    <3>. QED  BY <3>1 DEF NoRun, Rows
  <2>2. CASE row # NoRun
    <3>1. row.label \in Label
      BY <1>6, <2>2
    <3>2. b.run[t] = [label |-> row.label, status |-> status(row)]
      BY <1>3, <1>4, <2>2
    <3>3. status(row) \in Label
      BY BackfillIs DEF Label
    <3>4. owner = "bypass" => status(row) = row.label
      BY <3>1, BackfillIs DEF Visible
    <3>5. row.label # "none"
      BY <3>1 DEF Label
    <3>. HIDE DEF status, row
    <3>. QED  BY <3>1, <3>2, <3>3, <3>4, <3>5 DEF Rows
  <2>. QED  BY <2>1, <2>2
<1>8. b.run \in [Tenant -> Rows]
  BY <1>4, <1>7
<1>9. IsDatabase(b)
  BY <1>0, <1>5, <1>8 DEF RowsInv, IsDatabase
<1>10. WithAdmin(b) = WithAdmin(d)
  BY <1>5 DEF WithAdmin
<1>11. RoleInv(b)
  BY <1>3, <1>5, <1>10 DEF RowsInv, RoleInv, r
<1>12. RunInv(b, owner)
  BY <1>7 DEF RunInv
<1>. QED  BY <1>2, <1>9, <1>11, <1>12 DEF RowsInv, r

\* The other revisions leave the rows alone, and unlock nothing.
LEMMA SameRows ==
  ASSUME NEW d, HasShape(d), NEW r \in Revision, r \notin {"A06", "A12", "B07"}
  PROVE  LET b == Build(d, r)
         IN SameTenants(d, b) /\ SameRoles(d, b) /\ b.run = d.run
<1>1. PICK e : Raised(d, e, r) /\ Build(d, r) = Fill(e, r)
  BY Raising
<1>2. HasShape(e) /\ SameTenants(d, e) /\ SameRoles(d, e) /\ e.run = d.run
  BY <1>1 DEF Raised
<1>3. LET b == Fill(e, r)
      IN SameTenants(e, b) /\ SameRoles(e, b) /\ b.run = e.run
  <2>1. CASE r = "A07"
    <3>1. Fill(e, r) = FillA07(e)
      BY <2>1 DEF Fill
    <3>. QED  BY <1>2, <3>1, FillingA07 DEF SameButLocked
  <2>2. CASE r = "A11"
    <3>1. Fill(e, r) = FillA11(e)
      BY <2>2 DEF Fill
    <3>. QED  BY <1>2, <3>1, FillingA11 DEF SameButLocked
  <2>3. CASE r \notin {"A07", "A11"}
    <3>1. Fill(e, r) = e
      BY <2>3 DEF Fill
    <3>. QED  BY <3>1 DEF SameTenants, SameRoles
  <2>. QED  BY <2>1, <2>2, <2>3
<1>. QED  BY <1>1, <1>2, <1>3 DEF SameTenants, SameRoles

LEMMA BuildRows ==
  ASSUME NEW d, HasShape(d), MadeBy(d, d.applied), RowsInv(d, owner), Closed(d.applied),
         NEW r \in Revision \ d.applied, Below[r] \subseteq d.applied
  PROVE  RowsInv(Build(d, r), owner)
<1>1. CASE r = "A06"
  BY <1>1, FreshRoles
<1>2. CASE r = "A12"
  BY <1>2, SomeBelow, MoreAdmins
<1>3. CASE r = "B07"
  BY <1>3, Backfilled
<1>4. CASE r \notin {"A06", "A12", "B07"}
  <2>. DEFINE b == Build(d, r)
  <2>1. /\ b.tenants = d.tenants /\ b.active = d.active /\ b.role = d.role
        /\ b.bound = d.bound /\ b.run = d.run
    BY <1>4, SameRows DEF SameTenants, SameRoles
  <2>2. b.applied = d.applied \cup {r} /\ d.applied \subseteq Revision
    BY Building DEF HasShape
  <2>3. d.schema.locked \subseteq b.schema.locked
    BY BuildMade
  <2>. HIDE DEF b
  <2>4. WithAdmin(b) = WithAdmin(d)
    BY <2>1 DEF WithAdmin
  <2>5. IsDatabase(b)
    BY <2>1, <2>2 DEF RowsInv, IsDatabase
  <2>6. RoleInv(b)
    BY <1>4, <2>1, <2>2, <2>3, <2>4 DEF RowsInv, RoleInv
  <2>7. RunInv(b, owner)
    BY <1>4, <2>1, <2>2 DEF RowsInv, RunInv
  <2>. QED  BY <2>5, <2>6, <2>7 DEF RowsInv, b
<1>. QED  BY <1>1, <1>2, <1>3, <1>4

(***************************************************************************)
(* The rows, one revision down.                                            *)
(***************************************************************************)
\* As long as 0012 is applied, nothing that is dropped takes the role tables.
LEMMA RolesStay ==
  ASSUME NEW s, NEW r, Topmost(s, r), "A12" \in s, r # "A12"
  PROVE  Upgrade[r].table \cap RoleTables = {}
<1>1. "A06" \in s /\ r # "A06"
  BY SomeBelow DEF Topmost, Closed
<1>2. r \in Revision /\ r # "B06"
  BY <1>1 DEF Topmost
<1>. QED  BY <1>1, <1>2, AtHome

LEMMA StripRows ==
  ASSUME NEW d, HasShape(d), MadeBy(d, d.applied), RowsInv(d, owner), NEW r, Topmost(d.applied, r)
  PROVE  RowsInv(Strip(d, r), owner)
<1>0. r \in Revision /\ r \in d.applied /\ d.applied \subseteq Revision
  BY DEF Topmost
<1>1. PICK e : Lowered(d, e, r) /\ Strip(d, r) = Forget(e, r)
  BY <1>0, Lowering
<1>. DEFINE b == Strip(d, r)
<1>2. /\ e.tenants = d.tenants /\ e.active = d.active
      /\ e.role = d.role /\ e.bound = d.bound /\ e.run = d.run
  BY <1>1 DEF Lowered, SameTenants, SameRoles
<1>3. /\ r # "0001" => b.tenants = d.tenants /\ b.active = d.active
      /\ r = "0001" => b.tenants = {} /\ b.active = {}
      /\ r # "A06" => b.role = d.role /\ b.bound = d.bound
      /\ r = "A06" => b.role = {} /\ b.bound = {}
      /\ r \notin {"B07", "0002"} => b.run = d.run
      /\ r = "B07" => b.run = [t \in Tenant |-> [label |-> d.run[t].label, status |-> "none"]]
      /\ r = "0002" => b.run = [t \in Tenant |-> NoRun]
  BY <1>1, <1>2, ForgetSchema DEF Lowered, SameTenants, SameRoles
<1>4. b.applied = d.applied \ {r}
  BY <1>0, Stripping
<1>5. b.schema.locked = d.schema.locked \ Upgrade[r].table
  BY StripMade
<1>. HIDE DEF b
<1>6. "A06" \in b.applied => r # "0001" /\ r # "A06"
  BY <1>4, SomeBelow DEF Topmost, Closed
<1>7. "A06" \notin b.applied => b.role = {} /\ b.bound = {}
  BY <1>3, <1>4 DEF RowsInv, RoleInv
<1>8. "A06" \in b.applied =>
        /\ b.role = d.role /\ b.bound = d.bound /\ WithAdmin(b) = WithAdmin(d)
        /\ b.tenants = d.tenants
  BY <1>3, <1>6 DEF WithAdmin
<1>9. b.tenants \subseteq Tenant /\ b.active \subseteq b.tenants
  BY <1>3 DEF RowsInv, IsDatabase
<1>10. b.bound \subseteq b.tenants /\ b.role \subseteq b.tenants \X Roles \X BOOLEAN
  BY <1>7, <1>8 DEF RowsInv, IsDatabase
<1>11. b.run \in [Tenant -> Rows] /\ \A t \in Tenant : b.run[t].label = "none" => b.run[t].status = "none"
  <2>1. ASSUME NEW t \in Tenant
        PROVE  d.run[t].label \in Label \cup {"none"} /\ d.run[t].status \in Label \cup {"none"}
    BY DEF RowsInv, IsDatabase, Rows
  <2>2. NoRun \in Rows
    BY DEF NoRun, Rows
  <2>3. CASE r = "B07"
    BY <1>3, <2>1, <2>3 DEF Rows
  <2>4. CASE r = "0002"
    BY <1>3, <2>2, <2>4 DEF NoRun
  <2>5. CASE r \notin {"B07", "0002"}
    BY <1>3, <2>5 DEF RowsInv, IsDatabase, RunInv
  <2>. QED  BY <2>3, <2>4, <2>5
<1>12. IsDatabase(b)
  BY <1>0, <1>4, <1>9, <1>10, <1>11 DEF IsDatabase
<1>13. RoleInv(b)
  <2>1. CASE "A06" \notin b.applied
    BY <1>7, <2>1 DEF RoleInv, OneDefault
  <2>2. CASE "A06" \in b.applied
    <3>1. "A12" \in b.applied => Upgrade[r].table \cap RoleTables = {}
      BY <1>4, RolesStay
    <3>. QED  BY <1>4, <1>5, <1>8, <2>2, <3>1 DEF RowsInv, RoleInv
  <2>. QED  BY <2>1, <2>2
<1>14. RunInv(b, owner)
  <2>1. "B07" \in b.applied => r \notin {"B07", "0002"}
    BY <1>4, SomeBelow DEF Topmost, Closed
  <2>. QED  BY <1>3, <1>4, <1>11, <2>1 DEF RowsInv, RunInv
<1>. QED  BY <1>12, <1>13, <1>14 DEF RowsInv, b

(***************************************************************************)
(* The row security of the role tables.                                    *)
(***************************************************************************)
LEMMA SameRoleRows ==
  ASSUME NEW d, HasShape(d), NEW r \in Revision, r \notin {"A06", "A12"}
  PROVE  Build(d, r).role = d.role
<1>1. CASE r = "B07"
  <2>1. PICK e : Raised(d, e, r) /\ Build(d, r) = Fill(e, r)
    BY Raising
  <2>2. Fill(e, r) = FillB07(e)
    BY <1>1 DEF Fill
  <2>3. HasShape(e) /\ e.role = d.role
    BY <2>1 DEF Raised, SameRoles
  <2>4. SameRoles(e, FillB07(e))
    BY <2>3, FillingB07
  <2>. QED  BY <2>1, <2>2, <2>3, <2>4 DEF SameRoles
<1>2. CASE r # "B07"
  BY <1>2, SameRows DEF SameRoles
<1>. QED  BY <1>1, <1>2

\* An upgrade other than those of 0012 locks what its revision names, which is
\* the role tables in 0006 of branch B only.
LEMMA BuildLocks ==
  ASSUME NEW d, HasShape(d), NEW r \in Revision, r # "A12"
  PROVE  Build(d, r).schema.locked \cap RoleTables
           = (d.schema.locked \cap RoleTables) \cup (IF r = "B06" THEN RoleTables ELSE {})
<1>1. PICK e : Raised(d, e, r) /\ Build(d, r) = Fill(e, r)
  BY Raising
<1>2. Fill(e, r).schema.locked = e.schema.locked \cup Touched(r)
  BY <1>1, FillSchema DEF Raised
<1>3. e.schema.locked = d.schema.locked \cup Upgrade[r].locked
  BY <1>1 DEF Raised
<1>4. Touched(r) \cap RoleTables = {}
  BY DEF Touched, RoleTables
<1>. QED  BY <1>1, <1>2, <1>3, <1>4, RoleTablesLocked

LEMMA BuildLock ==
  ASSUME NEW d, HasShape(d), RoleLock(d), RowsInv(d, owner),
         NEW r \in Revision \ d.applied
  PROVE  RoleLock(Build(d, r))
<1>. DEFINE b == Build(d, r)
<1>1. b.applied = d.applied \cup {r}
  BY Building
<1>2. CASE r = "A12"
  <2>1. PICK e : Raised(d, e, r) /\ b = Fill(e, r)
    BY Raising
  <2>. DEFINE f == FillA12(e)
  <2>2. b = f
    BY <1>2, <2>1 DEF Fill
  <2>3. HasShape(e) /\ e.role = d.role /\ e.tenants = d.tenants
    BY <2>1 DEF Raised, SameRoles, SameTenants
  <2>4. e.schema.locked = d.schema.locked
    BY <1>2, <2>1, Named DEF Raised, RA12, Nothing
  <2>5. /\ e.tenants = {} =>
             /\ f.role = e.role
             /\ f.schema.locked = e.schema.locked \cup {"tenant", "tenant_membership"}
        /\ e.tenants # {} =>
             /\ f.role = Seeded(e.role, RoleSeed(e.tenants))
             /\ f.schema.locked =
                  e.schema.locked \cup {"tenant", "tenant_membership"} \cup RoleTables
    BY <2>3, FillingA12
  <2>. HIDE DEF b, f
  <2>6. CASE e.tenants = {}
    <3>1. f.schema.locked \cap RoleTables = d.schema.locked \cap RoleTables
      BY <2>4, <2>5, <2>6 DEF RoleTables
    <3>2. SeededBy12(f) <=> SeededBy12(d)
      BY <2>3, <2>5, <2>6 DEF SeededBy12
    <3>3. "B06" \in b.applied <=> "B06" \in d.applied
      BY <1>1, <1>2
    <3>. QED  BY <2>2, <3>1, <3>2, <3>3 DEF RoleLock, b
  <2>7. CASE e.tenants # {}
    <3>1. f.schema.locked \cap RoleTables = RoleTables
      BY <2>5, <2>7
    <3>2. SeededBy12(f)
      <4>1. PICK t \in e.tenants : TRUE
        BY <2>7
      <4>2. \E x \in Seeded(e.role, RoleSeed(e.tenants)) : x[2] = "viewer"
        BY ViewerSeeded
      <4>. QED  BY <2>5, <2>7, <4>2 DEF SeededBy12
    <3>. QED  BY <2>2, <3>1, <3>2 DEF RoleLock, b
  <2>. QED  BY <2>6, <2>7 DEF b
<1>3. CASE r = "A06"
  <2>1. d.role = {}
    BY <1>3 DEF RowsInv, RoleInv
  <2>2. PICK e : Raised(d, e, r) /\ b = Fill(e, r)
    BY Raising
  <2>3. Fill(e, r) = FillA06(e)
    BY <1>3 DEF Fill
  <2>4. HasShape(e) /\ e.role = {}
    BY <2>1, <2>2 DEF Raised, SameRoles
  <2>5. \E seen \in {{}, e.tenants} : b.role = Seeded(e.role, FirstSeed(seen))
    BY <2>2, <2>3, <2>4, FillingA06
  <2>6. b.schema.locked \cap RoleTables = d.schema.locked \cap RoleTables
    BY <1>3, BuildLocks
  <2>. HIDE DEF b
  <2>7. ~SeededBy12(b)
    BY <2>4, <2>5, FirstSeedOnly DEF SeededBy12
  <2>8. ~SeededBy12(d)
    BY <2>1 DEF SeededBy12
  <2>9. "B06" \in b.applied <=> "B06" \in d.applied
    BY <1>1, <1>3
  <2>. QED  BY <2>6, <2>7, <2>8, <2>9 DEF RoleLock, b
<1>4. CASE r \notin {"A06", "A12"}
  <2>1. b.role = d.role
    BY <1>4, SameRoleRows
  <2>2. b.schema.locked \cap RoleTables
          = (d.schema.locked \cap RoleTables) \cup (IF r = "B06" THEN RoleTables ELSE {})
    BY <1>4, BuildLocks
  <2>. HIDE DEF b
  <2>3. SeededBy12(b) <=> SeededBy12(d)
    BY <2>1 DEF SeededBy12
  <2>4. "B06" \in b.applied <=> "B06" \in d.applied \/ r = "B06"
    BY <1>1
  <2>. QED  BY <2>2, <2>3, <2>4 DEF RoleLock, b
<1>. QED  BY <1>2, <1>3, <1>4

\* The role tables are unlocked by dropping them, which takes the roles as well;
\* the downgrade of 0012 does neither.
LEMMA StripLock ==
  ASSUME NEW d, HasShape(d), MadeBy(d, d.applied), RoleLock(d), RowsInv(d, owner),
         NEW r, Topmost(d.applied, r)
  PROVE  RoleLock(Strip(d, r))
<1>. DEFINE b == Strip(d, r)
<1>0. r \in Revision /\ r \in d.applied
  BY DEF Topmost
<1>1. PICK e : Lowered(d, e, r) /\ b = Forget(e, r)
  BY <1>0, Lowering
<1>2. /\ r # "A06" => b.role = d.role
      /\ r = "A06" => b.role = {}
  <2>1. HasShape(e) /\ e.role = d.role
    BY <1>1 DEF Lowered, SameRoles
  <2>2. LET f == Forget(e, r)
        IN (r # "A06" => f.role = e.role) /\ (r = "A06" => f.role = {})
    BY <2>1, ForgetSchema DEF SameRoles
  <2>. QED  BY <1>1, <2>1, <2>2
<1>3. b.applied = d.applied \ {r}
  BY <1>0, Stripping
<1>4. b.schema.locked = d.schema.locked \ Upgrade[r].table
  BY StripMade
<1>. HIDE DEF b
<1>5. CASE r \in {"A06", "B06"}
  <2>1. RoleTables \subseteq Upgrade[r].table
    <3>1. RoleTables \subseteq Upgrade["A06"].table
      BY Named DEF RA06, Nothing, RoleTables
    <3>2. RoleTables \subseteq Upgrade["B06"].table
      BY Named DEF RB06, Isolated, Nothing, RoleTables
    <3>. QED  BY <1>5, <3>1, <3>2
  <2>2. "B06" \notin b.applied
    BY <1>3, <1>5 DEF Topmost
  <2>3. b.role = {}
    BY <1>0, <1>2, <1>5 DEF Topmost, RowsInv, RoleInv
  <2>4. ~SeededBy12(b)
    BY <2>3 DEF SeededBy12
  <2>. QED  BY <1>4, <2>1, <2>2, <2>4 DEF RoleLock, b
<1>6. CASE r \notin {"A06", "B06"}
  <2>1. Upgrade[r].table \cap RoleTables = {}
    BY <1>0, <1>6, AtHome
  <2>2. SeededBy12(b) <=> SeededBy12(d)
    BY <1>2, <1>6 DEF SeededBy12
  <2>3. "B06" \in b.applied <=> "B06" \in d.applied
    BY <1>3, <1>6
  <2>4. b.schema.locked \cap RoleTables = d.schema.locked \cap RoleTables
    BY <1>4, <2>1
  <2>. QED  BY <2>2, <2>3, <2>4 DEF RoleLock, b
<1>. QED  BY <1>5, <1>6

(***************************************************************************)
(* The steps of the commands.                                              *)
(***************************************************************************)
LEMMA DataParts ==
  ASSUME NEW d, NEW as, d.applied \subseteq Revision
  PROVE  DataInv(d, as) <=>
           Closed(d.applied) /\ MadeBy(d, d.applied) /\ RoleLock(d) /\ RowsInv(d, as)
BY MadeFields DEF DataInv, RowsInv

LEMMA BuildData ==
  ASSUME NEW d, HasShape(d), DataInv(d, owner),
         NEW r \in Revision \ d.applied, Below[r] \subseteq d.applied
  PROVE  DataInv(Build(d, r), owner)
<1>1. Closed(Build(d, r).applied)
  BY Building DEF DataInv, Closed
<1>2. MadeBy(d, d.applied) /\ RoleLock(d) /\ RowsInv(d, owner) /\ Closed(d.applied)
  BY DataParts DEF HasShape
<1>3. MadeBy(Build(d, r), Build(d, r).applied)
  BY <1>2, BuildMade
<1>4. RowsInv(Build(d, r), owner)
  BY <1>2, BuildRows
<1>5. RoleLock(Build(d, r))
  BY <1>2, BuildLock
<1>6. Build(d, r).applied \subseteq Revision
  BY Building DEF HasShape
<1>. QED  BY <1>1, <1>3, <1>4, <1>5, <1>6, DataParts

LEMMA StripData ==
  ASSUME NEW d, HasShape(d), DataInv(d, owner), NEW r, Topmost(d.applied, r)
  PROVE  DataInv(Strip(d, r), owner)
<1>1. Closed(Strip(d, r).applied)
  BY Stripping DEF Topmost
<1>2. MadeBy(d, d.applied) /\ RoleLock(d) /\ RowsInv(d, owner)
  BY DataParts DEF HasShape
<1>3. MadeBy(Strip(d, r), Strip(d, r).applied)
  BY <1>2, StripMade
<1>4. RowsInv(Strip(d, r), owner)
  BY <1>2, StripRows
<1>5. RoleLock(Strip(d, r))
  BY <1>2, StripLock
<1>6. Strip(d, r).applied \subseteq Revision
  BY Stripping DEF Topmost
<1>. QED  BY <1>1, <1>3, <1>4, <1>5, <1>6, DataParts

LEMMA InitSInv == Init => SInv
<1>. SUFFICES ASSUME Init PROVE SInv
  OBVIOUS
<1>1. /\ db.applied = {} /\ db.schema = Nothing /\ db.tenants = {} /\ db.active = {}
      /\ db.bound = {} /\ db.role = {} /\ db.run = [t \in Tenant |-> NoRun]
      /\ work = db /\ way = "none" /\ plan = {} /\ goal = {} /\ owner \in Owner
  BY DEF Init
<1>2. IsDatabase(db)
  <2>1. NoRun \in Rows
    BY DEF NoRun, Rows
  <2>. QED  BY <1>1, <2>1 DEF IsDatabase
<1>3. RoleInv(db)
  BY <1>1 DEF RoleInv, OneDefault
<1>4. RunInv(db, owner)
  BY <1>1 DEF RunInv, NoRun
<1>5. SchemaIsMade(db)
  <2>1. \A f : Made({}, f) = {}
    BY DEF Made
  <2>2. /\ Nothing.table = {} /\ Nothing.column = {} /\ Nothing.key = {}
        /\ Nothing.policy = {} /\ Nothing.locked = {}
    BY DEF Nothing
  <2>3. ~SeededBy12(db)
    BY <1>1 DEF SeededBy12
  <2>. QED  BY <1>1, <2>1, <2>2, <2>3 DEF SchemaIsMade
<1>6. DataInv(db, owner) /\ DataInv(work, owner)
  BY <1>1, <1>2, <1>3, <1>4, <1>5 DEF DataInv, Closed
<1>7. TypeOK
  BY <1>1, <1>2 DEF TypeOK, Line
<1>8. LineInv
  BY <1>1 DEF LineInv
<1>. QED  BY <1>6, <1>7, <1>8, InitIInv DEF SInv

LEMMA BeginSInv ==
  ASSUME SInv, Command
  PROVE  SInv'
<1>0. /\ IInv' /\ DataInv(db, owner) /\ db.applied \subseteq Revision /\ owner \in Owner
      /\ Closed(db.applied)
  BY BeginStep DEF SInv, IInv, HasShape, TypeOK, DataInv
<1>1. ASSUME NEW order, NEW steps, NEW target, Begin(order, steps, target),
             steps \subseteq Revision, target \subseteq Revision, Closed(target),
             order # "down" => steps \cap db.applied = {}
      PROVE  SInv'
  <2>1. /\ way' = order /\ plan' = steps /\ goal' = target
        /\ work' = db /\ db' = db /\ owner' = owner
    BY <1>1 DEF Begin
  <2>2. LineInv'
    BY <1>1, <2>1 DEF LineInv
  <2>3. DataInv(db, owner)' /\ DataInv(work, owner)'
    BY <1>0, <2>1
  <2>4. TypeOK'
    <3>1. way' \in DOMAIN Line
      BY <1>0 DEF IInv, Line
    <3>. QED  BY <1>0, <1>1, <2>1, <2>3, <3>1 DEF TypeOK, DataInv
  <2>. QED  BY <1>0, <2>2, <2>3, <2>4 DEF SInv
<1>2. ASSUME NEW targets \in SUBSET Revision, NEW order \in {"AB", "BA"},
             UpgradeTo(targets, order)
      PROVE  SInv'
  <2>. DEFINE wanted == (targets \cup UNION {Below[r] : r \in targets}) \ db.applied
  <2>1. wanted \subseteq Revision
    BY DEF Below
  <2>2. Closed(db.applied \cup wanted)
    <3>1. ASSUME NEW r \in wanted, NEW x \in Below[r] PROVE x \in db.applied \cup wanted
      BY BelowBelow
    <3>. QED  BY <1>0, <3>1 DEF Closed
  <2>3. Begin(order, wanted, db.applied \cup wanted)
    BY <1>2 DEF UpgradeTo
  <2>. HIDE DEF wanted
  <2>4. wanted \cap db.applied = {}
    BY DEF wanted
  <2>. QED  BY <1>0, <1>1, <2>1, <2>2, <2>3, <2>4
<1>3. ASSUME NEW kept, Closed(kept), DowngradeTo(kept) PROVE SInv'
  <2>1. Begin("down", db.applied \ kept, db.applied \cap kept)
    BY <1>3 DEF DowngradeTo
  <2>2. Closed(db.applied \cap kept)
    BY <1>0, <1>3 DEF Closed
  <2>. QED  BY <1>0, <1>1, <2>1, <2>2
<1>4. ASSUME NEW r PROVE Closed({x \in Revision : r \notin Below[x]})
  <2>1. \A x \in Revision : Below[x] \subseteq Revision
    BY DEF Below
  <2>. QED  BY <2>1, BelowBelow DEF Closed
<1>5. Closed({})
  BY DEF Closed
<1>6. {"A12", "B09"} \subseteq Revision
  BY RevisionSet
<1>. QED  BY <1>2, <1>3, <1>4, <1>5, <1>6 DEF Command

\* The next revision in line can be applied, or dropped.
LEMMA NextInLine ==
  ASSUME SInv, Step
  PROVE  \E r \in plan :
           /\ plan' = plan \ {r}
           /\ way = "down" => Topmost(work.applied, r) /\ work' = Strip(work, r)
           /\ way # "down" => /\ way \in {"AB", "BA"} /\ r \notin work.applied
                              /\ Below[r] \subseteq work.applied /\ work' = Build(work, r)
<1>0. /\ way \in {"none", "AB", "BA", "down"} /\ GoalInv /\ LineInv
      /\ plan \subseteq Revision /\ work.applied \subseteq Revision
      /\ Closed(work.applied) /\ BranchInv(work)
  BY DEF SInv, IInv, HasShape, TypeOK, DataInv
<1>1. PICK i \in DOMAIN Line[way] :
        /\ Line[way][i] \in plan /\ \A j \in 1 .. i - 1 : Line[way][j] \notin plan
        /\ work' = IF way = "down" THEN Strip(work, Line[way][i]) ELSE Build(work, Line[way][i])
        /\ plan' = plan \ {Line[way][i]}
  BY DEF Step, Advance
<1>. DEFINE r == Line[way][i]
<1>2. way # "none"
  BY <1>1 DEF Line
<1>3. DOMAIN Line[way] = 1 .. 16
  BY <1>0, <1>2, ABSteps, BASteps, NewestSteps DEF Line
<1>4. CASE way = "down"
  <2>1. Line[way] = Newest
    BY <1>4 DEF Line
  <2>2. goal = work.applied \ plan /\ plan \subseteq work.applied /\ Closed(goal)
    BY <1>0, <1>4 DEF GoalInv, LineInv
  <2>3. ASSUME NEW x \in work.applied, x # r PROVE r \notin Below[x]
    <3>1. SUFFICES ASSUME r \in Below[x] PROVE FALSE
      OBVIOUS
    <3>2. PICK j \in 1 .. i - 1 : Newest[j] = x
      BY <1>0, <1>1, <1>3, <2>1, <3>1, DownInOrder
    <3>3. x \in goal
      BY <1>1, <2>1, <2>2, <3>2
    <3>. QED  BY <1>1, <2>2, <3>1, <3>3 DEF Closed
  <2>. HIDE DEF r
  <2>4. r \in plan
    BY <1>1 DEF r
  <2>5. Topmost(work.applied, r)
    BY <1>0, <2>2, <2>3, <2>4 DEF Topmost, Closed, BranchInv
  <2>. QED  BY <1>1, <1>4, <2>5 DEF r
<1>5. CASE way # "down"
  <2>1. way \in {"AB", "BA"}
    BY <1>0, <1>2, <1>5
  <2>2. goal = work.applied \cup plan /\ Closed(goal) /\ plan \cap work.applied = {}
    BY <1>0, <2>1 DEF GoalInv, LineInv
  <2>3. r \in plan /\ r \in Revision
    BY <1>0, <1>1
  <2>4. ASSUME NEW x \in Below[r] PROVE x \in work.applied
    <3>1. PICK j \in 1 .. i - 1 : Line[way][j] = x
      BY <1>1, <1>3, <2>1, <2>3, UpInOrder
    <3>2. x \notin plan
      BY <1>1, <3>1
    <3>3. x \in goal
      BY <2>2, <2>3 DEF Closed
    <3>. QED  BY <2>2, <3>2, <3>3
  <2>. HIDE DEF r
  <2>. QED  BY <1>1, <1>5, <2>1, <2>2, <2>3, <2>4 DEF r
<1>. QED  BY <1>4, <1>5

LEMMA AdvanceSInv ==
  ASSUME SInv, Step
  PROVE  SInv'
<1>0. /\ IInv' /\ LineInv /\ HasShape(work) /\ plan \subseteq Revision
      /\ goal \subseteq Revision /\ owner \in Owner
      /\ DataInv(db, owner) /\ DataInv(work, owner)
  BY AdvanceStep DEF SInv, IInv, TypeOK
<1>1. PICK r \in plan :
           /\ plan' = plan \ {r}
           /\ way = "down" => Topmost(work.applied, r) /\ work' = Strip(work, r)
           /\ way # "down" => /\ way \in {"AB", "BA"} /\ r \notin work.applied
                              /\ Below[r] \subseteq work.applied /\ work' = Build(work, r)
  BY NextInLine
<1>2. UNCHANGED <<db, way, goal, owner>>
  BY DEF Step
<1>3. DataInv(work', owner)
  <2>1. CASE way = "down"
    BY <1>0, <1>1, <2>1, StripData
  <2>2. CASE way # "down"
    BY <1>0, <1>1, <2>2, BuildData
  <2>. QED  BY <2>1, <2>2
<1>4. LineInv'
  <2>1. CASE way = "down"
    BY <1>0, <1>2, <2>1 DEF LineInv
  <2>2. CASE way # "down"
    <3>1. work'.applied = work.applied \cup {r}
      BY <1>0, <1>1, <2>2, Building
    <3>. QED  BY <1>0, <1>1, <1>2, <2>2, <3>1 DEF LineInv
  <2>. QED  BY <2>1, <2>2
<1>5. DataInv(db, owner)' /\ DataInv(work, owner)'
  BY <1>0, <1>2, <1>3
<1>6. TypeOK'
  <2>1. way' \in DOMAIN Line
    BY <1>0 DEF IInv, Line
  <2>. QED  BY <1>0, <1>1, <1>2, <1>5, <2>1 DEF TypeOK, DataInv
<1>. QED  BY <1>0, <1>4, <1>5, <1>6 DEF SInv

LEMMA EndSInv ==
  ASSUME SInv, Commit \/ Rollback
  PROVE  SInv'
<1>1. IInv' /\ owner' = owner /\ owner \in Owner
  BY EndStep DEF SInv, TypeOK, Commit, Rollback
<1>2. way' = "none" /\ plan' = {} /\ goal' = {}
  BY DEF Commit, Rollback, Finish
<1>3. DataInv(db, owner)' /\ DataInv(work, owner)'
  BY <1>1 DEF SInv, Commit, Rollback
<1>4. LineInv'
  BY <1>2 DEF LineInv
<1>5. TypeOK'
  <2>1. way' \in DOMAIN Line
    BY <1>1 DEF IInv, Line
  <2>. QED  BY <1>1, <1>2, <1>3, <2>1 DEF TypeOK, DataInv
<1>. QED  BY <1>1, <1>3, <1>4, <1>5 DEF SInv

LEMMA ChangeSInv ==
  ASSUME SInv, IInv', NEW d, SameSchemas(db, d), d.role = db.role, RowsInv(d, owner),
         Change(d), way = "none"
  PROVE  SInv'
<1>1. /\ db' = d /\ work' = d /\ way' = "none" /\ plan' = plan /\ goal' = goal
      /\ owner' = owner /\ owner \in Owner /\ plan \subseteq Revision /\ goal \subseteq Revision
  BY DEF Change, command, SInv, TypeOK
<1>2. d.applied = db.applied /\ d.schema = db.schema
  BY DEF SameSchemas, SameTables
<1>3. Closed(d.applied) /\ SchemaIsMade(d)
  BY <1>2 DEF SInv, DataInv, SchemaIsMade, SeededBy12
<1>4. DataInv(d, owner)
  BY <1>3 DEF DataInv, RowsInv
<1>5. DataInv(db, owner)' /\ DataInv(work, owner)'
  BY <1>1, <1>4
<1>6. TypeOK'
  <2>1. way' \in DOMAIN Line
    BY <1>1 DEF Line
  <2>. QED  BY <1>1, <1>5, <2>1 DEF TypeOK, DataInv
<1>7. LineInv'
  BY <1>1 DEF LineInv
<1>. QED  BY <1>5, <1>6, <1>7 DEF SInv

LEMMA RowsOfRun ==
  ASSUME NEW d, HasShape(d), RowsInv(d, owner), NEW rows \in [Tenant -> Rows],
         \A t \in Tenant : rows[t].label = "none" => rows[t].status = "none",
         owner = "bypass" /\ "B07" \in d.applied =>
           \A t \in Tenant : rows[t].status = rows[t].label
  PROVE  LET e == WithRun(d, rows)
         IN SameSchemas(d, e) /\ e.role = d.role /\ RowsInv(e, owner)
<1>. DEFINE e == WithRun(d, rows)
<1>1. SameSchemas(d, e) /\ SameTenants(d, e) /\ SameRoles(d, e) /\ e.run = rows
  BY RunRows
<1>. HIDE DEF e
<1>2. /\ e.applied = d.applied /\ e.schema = d.schema /\ e.tenants = d.tenants
      /\ e.active = d.active /\ e.role = d.role /\ e.bound = d.bound
  BY <1>1 DEF SameSchemas, SameTables, SameTenants, SameRoles
<1>3. IsDatabase(e)
  BY <1>1, <1>2 DEF RowsInv, IsDatabase
<1>4. RoleInv(e)
  BY <1>2 DEF RowsInv, RoleInv, WithAdmin
<1>5. RunInv(e, owner)
  BY <1>1, <1>2 DEF RunInv
<1>. QED  BY <1>1, <1>2, <1>3, <1>4, <1>5 DEF RowsInv, e

LEMMA RowsOfTenant ==
  ASSUME NEW d, HasShape(d), RowsInv(d, owner), NEW t \in Tenant, NEW active \in BOOLEAN
  PROVE  LET now == IF active THEN d.active \cup {t} ELSE d.active
             e == WithActive(WithTenants(d, d.tenants \cup {t}), now)
         IN SameSchemas(d, e) /\ e.role = d.role /\ RowsInv(e, owner)
<1>. DEFINE all == d.tenants \cup {t}
            now == IF active THEN d.active \cup {t} ELSE d.active
            f == WithTenants(d, all)
            e == WithActive(f, now)
<1>1. /\ SameSchemas(d, f) /\ f.tenants = all /\ f.active = d.active /\ SameRoles(d, f)
      /\ f.run = d.run
  BY TenantRows
<1>. HIDE DEF f, now
<1>2. /\ SameSchemas(f, e) /\ e.tenants = f.tenants /\ e.active = now /\ SameRoles(f, e)
      /\ e.run = f.run
  BY <1>1, ActiveRows DEF SameSchemas, SameTables
<1>. HIDE DEF e
<1>3. SameSchemas(d, e)
  BY <1>1, <1>2 DEF SameSchemas, SameTables
<1>4. /\ e.applied = d.applied /\ e.schema = d.schema /\ e.tenants = all /\ e.active = now
      /\ e.role = d.role /\ e.bound = d.bound /\ e.run = d.run
  BY <1>1, <1>2 DEF SameSchemas, SameTables, SameRoles
<1>5. IsDatabase(e)
  <2>1. all \subseteq Tenant /\ now \subseteq all /\ d.bound \subseteq all
    BY DEF RowsInv, IsDatabase, now
  <2>2. d.role \subseteq all \X Roles \X BOOLEAN
    BY DEF RowsInv, IsDatabase
  <2>. QED  BY <1>4, <2>1, <2>2 DEF RowsInv, IsDatabase
<1>6. RoleInv(e)
  BY <1>4 DEF RowsInv, RoleInv, WithAdmin
<1>7. RunInv(e, owner)
  BY <1>4 DEF RowsInv, RunInv
<1>. QED  BY <1>3, <1>4, <1>5, <1>6, <1>7 DEF RowsInv, e, f, now

LEMMA DataSInv ==
  ASSUME SInv, Data
  PROVE  SInv'
<1>0. /\ IInv' /\ HasShape(db) /\ RowsInv(db, owner) /\ db.tenants \subseteq Tenant
      /\ db.run \in [Tenant -> Rows]
      /\ \A t \in Tenant : db.run[t].label = "none" => db.run[t].status = "none"
      /\ owner = "bypass" /\ "B07" \in db.applied =>
           \A t \in Tenant : db.run[t].status = db.run[t].label
  BY DataStep DEF SInv, IInv, DataInv, RowsInv, IsDatabase, RunInv
<1>1. ASSUME NEW t \in Tenant, NEW active \in BOOLEAN, AddTenant(t, active) PROVE SInv'
  <2>. DEFINE now == IF active THEN db.active \cup {t} ELSE db.active
              d == [db EXCEPT !.tenants = db.tenants \cup {t}, !.active = now]
              e == WithActive(WithTenants(db, db.tenants \cup {t}), now)
  <2>1. way = "none" /\ Change(d)
    BY <1>1 DEF AddTenant, HasShape
  <2>2. d = e
    BY DEF WithTenants, WithActive
  <2>3. SameSchemas(db, e) /\ e.role = db.role /\ RowsInv(e, owner)
    BY <1>0, RowsOfTenant
  <2>. HIDE DEF d, e, now
  <2>. QED  BY <1>0, <2>1, <2>2, <2>3, ChangeSInv
<1>2. ASSUME NEW t \in Tenant, NEW x \in Rows, x.label = "none" => x.status = "none",
             owner = "bypass" /\ "B07" \in db.applied => x.status = x.label,
             way = "none", Change([db EXCEPT !.run[t] = x])
      PROVE  SInv'
  <2>. DEFINE rows == [db.run EXCEPT ![t] = x]
              d == [db EXCEPT !.run[t] = x]
  <2>1. rows \in [Tenant -> Rows] /\ \A s \in Tenant : rows[s] = IF s = t THEN x ELSE db.run[s]
    BY <1>0
  <2>2. d = WithRun(db, rows)
    BY DEF WithRun
  <2>. HIDE DEF rows, d
  <2>3. /\ \A s \in Tenant : rows[s].label = "none" => rows[s].status = "none"
        /\ owner = "bypass" /\ "B07" \in db.applied =>
             \A s \in Tenant : rows[s].status = rows[s].label
    BY <1>0, <1>2, <2>1
  <2>4. SameSchemas(db, d) /\ d.role = db.role /\ RowsInv(d, owner)
    BY <1>0, <2>1, <2>2, <2>3, RowsOfRun
  <2>5. Change(d)
    BY <1>2 DEF d
  <2>. QED  BY <1>0, <1>2, <2>4, <2>5, ChangeSInv
<1>3. ASSUME NEW t \in Tenant, NEW label \in Label, AddRun(t, label) PROVE SInv'
  <2>. DEFINE x == [label |-> label, status |-> "none"]
  <2>1. x \in Rows /\ x.label = label /\ x.status = "none" /\ label # "none"
    BY DEF Rows, Label
  <2>2. way = "none" /\ "B07" \notin db.applied /\ Change([db EXCEPT !.run[t] = x])
    BY <1>3 DEF AddRun
  <2>. HIDE DEF x
  <2>. QED  BY <1>2, <2>1, <2>2
<1>4. ASSUME NEW t \in Tenant, NEW label \in Label, Work(t, label) PROVE SInv'
  <2>. DEFINE x == [label |-> label, status |-> label]
  <2>1. x \in Rows /\ x.label = label /\ x.status = label /\ label # "none"
    BY DEF Rows, Label
  <2>2. way = "none" /\ Change([db EXCEPT !.run[t] = x])
    BY <1>4 DEF Work
  <2>. HIDE DEF x
  <2>. QED  BY <1>2, <2>1, <2>2
<1>. QED  BY <1>1, <1>3, <1>4 DEF Data

LEMMA NextSInv == SInv /\ [Next]_vars => SInv'
<1>1. SInv /\ UNCHANGED vars => SInv'
  BY DEF vars, command, SInv, IInv, GoalInv, TypeOK, LineInv
<1>. QED  BY <1>1, BeginSInv, AdvanceSInv, EndSInv, DataSInv DEF Next

(***************************************************************************)
(* The theorems.                                                           *)
(***************************************************************************)
\* The schema and the rows of the committed database and of the transaction are
\* consistent at every step, and a command does what its goal says.
THEOREM DataInvariant == Spec => []SInv
<1>. QED  BY InitSInv, NextSInv, PTL DEF Spec

\* migrations/versions: upgrades, downgrades and work in between keep the types;
\* what the revisions fill in names tenants that exist.
THEOREM MigrationsTypeCorrect == Spec => []TypeOK
<1>1. SInv => TypeOK
  BY DEF SInv
<1>. QED  BY <1>1, DataInvariant, PTL

\* In whatever order branches, failures and repetitions come, a downgrade takes
\* nothing of the other revisions and leaves nothing of its own, but for the row
\* security that 0012 has forced on the role tables and that stays until 0006
\* drops them.
THEOREM SchemaCorrect == Spec => []SchemaMatchesRevisions
<1>1. SInv => SchemaMatchesRevisions
  BY DEF SInv, DataInv, SchemaMatchesRevisions
<1>. QED  BY <1>1, DataInvariant, PTL

\* _enable_rls and the seeds of 0007, 0011 and 0012: every committed table of
\* a tenant is forced under row security and has its policy.
THEOREM IsolationCorrect == Spec => []TenantTablesIsolated
<1>1. ASSUME SInv, NEW t \in db.schema.table \cap Isolates
      PROVE  t \in db.schema.locked /\ <<t, "isolation">> \in db.schema.policy
  <2>1. MadeBy(db, db.applied) /\ db.applied \subseteq Revision
    BY <1>1, MadeFields DEF SInv, DataInv, IsDatabase
  <2>2. PICK r \in db.applied : t \in Upgrade[r].table
    BY <2>1, InMade DEF MadeBy
  <2>3. t \in Upgrade[r].locked /\ <<t, "isolation">> \in Upgrade[r].policy
    BY <2>1, <2>2, OwnFactsOf DEF OwnFacts
  <2>4. t \in Made(db.applied, "locked") /\ <<t, "isolation">> \in Made(db.applied, "policy")
    BY <2>3, InMade
  <2>5. t \notin RoleTables
    BY DEF Isolates, RoleTables
  <2>. QED  BY <2>1, <2>4, <2>5 DEF MadeBy
<1>2. SInv => TenantTablesIsolated
  BY <1>1 DEF SInv, DataInv, RoleInv, TenantTablesIsolated
<1>. QED  BY <1>2, DataInvariant, PTL

\* 0006 and 0012 both seed a default role: a tenant never has two, and a member
\* is bound to a role of its own tenant.
THEOREM RoleCorrect == Spec => []OneDefaultRole
<1>1. SInv => OneDefaultRole
  BY DEF SInv, DataInv, RoleInv, OneDefaultRole
<1>. QED  BY <1>1, DataInvariant, PTL

\* The backfill of 0007 and _apply_status after it: to a migrating role that
\* sees the rows, status and label agree as long as the column is there.
THEOREM StatusCorrect == Spec => []StatusMatchesLabel
<1>1. SInv => StatusMatchesLabel
  BY DEF SInv, DataInv, RunInv, StatusMatchesLabel
<1>. QED  BY <1>1, DataInvariant, PTL

\* The models map tables of both branches, and no database has both: whatever
\* commands are run, no committed schema is one the ORM could work on.
THEOREM NeverServed == Spec => [](~ ServesModels)
<1>1. ASSUME SInv, ServesModels PROVE FALSE
  <2>1. /\ db.schema.table = Made(db.applied, "table") /\ db.applied \subseteq Revision
        /\ Closed(db.applied) /\ BranchInv(db)
    BY <1>1, MadeFields DEF SInv, IInv, DataInv, IsDatabase, MadeBy
  <2>2. {"audit_event", "material_file"} \subseteq db.schema.table
    BY <1>1 DEF ServesModels, Mapped, MappedGovernance, MappedContent
  <2>3. "A08" \in db.applied
    <3>1. PICK r \in db.applied : "audit_event" \in Upgrade[r].table
      BY <2>1, <2>2, InMade
    <3>2. r = Home("audit_event")
      BY <2>1, <3>1, AtHome DEF RoleTables
    <3>. QED  BY <3>1, <3>2 DEF Home, TenancyTables, OrganizationTables
  <2>4. "B09" \in db.applied
    <3>1. PICK r \in db.applied : "material_file" \in Upgrade[r].table
      BY <2>1, <2>2, InMade
    <3>2. r = Home("material_file")
      BY <2>1, <3>1, AtHome DEF RoleTables
    <3>. QED  BY <3>1, <3>2 DEF Home, TenancyTables, OrganizationTables
  <2>5. "A06" \in Below["A08"] /\ "B06" \in Below["B09"]
    <3>1. LineA[6] \in Below[LineA[8]] /\ LineB[6] \in Below[LineB[9]]
      BY OnLine
    <3>. QED  BY <3>1, LineASteps, LineBSteps
  <2>. QED  BY <2>1, <2>3, <2>4, <2>5 DEF Closed, BranchInv
<1>2. SInv => ~ ServesModels
  BY <1>1
<1>. QED  BY <1>2, DataInvariant, PTL
=============================================================================
