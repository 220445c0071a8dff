------------------------ MODULE GraspCandidates_proofs ------------------------
(***************************************************************************)
(* The invariants of GraspCandidates, and that it keeps the promise of     *)
(* FoodGrasps, for any rows, cameras and limits.                           *)
(*                                                                         *)
(* The inductive invariant joins the properties to what a stage says of    *)
(* the rest: which arrays are still empty, which requests are of earlier   *)
(* goals, and that every grasp on its way to the result is on the food.    *)
(***************************************************************************)
EXTENDS GraspCandidates, FiniteSetTheorems, TLAPS

-----------------------------------------------------------------------------
(* Arrays                                                                  *)

\* An array has a length, within its limit, and its values are of their set.
LEMMA ListLength ==
  ASSUME NEW max \in Nat, NEW S, NEW f \in List(max, S)
  PROVE  \E n \in 0 .. max : DOMAIN f = 1 .. n /\ f \in [1 .. n -> S]
BY DEF List

\* As many values of another set make an array of that set.
LEMMA ListOf ==
  ASSUME NEW max \in Nat, NEW S, NEW T, NEW f \in List(max, S),
         NEW g \in [DOMAIN f -> T]
  PROVE  g \in List(max, T)
<1>1. PICK n \in 0 .. max : DOMAIN f = 1 .. n /\ f \in [1 .. n -> S]
  BY ListLength
<1>2. g \in [1 .. n -> T]
  BY <1>1
<1> QED
  BY <1>2 DEF List

\* The indices of an array are numbers within its limit.
LEMMA ListIndices ==
  ASSUME NEW max \in Nat, NEW S, NEW f \in List(max, S)
  PROVE  /\ DOMAIN f \subseteq 1 .. max
         /\ f \in [DOMAIN f -> S]
<1>1. PICK n \in 0 .. max : DOMAIN f = 1 .. n /\ f \in [1 .. n -> S]
  BY ListLength
<1> QED
  BY <1>1

\* The array without values is one of every set.
LEMMA EmptyList ==
  ASSUME NEW max \in Nat, NEW S
  PROVE  Empty \in List(max, S) /\ DOMAIN Empty = {}
<1>1. Empty \in [1 .. 0 -> S] /\ DOMAIN Empty = {}
  BY DEF Empty
<1> QED
  BY <1>1 DEF List

\* The first part of an array is an array.
LEMMA TopOfList ==
  ASSUME NEW max \in Nat, NEW S, NEW f \in List(max, S), NEW few \in Nat
  PROVE  /\ Top(few, f) \in List(max, S)
         /\ DOMAIN Top(few, f) \subseteq DOMAIN f
         /\ \A i \in DOMAIN Top(few, f) : Top(few, f)[i] = f[i]
<1>1. PICK n \in 0 .. max : DOMAIN f = 1 .. n /\ f \in [1 .. n -> S]
  BY ListLength
<1> DEFINE m == IF few < n THEN few ELSE n
<1>2. m \in 0 .. max /\ {j \in DOMAIN f : j <= few} = 1 .. m
  BY <1>1
<1>3. Top(few, f) \in [1 .. m -> S]
  BY <1>1, <1>2 DEF Top
<1>4. Top(few, f) \in List(max, S)
  BY <1>2, <1>3 DEF List
<1> QED
  BY <1>4 DEF Top

\* A set as an increasing array: its values are the set, each of them once.
LEMMA IncreasingArray ==
  ASSUME NEW S, S \subseteq 1 .. N, NEW f \in Increasing(S)
  PROVE  /\ f \in List(N, S)
         /\ Values(f) = S
         /\ \A i, j \in DOMAIN f : f[i] = f[j] => i = j
<1>1. f \in List(N, S) /\ Values(f) = S
      /\ \A i, j \in DOMAIN f : i < j => f[i] < f[j]
  BY DEF Increasing
<1>2. DOMAIN f \subseteq 1 .. N /\ f \in [DOMAIN f -> S]
  BY <1>1, ListIndices, SizesAssumption
<1>3. ASSUME NEW i \in DOMAIN f, NEW j \in DOMAIN f, f[i] = f[j] PROVE i = j
  <2>1. f[i] \in Int /\ f[j] \in Int /\ i \in Int /\ j \in Int
    BY <1>2
  <2>2. ~(i < j) /\ ~(j < i)
    BY <1>1, <1>3, <2>1
  <2> QED
    BY <2>1, <2>2
<1> QED
  BY <1>1, <1>3

\* Every value has an index.
LEMMA ValueHasIndex ==
  ASSUME NEW f, NEW v \in Values(f)
  PROVE  \E i \in DOMAIN f : f[i] = v
BY DEF Values

\* What an index has is a value.
LEMMA IndexHasValue ==
  ASSUME NEW f, NEW i \in DOMAIN f
  PROVE  f[i] \in Values(f)
BY DEF Values

\* The indices of rows are rows.
LEMMA IndicesArePoints ==
  ASSUME TypeOK
  PROVE  /\ DOMAIN cloud \subseteq Points
         /\ cloud \in [DOMAIN cloud -> Points]
         /\ source \in [DOMAIN source -> Cameras]
         /\ DOMAIN food \subseteq Points
         /\ food \in [DOMAIN food -> DOMAIN cloud]
BY ListIndices, SizesAssumption DEF TypeOK, Points

-----------------------------------------------------------------------------
(* The inductive invariant                                                 *)

Early == {"idle", "capture", "model", "subtract"}
Unasked == Stages \ {"idle", "gpd", "check"}

\* What each stage says of the rest.
StageInv ==
  /\ stage # "idle" => goal > 0 /\ outcome = "none"
  /\ stage \in Early => food = Empty
  /\ stage \notin {"gpd", "check"} => ~answered
  /\ \A r \in asked : r.goal <= goal /\ (stage \in Unasked => r.goal < goal)

OnFood(g) == g.point \in FoodPoints /\ g.facing = SeenBy[g.point]

\* What is on its way to the result is on the food, judged from its camera.
GraspInv ==
  /\ answered => \A k \in DOMAIN grasps : OnFood(grasps[k])
  /\ stage = "check" => \A k \in DOMAIN poses : OnFood(poses[k].grasp)

Published == {"crop", "ask", "gpd", "check"}

\* Once the food of a goal is published, the message has its points and its
\* stamp; until then the last message is of an earlier goal.
CloudInv ==
  /\ octomap.stamp <= goal
  /\ stage \in Published => Values(octomap.points) = FoodPoints /\ octomap.stamp = goal
  /\ stage \notin Published \cup {"idle"} => octomap.stamp < goal
  /\ stage = "check" => \A k \in DOMAIN poses : poses[k].stamp = goal
  /\ stage # "idle" => returned = {}

TopicsInv == CloudInv /\ FoodPublishedFirst

IInv == TypeOK /\ RequestsAgree /\ StageInv /\ TopicsInv /\ GraspInv

\* The points of the food follow the cloud and the indices.
LEMMA FoodUnchanged ==
  ASSUME UNCHANGED << cloud, food >>
  PROVE  FoodPoints' = FoodPoints
<1>1. cloud' = cloud /\ food' = food
  OBVIOUS
<1> QED
  BY <1>1, Zenon DEF FoodPoints, Values

\* The points of the food, one per index.
LEMMA FoodByIndex ==
  FoodPoints = {cloud[food[i]] : i \in DOMAIN food}
BY DEF FoodPoints, Values

\* The food is of the rows.
LEMMA FoodIsOfRows ==
  ASSUME TypeOK
  PROVE  FoodPoints \subseteq Points
BY IndicesArePoints, FoodByIndex

\* Where there is enough food there is food.
LEMMA FoodFound ==
  ASSUME TypeOK, Enough
  PROVE  FoodPoints # {}
<1>1. DOMAIN food # {}
  BY LimitsAssumption, FS_EmptySet DEF Enough
<1> QED
  BY <1>1, FoodByIndex

-----------------------------------------------------------------------------
(* The steps that make arrays                                              *)

\* The callback ends with empty arrays, which agree.
LEMMA EmptyArraysAgree ==
  ArraysAgree(Empty, Empty, Empty)
<1>1. DOMAIN Empty = {}
  BY DEF Empty
<1> QED
  BY <1>1 DEF ArraysAgree, Values

\* Merge lays out every point once, with its camera.
LEMMA MergeMakes ==
  ASSUME IInv, Merge
  PROVE  /\ cloud' \in List(N, Points) /\ source' \in List(N, Cameras)
         /\ food' \in List(N, DOMAIN cloud')
         /\ ArraysAgree(cloud', source', food')
<1>1. food' = Empty
  BY DEF Merge, IInv, StageInv, Early
<1>2. PICK finite \in SUBSET Points : \E rows \in Increasing(finite) :
        cloud' = rows /\ source' = [i \in DOMAIN rows |-> SeenBy[rows[i]]]
  BY DEF Merge
<1>12. PICK rows \in Increasing(finite) :
        cloud' = rows /\ source' = [i \in DOMAIN rows |-> SeenBy[rows[i]]]
  BY <1>2
<1>3. /\ rows \in List(N, finite)
      /\ \A i, j \in DOMAIN rows : rows[i] = rows[j] => i = j
  BY IncreasingArray DEF Points
<1>4. rows \in [DOMAIN rows -> Points]
  BY <1>3, ListIndices, SizesAssumption
<1>5. rows \in List(N, Points)
  BY <1>3, <1>4, ListOf, SizesAssumption
<1>6. source' \in [DOMAIN rows -> Cameras]
  BY <1>12, <1>4, CamerasAssumption
<1>7. source' \in List(N, Cameras)
  BY <1>5, <1>6, ListOf, SizesAssumption
<1>8. Empty \in List(N, DOMAIN cloud')
  BY EmptyList, SizesAssumption
<1>9. Values(Empty) = {} /\ DOMAIN Empty = {}
  BY DEF Empty, Values
<1> QED
  BY <1>1, <1>12, <1>3, <1>4, <1>5, <1>7, <1>8, <1>9 DEF ArraysAgree

\* Subtract keeps some indices, each once.
LEMMA SubtractMakes ==
  ASSUME IInv, Subtract
  PROVE  food' \in List(N, DOMAIN cloud) /\ ArraysAgree(cloud, source, food')
<1>1. PICK far \in SUBSET DOMAIN cloud : food' \in Increasing(far)
  BY DEF Subtract
<1>2. far \subseteq 1 .. N
  BY <1>1, IndicesArePoints DEF IInv, Points
<1>3. /\ food' \in List(N, far) /\ Values(food') = far
      /\ \A i, j \in DOMAIN food' : food'[i] = food'[j] => i = j
  BY <1>1, <1>2, IncreasingArray
<1>4. food' \in [DOMAIN food' -> DOMAIN cloud]
  BY <1>3, ListIndices, SizesAssumption
<1>5. food' \in List(N, DOMAIN cloud)
  BY <1>3, <1>4, ListOf, SizesAssumption
<1>6. ArraysAgree(cloud, source, food)
  BY DEF IInv, RequestsAgree
<1> QED
  BY <1>3, <1>5, <1>6 DEF ArraysAgree

\* Cluster keeps some of the food, each index once.
LEMMA ClusterMakes ==
  ASSUME IInv, Cluster
  PROVE  food' \in List(N, DOMAIN cloud) /\ ArraysAgree(cloud, source, food')
<1>1. PICK labels \in [DOMAIN food -> Labels \cup {-1}], valid \in SUBSET Labels :
           \E kept \in Increasing(LargestCluster(labels, valid)) :
             food' = [i \in DOMAIN kept |-> OriginalIndices[food[kept[i]]]]
  BY DEF Cluster
<1>14. PICK kept \in Increasing(LargestCluster(labels, valid)) :
         food' = [i \in DOMAIN kept |-> OriginalIndices[food[kept[i]]]]
  BY <1>1
<1>2. LargestCluster(labels, valid) \subseteq DOMAIN food
  BY <1>1 DEF LargestCluster
<1>3. LargestCluster(labels, valid) \subseteq 1 .. N
  BY <1>2, IndicesArePoints DEF IInv, Points
<1>4. /\ kept \in List(N, LargestCluster(labels, valid))
      /\ \A i, j \in DOMAIN kept : kept[i] = kept[j] => i = j
  BY <1>3, IncreasingArray
<1>5. kept \in [DOMAIN kept -> DOMAIN food]
  BY <1>2, <1>4, ListIndices, SizesAssumption
<1>6. food \in [DOMAIN food -> DOMAIN cloud]
  BY IndicesArePoints DEF IInv
<1>7. food' = [i \in DOMAIN kept |-> food[kept[i]]]
  BY <1>14, <1>5, <1>6 DEF OriginalIndices
<1>8. food' \in [DOMAIN kept -> DOMAIN cloud]
  BY <1>5, <1>6, <1>7
<1>9. food' \in List(N, DOMAIN cloud)
  BY <1>4, <1>8, ListOf, SizesAssumption
<1>10. ArraysAgree(cloud, source, food)
  BY DEF IInv, RequestsAgree
<1>11. \A i, j \in DOMAIN food : food[i] = food[j] => i = j
  BY <1>10 DEF ArraysAgree
<1>12. \A i, j \in DOMAIN food' : food'[i] = food'[j] => i = j
  BY <1>4, <1>5, <1>7, <1>11
<1>13. Values(food') \subseteq DOMAIN cloud
  BY <1>8 DEF Values
<1> QED
  BY <1>9, <1>10, <1>12, <1>13 DEF ArraysAgree

\* Crop renumbers the points, and the sources and the food with them: what the
\* food is, is the same.
LEMMA CropMakes ==
  ASSUME IInv, Crop
  PROVE  /\ cloud' \in List(N, Points) /\ source' \in List(N, Cameras)
         /\ food' \in List(N, DOMAIN cloud')
         /\ ArraysAgree(cloud', source', food')
         /\ FoodPoints' = FoodPoints
<1> USE SizesAssumption
<1>1. PICK near \in SUBSET DOMAIN cloud :
        /\ Values(food) \subseteq near
        /\ \E kept \in Increasing(near) :
             /\ cloud' = [i \in DOMAIN kept |-> cloud[kept[i]]]
             /\ source' = [i \in DOMAIN kept |-> source[kept[i]]]
             /\ food' = [i \in DOMAIN food |-> CHOOSE j \in DOMAIN kept : kept[j] = food[i]]
  BY DEF Crop
<1>0. PICK kept \in Increasing(near) :
        /\ cloud' = [i \in DOMAIN kept |-> cloud[kept[i]]]
        /\ source' = [i \in DOMAIN kept |-> source[kept[i]]]
        /\ food' = [i \in DOMAIN food |-> CHOOSE j \in DOMAIN kept : kept[j] = food[i]]
  BY <1>1
<1>2. /\ cloud \in [DOMAIN cloud -> Points]
      /\ source \in [DOMAIN source -> Cameras]
      /\ food \in [DOMAIN food -> DOMAIN cloud]
      /\ near \subseteq 1 .. N
  BY <1>0, <1>1, IndicesArePoints DEF IInv, Points
<1>3. ArraysAgree(cloud, source, food)
  BY DEF IInv, RequestsAgree
<1>4. DOMAIN source = DOMAIN cloud
  BY <1>3 DEF ArraysAgree
<1>5. /\ kept \in List(N, near) /\ Values(kept) = near
      /\ \A i, j \in DOMAIN kept : kept[i] = kept[j] => i = j
  BY <1>0, <1>1, <1>2, IncreasingArray
<1>23. kept \in [DOMAIN kept -> near]
  BY <1>5, ListIndices
<1>6. kept \in [DOMAIN kept -> DOMAIN cloud]
  BY <1>23
<1>7. cloud' \in [DOMAIN kept -> Points] /\ source' \in [DOMAIN kept -> Cameras]
  BY <1>0, <1>1, <1>2, <1>4, <1>6
<1>8. cloud' \in List(N, Points) /\ source' \in List(N, Cameras)
  BY <1>5, <1>7, ListOf
<1>9. ASSUME NEW i \in DOMAIN food
      PROVE  food'[i] \in DOMAIN kept /\ kept[food'[i]] = food[i]
  <2>1. food[i] \in Values(kept)
    BY <1>0, <1>1, <1>5, IndexHasValue
  <2>2. \E j \in DOMAIN kept : kept[j] = food[i]
    BY <2>1, ValueHasIndex
  <2> QED
    BY <1>0, <1>1, <2>2
<1>10. DOMAIN food' = DOMAIN food /\ DOMAIN cloud' = DOMAIN kept
  BY <1>0
<1>11. food' \in [DOMAIN food -> DOMAIN cloud']
  BY <1>0, <1>1, <1>9, <1>10
<1>12. food \in List(N, DOMAIN cloud)
  BY DEF IInv, TypeOK
<1>13. food' \in List(N, DOMAIN cloud')
  BY <1>11, <1>12, ListOf
<1>14. ASSUME NEW i \in DOMAIN cloud' PROVE source'[i] = SeenBy[cloud'[i]]
  <2>1. kept[i] \in DOMAIN cloud
    BY <1>6, <1>10
  <2>2. source[kept[i]] = SeenBy[cloud[kept[i]]]
    BY <1>3, <2>1 DEF ArraysAgree
  <2> QED
    BY <1>0, <1>1, <1>10, <2>2
<1>15. ASSUME NEW i \in DOMAIN cloud', NEW j \in DOMAIN cloud', cloud'[i] = cloud'[j]
       PROVE  i = j
  <2>1. kept[i] \in DOMAIN cloud /\ kept[j] \in DOMAIN cloud
    BY <1>6, <1>10
  <2>2. cloud[kept[i]] = cloud[kept[j]]
    BY <1>0, <1>1, <1>10, <1>15
  <2>3. kept[i] = kept[j]
    BY <1>3, <2>1, <2>2 DEF ArraysAgree
  <2> QED
    BY <1>5, <1>10, <2>3
<1>16. Values(food') \subseteq DOMAIN cloud'
  BY <1>11 DEF Values
<1>17. ASSUME NEW i \in DOMAIN food', NEW j \in DOMAIN food', food'[i] = food'[j]
       PROVE  i = j
  <2>1. food[i] = food[j]
    BY <1>9, <1>10, <1>17
  <2> QED
    BY <1>3, <1>10, <2>1 DEF ArraysAgree
<1>18. DOMAIN source' = DOMAIN cloud'
  BY <1>0
<1>19. ArraysAgree(cloud', source', food')
  BY <1>14, <1>15, <1>16, <1>17, <1>18 DEF ArraysAgree
<1>20. ASSUME NEW i \in DOMAIN food PROVE cloud'[food'[i]] = cloud[food[i]]
  BY <1>0, <1>1, <1>9
<1>21. FoodPoints' = {cloud'[food'[i]] : i \in DOMAIN food'}
  BY DEF FoodPoints, Values
<1>22. FoodPoints' = FoodPoints
  BY <1>10, <1>20, <1>21, FoodByIndex
<1> QED
  BY <1>8, <1>13, <1>19, <1>22

-----------------------------------------------------------------------------
(* The invariant holds initially, and the end of a callback keeps it       *)

\* The node begins with nothing, of which everything holds.
LEMMA InitInvariant ==
  ASSUME Init
  PROVE  IInv
<1> USE SizesAssumption
<1>1. \A S : /\ Empty \in List(N, S) /\ Empty \in List(MaxGrasps, S)
  BY EmptyList
<1>6. octomap \in Message
  BY <1>1 DEF Init, Message
<1>7. /\ cloud \in List(N, Points) /\ source \in List(N, Cameras)
      /\ food \in List(N, DOMAIN cloud)
      /\ grasps \in List(MaxGrasps, Grasp)
      /\ poses \in List(MaxGrasps, Pose) /\ shown \in List(MaxGrasps, Pose)
  BY <1>1 DEF Init
<1>8. /\ goal = 0 /\ stage = "idle" /\ outcome = "none" /\ returned = {}
      /\ asked = {} /\ answered = FALSE
  BY DEF Init
<1>9. goal \in 0 .. MaxGoals
  BY <1>8
<1>10. /\ stage \in Stages /\ outcome \in {"none", "no_food", "failed", "grasp"}
       /\ asked \subseteq Request /\ returned \subseteq Pose
  BY <1>8 DEF Stages
<1>11. answered \in BOOLEAN
  BY <1>8
<1>2. TypeOK
  BY <1>6, <1>7, <1>9, <1>10, <1>11, Zenon DEF TypeOK
<1>3. ArraysAgree(cloud, source, food)
  BY EmptyArraysAgree DEF Init
<1>4. RequestsAgree
  BY <1>3 DEF Init, RequestsAgree
<1>5. StageInv /\ TopicsInv /\ GraspInv
  BY DEF Init, StageInv, Unasked, Stages, Early, TopicsInv, CloudInv, Published,
         FoodPublishedFirst, Values, Empty, GraspInv
<1> QED
  BY <1>2, <1>4, <1>5 DEF IInv

\* A candidate on the food that was published last.
OnCloud(p) == p.stamp = octomap.stamp /\ p.grasp.point \in Values(octomap.points)

\* However a callback ends, what it has put together is gone.
LEMMA EndKeeps ==
  ASSUME IInv, NEW how \in {"no_food", "failed", "grasp"}, End(how), UNCHANGED asked,
         UNCHANGED octomap, returned' \subseteq Pose,
         \A p \in returned' : OnCloud(p),
         shown' = Empty \/ (how # "no_food" /\ shown' = shown)
  PROVE  IInv'
<1> USE SizesAssumption
<1>1. \A S : /\ Empty \in List(N, S) /\ Empty \in List(MaxGrasps, S)
  BY EmptyList
<1>2. shown' \in List(MaxGrasps, Pose)
  BY <1>1 DEF IInv, TypeOK
<1>3. TypeOK'
  BY <1>1, <1>2 DEF IInv, TypeOK, End, Stages
<1>4. ArraysAgree(cloud', source', food')
  BY EmptyArraysAgree DEF End
<1>5. RequestsAgree'
  BY <1>4 DEF IInv, RequestsAgree, End
<1>6. StageInv'
  BY DEF IInv, StageInv, Unasked, Stages, Early, End
<1>7. TopicsInv'
  <2>1. stage' = "idle" /\ UNCHANGED << goal, asked, octomap >>
    BY DEF End
  <2>2. CloudInv'
    BY <2>1 DEF IInv, TopicsInv, CloudInv, Published
  <2>3. Values(shown') \subseteq Values(shown)
    BY DEF Values, Empty
  <2>4. octomap.stamp \in Int
    BY DEF IInv, TypeOK, Message
  <2>5. FoodPublishedFirst'
    BY <2>1, <2>3, <2>4 DEF IInv, TopicsInv, FoodPublishedFirst, OnCloud
  <2> QED
    BY <2>2, <2>5 DEF TopicsInv
<1>8. GraspInv'
  BY DEF GraspInv, End
<1> QED
  BY <1>3, <1>5, <1>6, <1>7, <1>8 DEF IInv

\* The same for every way to fail.
LEMMA FailsKeeps ==
  ASSUME IInv, Fails, stage # "idle"
  PROVE  IInv'
<1>1. returned = {}
  BY DEF IInv, TopicsInv, CloudInv
<1> QED
  BY <1>1, EndKeeps DEF Fails, topics

-----------------------------------------------------------------------------
(* Every step keeps the invariant, part by part                            *)

\* The steps that change neither the cloud nor the food.
Quiet == UNCHANGED array /\ UNCHANGED food

\* They leave the arrays in agreement, and the food as it is.
LEMMA QuietAgrees ==
  ASSUME IInv, Quiet
  PROVE  ArraysAgree(cloud', source', food') /\ FoodPoints' = FoodPoints
<1>1. cloud' = cloud /\ source' = source /\ food' = food
  BY DEF Quiet, array
<1>2. ArraysAgree(cloud, source, food)
  BY DEF IInv, RequestsAgree
<1>3. FoodPoints' = FoodPoints
  BY <1>1, FoodUnchanged
<1> QED
  BY <1>1, <1>2, <1>3

\* The topics and what is asked stay, and the stage does not get past the
\* publication of the food, nor to the candidates.
LEMMA TopicsStay ==
  ASSUME IInv, UNCHANGED << goal, poses, octomap, shown, returned >>,
         asked' \subseteq asked,
         \/ stage' = stage /\ FoodPoints' = FoodPoints
         \/ stage = "crop" /\ stage' = "ask" /\ FoodPoints' = FoodPoints
         \/ stage \notin Published \cup {"idle"} /\ stage' \notin Published \cup {"idle"}
  PROVE  TopicsInv'
<1>1. CloudInv'
  BY DEF IInv, TopicsInv, CloudInv, Published
<1>2. FoodPublishedFirst'
  BY DEF IInv, TopicsInv, FoodPublishedFirst
<1> QED
  BY <1>1, <1>2 DEF TopicsInv

\* A new goal is later than every request there is.
LEMMA StartKeeps ==
  ASSUME IInv, Start
  PROVE  IInv'
<1>1. Quiet
  BY DEF Start, Quiet
<1>2. TypeOK'
  BY SizesAssumption DEF IInv, TypeOK, Start, array, gpd, topics, Stages
<1>3. RequestsAgree'
  BY <1>1, QuietAgrees DEF IInv, RequestsAgree, Start, gpd
<1>4. StageInv'
  <2>1. \A r \in asked : r.goal \in Int /\ r.goal <= goal
    BY DEF IInv, StageInv, TypeOK, Request
  <2> QED
    BY <2>1 DEF IInv, TypeOK, StageInv, Unasked, Stages, Early, Start, gpd
<1>5. TopicsInv'
  <2>1. octomap.stamp \in Int /\ goal \in Int
    BY DEF IInv, TypeOK, Message
  <2>2. CloudInv'
    BY <2>1 DEF IInv, TopicsInv, CloudInv, Published, Start, topics
  <2>3. FoodPublishedFirst'
    BY DEF IInv, TopicsInv, FoodPublishedFirst, Start, gpd, topics
  <2> QED
    BY <2>2, <2>3 DEF TopicsInv
<1>6. GraspInv'
  BY DEF IInv, GraspInv, StageInv, Start, gpd
<1> QED
  BY <1>2, <1>3, <1>4, <1>5, <1>6 DEF IInv

\* The clouds are merged before there is food.
LEMMA MergeKeeps ==
  ASSUME IInv, Merge
  PROVE  IInv'
<1>1. UNCHANGED << goal, food, asked, answered, grasps, poses, octomap, shown, outcome, returned >>
      /\ stage = "capture" /\ stage' = "model"
  BY DEF Merge, gpd, topics, result
<1>2. TypeOK'
  BY <1>1, MergeMakes DEF IInv, TypeOK, Stages
<1>3. RequestsAgree'
  BY <1>1, MergeMakes DEF IInv, RequestsAgree
<1>4. StageInv'
  BY <1>1 DEF IInv, StageInv, Unasked, Stages, Early
<1>5. TopicsInv'
  BY <1>1, TopicsStay DEF Published
<1>6. GraspInv'
  BY <1>1 DEF IInv, GraspInv, StageInv
<1> QED
  BY <1>2, <1>3, <1>4, <1>5, <1>6 DEF IInv

\* The model of the empty plate changes none of the arrays.
LEMMA LoadModelKeeps ==
  ASSUME IInv, LoadModel
  PROVE  IInv'
<1>1. Quiet /\ UNCHANGED << goal, asked, answered, grasps, poses, octomap, shown, outcome, returned >>
      /\ stage = "model" /\ stage' = "subtract"
  BY DEF LoadModel, Quiet, gpd, topics, result
<1>2. TypeOK'
  BY <1>1 DEF IInv, TypeOK, Stages, Quiet, array
<1>3. RequestsAgree'
  BY <1>1, QuietAgrees DEF IInv, RequestsAgree
<1>4. StageInv'
  BY <1>1 DEF IInv, StageInv, Unasked, Stages, Early, Quiet
<1>5. TopicsInv'
  BY <1>1, TopicsStay DEF Published
<1>6. GraspInv'
  BY <1>1 DEF IInv, GraspInv, StageInv
<1> QED
  BY <1>2, <1>3, <1>4, <1>5, <1>6 DEF IInv

\* The first food indices are of the cloud.
LEMMA SubtractKeeps ==
  ASSUME IInv, Subtract
  PROVE  IInv'
<1>1. UNCHANGED << goal, cloud, source, asked, answered, grasps, poses, octomap, shown, outcome, returned >>
      /\ stage = "subtract" /\ stage' = "cluster"
  BY DEF Subtract, array, gpd, topics, result
<1>2. TypeOK'
  BY <1>1, SubtractMakes DEF IInv, TypeOK, Stages
<1>3. RequestsAgree'
  BY <1>1, SubtractMakes DEF IInv, RequestsAgree
<1>4. StageInv'
  BY <1>1 DEF IInv, StageInv, Unasked, Stages, Early
<1>5. TopicsInv'
  BY <1>1, TopicsStay DEF Published
<1>6. GraspInv'
  BY <1>1 DEF IInv, GraspInv, StageInv
<1> QED
  BY <1>2, <1>3, <1>4, <1>5, <1>6 DEF IInv

\* The food of the cluster is of the same cloud.
LEMMA ClusterKeeps ==
  ASSUME IInv, Cluster
  PROVE  IInv'
<1>1. UNCHANGED << goal, cloud, source, asked, answered, grasps, poses, octomap, shown, outcome, returned >>
      /\ stage = "cluster" /\ stage' = "count"
  BY DEF Cluster, array, gpd, topics, result
<1>2. TypeOK'
  BY <1>1, ClusterMakes DEF IInv, TypeOK, Stages
<1>3. RequestsAgree'
  BY <1>1, ClusterMakes DEF IInv, RequestsAgree
<1>4. StageInv'
  BY <1>1 DEF IInv, StageInv, Unasked, Stages, Early
<1>5. TopicsInv'
  BY <1>1, TopicsStay DEF Published
<1>6. GraspInv'
  BY <1>1 DEF IInv, GraspInv, StageInv
<1> QED
  BY <1>2, <1>3, <1>4, <1>5, <1>6 DEF IInv

\* The count of the food changes no array.
LEMMA RequireFoodKeeps ==
  ASSUME IInv, RequireFood
  PROVE  IInv'
<1>1. Quiet /\ UNCHANGED << goal, asked, answered, grasps, poses, octomap, shown, outcome, returned >>
      /\ stage = "count" /\ stage' = "publish"
  BY DEF RequireFood, Quiet, gpd, topics, result
<1>2. TypeOK'
  BY <1>1 DEF IInv, TypeOK, Stages, Quiet, array
<1>3. RequestsAgree'
  BY <1>1, QuietAgrees DEF IInv, RequestsAgree
<1>4. StageInv'
  BY <1>1 DEF IInv, StageInv, Unasked, Stages, Early
<1>5. TopicsInv'
  BY <1>1, TopicsStay DEF Published
<1>6. GraspInv'
  BY <1>1 DEF IInv, GraspInv, StageInv
<1> QED
  BY <1>2, <1>3, <1>4, <1>5, <1>6 DEF IInv

\* The message has the points at the food indices; all there was before is of
\* earlier goals.
LEMMA PublishFoodKeeps ==
  ASSUME IInv, PublishFood
  PROVE  IInv'
<1>1. Quiet /\ UNCHANGED << goal, asked, answered, grasps, poses, shown, outcome, returned >>
      /\ stage = "publish" /\ stage' = "crop"
  BY DEF PublishFood, Quiet, gpd, result
<1>2. octomap' = [points |-> [i \in DOMAIN food |-> cloud[food[i]]], stamp |-> goal]
  BY DEF PublishFood, FoodCloud
<1>3. octomap'.points = [i \in DOMAIN food |-> cloud[food[i]]] /\ octomap'.stamp = goal
  BY <1>2
<1>4. octomap'.points \in List(N, Points)
  <2>1. octomap'.points \in [DOMAIN food -> Points]
    BY <1>3, IndicesArePoints DEF IInv
  <2>2. food \in List(N, DOMAIN cloud)
    BY DEF IInv, TypeOK
  <2> QED
    BY <2>1, <2>2, ListOf, SizesAssumption
<1>5. octomap' \in Message
  BY <1>2, <1>3, <1>4 DEF IInv, TypeOK, Message
<1>6. TypeOK'
  BY <1>1, <1>5 DEF IInv, TypeOK, Stages, Quiet, array
<1>7. RequestsAgree'
  BY <1>1, QuietAgrees DEF IInv, RequestsAgree
<1>8. StageInv'
  BY <1>1 DEF IInv, StageInv, Unasked, Stages, Early
<1>9. Values(octomap'.points) = FoodPoints
  BY <1>3, FoodByIndex DEF Values
<1>10. TopicsInv'
  <2>1. octomap.stamp < goal /\ returned = {}
    BY <1>1 DEF IInv, TopicsInv, CloudInv, Published
  <2>2. octomap.stamp \in Int /\ goal \in Int
    BY DEF IInv, TypeOK, Message
  <2>3. CloudInv'
    BY <1>1, <1>3, <1>9, <2>1, <2>2, QuietAgrees DEF CloudInv, Published
  <2>4. ASSUME NEW r \in asked PROVE r.goal <= goal /\ r.goal # goal
    BY <2>1, <2>2 DEF IInv, TopicsInv, FoodPublishedFirst, TypeOK, Request
  <2>5. ASSUME NEW p \in Values(shown) PROVE p.stamp <= goal /\ p.stamp # goal
    <3>1. p.stamp <= octomap.stamp
      BY DEF IInv, TopicsInv, FoodPublishedFirst
    <3>2. p \in Pose
      BY ValueHasIndex, ListIndices, SizesAssumption DEF IInv, TypeOK
    <3> QED
      BY <2>1, <2>2, <3>1, <3>2 DEF Pose
  <2>6. asked' = asked /\ Values(shown') \cup returned' = Values(shown)
    BY <1>1, <2>1 DEF Values
  <2>7. FoodPublishedFirst'
    BY <1>1, <1>3, <2>1, <2>4, <2>5, <2>6 DEF FoodPublishedFirst
  <2> QED
    BY <2>3, <2>7 DEF TopicsInv
<1>11. GraspInv'
  BY <1>1 DEF IInv, GraspInv, StageInv
<1> QED
  BY <1>6, <1>7, <1>8, <1>10, <1>11 DEF IInv

\* The food is the one that was published also after the crop.
LEMMA CropKeeps ==
  ASSUME IInv, Crop
  PROVE  IInv'
<1>1. UNCHANGED << goal, asked, answered, grasps, poses, octomap, shown, outcome, returned >>
      /\ stage = "crop" /\ stage' = "ask"
  BY DEF Crop, gpd, topics, result
<1>2. TypeOK'
  BY <1>1, CropMakes DEF IInv, TypeOK, Stages
<1>3. RequestsAgree'
  BY <1>1, CropMakes DEF IInv, RequestsAgree
<1>4. StageInv'
  BY <1>1 DEF IInv, StageInv, Unasked, Stages, Early
<1>5. TopicsInv'
  BY <1>1, CropMakes, TopicsStay
<1>6. GraspInv'
  BY <1>1 DEF IInv, GraspInv, StageInv
<1> QED
  BY <1>2, <1>3, <1>4, <1>5, <1>6 DEF IInv

\* The request is made of arrays that agree; the others are of earlier goals.
LEMMA AskKeeps ==
  ASSUME IInv, Ask
  PROVE  IInv'
<1>1. Quiet /\ UNCHANGED << goal, answered, grasps, poses, octomap, shown, outcome, returned >>
      /\ stage = "ask" /\ stage' = "gpd" /\ asked' = asked \cup {BuildRequest}
  BY DEF Ask, Quiet, array, topics, result
<1>2. goal \in 1 .. MaxGoals
  BY <1>1, SizesAssumption DEF IInv, TypeOK, StageInv
<1>3. food \in List(N, Points)
  <2>1. food \in List(N, DOMAIN cloud)
    BY DEF IInv, TypeOK
  <2>2. food \in [DOMAIN food -> Points]
    BY IndicesArePoints DEF IInv
  <2> QED
    BY <2>1, <2>2, ListOf, SizesAssumption
<1>4. BuildRequest \in Request
  BY <1>2, <1>3 DEF IInv, TypeOK, BuildRequest, Request
<1>5. TypeOK'
  BY <1>1, <1>4 DEF IInv, TypeOK, Stages, Quiet, array
<1>6. ArraysAgree(BuildRequest.cloud, BuildRequest.source, BuildRequest.samples)
  BY DEF IInv, RequestsAgree, BuildRequest
<1>7. {BuildRequest.cloud[i] : i \in Values(BuildRequest.samples)} = FoodPoints
  BY DEF BuildRequest, FoodPoints
<1>8. ASSUME NEW r \in asked PROVE r.goal < goal
  BY <1>1, <1>8 DEF IInv, StageInv, Unasked, Stages
<1>9. \A r \in asked : r.goal # goal
  BY <1>8, <1>2 DEF IInv, TypeOK, Request
<1>10. ASSUME NEW r \in asked'
       PROVE  /\ ArraysAgree(r.cloud, r.source, r.samples)
              /\ r.goal = goal => {r.cloud[i] : i \in Values(r.samples)} = FoodPoints
  <2>1. CASE r \in asked
    BY <2>1, <1>9 DEF IInv, RequestsAgree
  <2>2. CASE r = BuildRequest
    BY <2>2, <1>6, <1>7
  <2> QED
    BY <2>1, <2>2, <1>1
<1>11. RequestsAgree'
  BY <1>1, <1>10, QuietAgrees DEF RequestsAgree
<1>12. StageInv'
  <2>1. BuildRequest.goal = goal
    BY DEF BuildRequest
  <2> QED
    BY <1>1, <1>2, <2>1 DEF IInv, StageInv, Unasked, Stages, Early
<1>13. TopicsInv'
  <2>1. Values(octomap.points) = FoodPoints /\ octomap.stamp = goal
    BY <1>1 DEF IInv, TopicsInv, CloudInv, Published
  <2>2. CloudInv'
    BY <1>1, <2>1, QuietAgrees DEF IInv, TopicsInv, CloudInv, Published
  <2>3. BuildRequest.goal = goal /\ goal <= goal
    BY <1>2 DEF BuildRequest
  <2>4. FoodPublishedFirst'
    BY <1>1, <1>7, <2>1, <2>3 DEF IInv, TopicsInv, FoodPublishedFirst
  <2> QED
    BY <2>2, <2>4 DEF TopicsInv
<1>14. GraspInv'
  BY <1>1 DEF IInv, GraspInv, StageInv
<1> QED
  BY <1>5, <1>11, <1>12, <1>13, <1>14 DEF IInv

\* An answer that is heard is of the request of this goal: its grasps are at
\* samples, which are the food, and face the source of the point.
LEMMA ServeKeeps ==
  ASSUME IInv, Serve
  PROVE  IInv'
<1> USE SizesAssumption
<1>1. PICK r \in asked :
        /\ asked' = asked \ {r}
        /\ \E best \in List(MaxGrasps, DOMAIN r.samples) :
             IF stage = "gpd" /\ r.goal = goal
             THEN /\ answered' = TRUE
                  /\ grasps' = [k \in DOMAIN best |->
                                  [point  |-> r.cloud[r.samples[best[k]]],
                                   facing |-> r.source[r.samples[best[k]]]]]
             ELSE UNCHANGED << answered, grasps >>
        /\ UNCHANGED << goal, stage, array, food, poses, topics, result >>
  BY DEF Serve
<1>2. Quiet /\ UNCHANGED << goal, stage, poses, octomap, shown, outcome, returned >>
  BY <1>1 DEF Quiet, topics, result
<1>3. PICK best \in List(MaxGrasps, DOMAIN r.samples) :
        IF stage = "gpd" /\ r.goal = goal
        THEN /\ answered' = TRUE
             /\ grasps' = [k \in DOMAIN best |->
                             [point  |-> r.cloud[r.samples[best[k]]],
                              facing |-> r.source[r.samples[best[k]]]]]
        ELSE UNCHANGED << answered, grasps >>
  BY <1>1
<1>4. r \in Request /\ ArraysAgree(r.cloud, r.source, r.samples)
  BY DEF IInv, TypeOK, RequestsAgree
<1>5. ASSUME NEW k \in DOMAIN best
      PROVE  /\ r.samples[best[k]] \in Values(r.samples)
             /\ r.samples[best[k]] \in DOMAIN r.cloud
             /\ r.cloud[r.samples[best[k]]] \in Points
             /\ r.source[r.samples[best[k]]] = SeenBy[r.cloud[r.samples[best[k]]]]
             /\ r.source[r.samples[best[k]]] \in Cameras
  <2>1. best[k] \in DOMAIN r.samples
    BY ListIndices
  <2>2. r.samples[best[k]] \in Values(r.samples)
    BY <2>1, IndexHasValue
  <2>3. r.samples[best[k]] \in DOMAIN r.cloud
    BY <1>4, <2>2 DEF ArraysAgree
  <2>4. r.cloud \in List(N, Points)
    BY <1>4 DEF Request
  <2>5. r.cloud[r.samples[best[k]]] \in Points
    BY <2>3, <2>4, ListIndices
  <2> QED
    BY <1>4, <2>2, <2>3, <2>5, CamerasAssumption DEF ArraysAgree
<1>6. stage = "gpd" /\ r.goal = goal
        => \A k \in DOMAIN grasps' : OnFood(grasps'[k])
  <2> SUFFICES ASSUME stage = "gpd", r.goal = goal, NEW k \in DOMAIN grasps'
               PROVE  OnFood(grasps'[k])
    OBVIOUS
  <2>1. k \in DOMAIN best
        /\ grasps'[k] = [point  |-> r.cloud[r.samples[best[k]]],
                         facing |-> r.source[r.samples[best[k]]]]
    BY <1>3
  <2>2. {r.cloud[i] : i \in Values(r.samples)} = FoodPoints
    BY DEF IInv, RequestsAgree
  <2> QED
    BY <1>5, <2>1, <2>2 DEF OnFood
<1>7. grasps' \in List(MaxGrasps, Grasp) /\ answered' \in BOOLEAN
  <2>1. CASE stage = "gpd" /\ r.goal = goal
    <3>1. grasps' \in [DOMAIN best -> Grasp]
      BY <1>3, <1>5, <2>1 DEF Grasp
    <3> QED
      BY <1>3, <2>1, <3>1, ListOf
  <2>2. CASE ~(stage = "gpd" /\ r.goal = goal)
    BY <1>3, <2>2 DEF IInv, TypeOK
  <2> QED
    BY <2>1, <2>2
<1>8. asked' \subseteq asked
  BY <1>1
<1>9. TypeOK'
  BY <1>2, <1>7, <1>8 DEF IInv, TypeOK, Quiet, array
<1>10. RequestsAgree'
  BY <1>2, <1>8, QuietAgrees DEF IInv, RequestsAgree
<1>11. answered' => answered \/ stage = "gpd"
  BY <1>3
<1>12. StageInv'
  BY <1>2, <1>8, <1>11 DEF IInv, StageInv, Quiet
<1>13. TopicsInv'
  BY <1>2, <1>8, QuietAgrees, TopicsStay
<1>14. \A g : OnFood(g)' <=> OnFood(g)
  BY <1>2, QuietAgrees DEF OnFood
<1>15. answered' => \A k \in DOMAIN grasps' : OnFood(grasps'[k])
  BY <1>3, <1>6 DEF IInv, GraspInv
<1>16. GraspInv'
  BY <1>2, <1>15, QuietAgrees DEF IInv, GraspInv, OnFood
<1> QED
  BY <1>9, <1>10, <1>12, <1>13, <1>16 DEF IInv

\* Every grasp becomes a pose, of the same point.
LEMMA ConvertKeeps ==
  ASSUME IInv, Convert
  PROVE  IInv'
<1> USE SizesAssumption
<1>1. Quiet /\ UNCHANGED << goal, asked, answered, grasps, octomap, outcome, returned >>
      /\ stage = "gpd" /\ stage' = "check" /\ answered
      /\ poses' = Poses /\ shown' = Top(MaxShown, Poses)
  BY DEF Convert, Quiet, gpd, result
<1>2. goal \in 1 .. MaxGoals /\ grasps \in List(MaxGrasps, Grasp)
  BY <1>1 DEF IInv, TypeOK, StageInv
<1>3. grasps \in [DOMAIN grasps -> Grasp]
  BY <1>2, ListIndices
<1>4. Poses \in [DOMAIN grasps -> Pose]
  BY <1>2, <1>3 DEF Poses, Pose
<1>5. Poses \in List(MaxGrasps, Pose)
  BY <1>2, <1>4, ListOf
<1>6. Top(MaxShown, Poses) \in List(MaxGrasps, Pose)
  BY <1>5, TopOfList, LimitsAssumption
<1>7. TypeOK'
  BY <1>1, <1>5, <1>6 DEF IInv, TypeOK, Stages, Quiet, array
<1>8. RequestsAgree'
  BY <1>1, QuietAgrees DEF IInv, RequestsAgree
<1>9. StageInv'
  BY <1>1 DEF IInv, StageInv, Unasked, Stages, Early
<1>10. /\ Values(octomap.points) = FoodPoints /\ octomap.stamp = goal
       /\ goal <= goal /\ returned = {}
  BY <1>1, <1>2 DEF IInv, TopicsInv, CloudInv, Published
<1>11. TopicsInv'
  <2>1. CloudInv'
    BY <1>1, <1>10, QuietAgrees DEF CloudInv, Published, Poses
  <2>2. ASSUME NEW p \in Values(shown')
        PROVE  p.stamp = goal /\ p.grasp.point \in Values(octomap.points)
    <3>1. PICK i \in DOMAIN Top(MaxShown, Poses) : p = Top(MaxShown, Poses)[i]
      BY <1>1, ValueHasIndex
    <3>2. i \in DOMAIN Poses /\ p = Poses[i]
      BY <3>1 DEF Top
    <3>3. i \in DOMAIN grasps /\ p.stamp = goal /\ p.grasp = grasps[i]
      BY <3>2 DEF Poses
    <3>4. grasps[i].point \in FoodPoints
      BY <1>1, <3>3 DEF IInv, GraspInv, OnFood
    <3> QED
      BY <1>10, <3>3, <3>4
  <2>3. FoodPublishedFirst'
    BY <1>1, <1>10, <2>2 DEF IInv, TopicsInv, FoodPublishedFirst
  <2> QED
    BY <2>1, <2>3 DEF TopicsInv
<1>12. \A k \in DOMAIN poses' : k \in DOMAIN grasps /\ poses'[k].grasp = grasps[k]
  BY <1>1 DEF Poses
<1>13. GraspInv'
  BY <1>1, <1>12, QuietAgrees DEF IInv, GraspInv, OnFood
<1> QED
  BY <1>7, <1>8, <1>9, <1>11, <1>13 DEF IInv

-----------------------------------------------------------------------------
(* The theorems                                                            *)

\* A goal without food leaves nothing to see.
LEMMA NoFoodKeeps ==
  ASSUME IInv, NoFood
  PROVE  IInv'
<1>1. returned = {} /\ returned' = returned
  BY DEF IInv, TopicsInv, CloudInv, NoFood
<1> QED
  BY <1>1, EndKeeps DEF NoFood, Clear

\* The grasp of a result is one of the candidates.
LEMMA Returned ==
  ASSUME IInv, Return
  PROVE  /\ stage = "check" /\ End("grasp")
         /\ \E p \in Pose : returned' = {p} /\ OnFood(p.grasp) /\ OnCloud(p)
<1>1. PICK i \in DOMAIN Top(MaxChecked, poses) : returned' = {poses[i]}
  BY DEF Return
<1>2. poses \in List(MaxGrasps, Pose)
  BY DEF IInv, TypeOK
<1>3. i \in DOMAIN poses
  BY <1>2, TopOfList, SizesAssumption, LimitsAssumption
<1>4. poses[i] \in Pose
  BY <1>2, <1>3, ListIndices, SizesAssumption
<1>5. stage = "check" /\ End("grasp")
  BY DEF Return
<1>6. OnFood(poses[i].grasp)
  BY <1>3, <1>5 DEF IInv, GraspInv
<1>7. OnCloud(poses[i])
  BY <1>3, <1>5, <1>6 DEF IInv, TopicsInv, CloudInv, Published, OnFood, OnCloud
<1> QED
  BY <1>1, <1>4, <1>5, <1>6, <1>7

\* A goal that returns a grasp leaves nothing of its arrays.
LEMMA ReturnKeeps ==
  ASSUME IInv, Return
  PROVE  IInv'
<1>1. returned' \subseteq Pose /\ \A p \in returned' : OnCloud(p)
  BY Returned
<1> QED
  BY <1>1, EndKeeps DEF Return, topics

\* A step of somebody else changes nothing.
LEMMA StutterKeeps ==
  ASSUME IInv, UNCHANGED vars
  PROVE  IInv'
<1>1. Quiet /\ UNCHANGED << goal, stage, asked, answered, grasps, poses, octomap, shown,
                            outcome, returned >>
  BY DEF vars, Quiet, gpd, topics, result
<1>2. TypeOK'
  BY <1>1 DEF IInv, TypeOK, Quiet, array
<1>3. RequestsAgree'
  BY <1>1, QuietAgrees DEF IInv, RequestsAgree
<1>4. StageInv'
  BY <1>1 DEF IInv, StageInv, Quiet
<1>5. TopicsInv'
  BY <1>1, QuietAgrees, TopicsStay
<1>6. GraspInv'
  BY <1>1, QuietAgrees DEF IInv, GraspInv, OnFood
<1> QED
  BY <1>2, <1>3, <1>4, <1>5, <1>6 DEF IInv

\* Every goal that fails does so by Fails.
LEMMA WaysToFail ==
  MergeFails \/ LoadFails \/ LookUpFails \/ GiveUp \/ CheckFails
    => Fails /\ stage # "idle"
BY DEF MergeFails, LoadFails, LookUpFails, GiveUp, CheckFails

\* Every step of the node keeps the invariant.
LEMMA NextKeeps ==
  ASSUME IInv, [Next]_vars
  PROVE  IInv'
<1>1. CASE Start BY <1>1, StartKeeps
<1>2. CASE Merge BY <1>2, MergeKeeps
<1>3. CASE LoadModel BY <1>3, LoadModelKeeps
<1>4. CASE Subtract BY <1>4, SubtractKeeps
<1>5. CASE Cluster BY <1>5, ClusterKeeps
<1>6. CASE RequireFood BY <1>6, RequireFoodKeeps
<1>7. CASE NoFood BY <1>7, NoFoodKeeps
<1>8. CASE PublishFood BY <1>8, PublishFoodKeeps
<1>9. CASE Crop BY <1>9, CropKeeps
<1>10. CASE Ask BY <1>10, AskKeeps
<1>11. CASE Serve BY <1>11, ServeKeeps
<1>12. CASE Convert BY <1>12, ConvertKeeps
<1>13. CASE Return BY <1>13, ReturnKeeps
<1>14. CASE MergeFails \/ LoadFails \/ LookUpFails \/ GiveUp \/ CheckFails
  BY <1>14, WaysToFail, FailsKeeps
<1>15. CASE UNCHANGED vars BY <1>15, StutterKeeps
<1> QED
  BY <1>1, <1>2, <1>3, <1>4, <1>5, <1>6, <1>7, <1>8, <1>9, <1>10, <1>11, <1>12,
     <1>13, <1>14, <1>15 DEF Next

\* The inductive invariant of the pipeline: the properties, what each stage
\* says of the rest, and the food under every grasp on its way to the result.
THEOREM PipelineInvariant == Spec => []IInv
<1>1. Init => IInv
  BY InitInvariant
<1>2. IInv /\ [Next]_vars => IInv'
  BY NextKeeps
<1> QED
  BY <1>1, <1>2, PTL DEF Spec

\* Every variable stays in its set, for any rows and limits: no array of
\* combine_pointclouds, food_detector or gpd_request_builder holds an index
\* that its cloud does not have.
THEOREM TypeCorrect == Spec => []TypeOK
<1>1. IInv => TypeOK
  BY DEF IInv
<1> QED
  BY <1>1, PipelineInvariant, PTL

\* The arrays of every request to GPD agree, and the samples of the goal that
\* waits are its food, however often gpd_request_builder and food_detector
\* renumber.
THEOREM RequestsTrue == Spec => []RequestsAgree
<1>1. IInv => RequestsAgree
  BY DEF IInv
<1> QED
  BY <1>1, PipelineInvariant, PTL

\* For any rows and limits: nothing is asked of GPD, shown or returned before the
\* food of its goal is published, and GPD's samples, the candidates and the grasp
\* that is returned are at points of that message while it is the last one.
THEOREM PublishedFirst == Spec => []FoodPublishedFirst
<1>1. IInv => FoodPublishedFirst
  BY DEF IInv, TopicsInv
<1> QED
  BY <1>1, PipelineInvariant, PTL

-----------------------------------------------------------------------------
(* The promise of FoodGrasps is kept                                       *)

PromisedFood == IF Phase = "found" THEN FoodPoints ELSE {}
PromisedGrasp == {<< p.grasp.point, p.grasp.facing >> : p \in returned}

\* The steps the client does not see.
LEMMA Unseen ==
  ASSUME Phase' = Phase, PromisedFood' = PromisedFood,
         UNCHANGED << outcome, returned >>
  PROVE  UNCHANGED Promise!vars
BY DEF Promise!vars, PromisedFood

\* Between the steps the client sees, the food stays as it was found.
LEMMA UnseenSteps ==
  ASSUME IInv, Merge \/ LoadModel \/ Subtract \/ Cluster \/ PublishFood \/ Crop
                 \/ Ask \/ Serve \/ Convert \/ UNCHANGED vars
  PROVE  UNCHANGED Promise!vars
<1>1. UNCHANGED << outcome, returned >>
  BY DEF Merge, LoadModel, Subtract, Cluster, PublishFood, Crop, Ask, Serve,
         Convert, vars, result
<1>2. Phase' = Phase
  BY DEF Merge, LoadModel, Subtract, Cluster, PublishFood, Crop, Ask, Serve,
         Convert, vars, Phase
<1>3. CASE Merge \/ LoadModel \/ Subtract \/ Cluster
  <2>1. Phase = "looking"
    BY <1>3 DEF Merge, LoadModel, Subtract, Cluster, Phase
  <2> QED
    BY <1>1, <1>2, <2>1, Unseen DEF PromisedFood
<1>4. CASE Crop
  BY <1>1, <1>2, <1>4, CropMakes, Unseen DEF PromisedFood
<1>5. CASE PublishFood \/ Ask \/ Serve \/ Convert \/ UNCHANGED vars
  <2>1. Quiet
    BY <1>5 DEF PublishFood, Ask, Serve, Convert, vars, Quiet
  <2> QED
    BY <1>1, <1>2, <2>1, QuietAgrees, Unseen DEF PromisedFood
<1> QED
  BY <1>3, <1>4, <1>5

\* The node begins as FoodGrasps does.
LEMMA InitPromised ==
  ASSUME Init
  PROVE  Promise!Init
<1>1. Phase = "idle" /\ outcome = "none" /\ returned = {}
  BY DEF Init, Phase
<1> QED
  BY <1>1 DEF Promise!Init

\* Every step is one of FoodGrasps or is not seen by the client.
LEMMA StepPromised ==
  ASSUME IInv, IInv', [Next]_vars
  PROVE  [Promise!Next]_Promise!vars
<1>1. CASE Start
  <2>1. Phase = "idle" /\ Phase' = "looking" /\ outcome' = "none" /\ returned' = {}
    BY <1>1 DEF Start, Phase
  <2>2. Promise!Begin
    BY <2>1 DEF Promise!Begin
  <2> QED
    BY <2>2 DEF Promise!Next
<1>2. CASE RequireFood
  <2>1. Phase = "looking" /\ Phase' = "found" /\ UNCHANGED << outcome, returned >>
    BY <1>2 DEF RequireFood, Phase, result
  <2>2. Quiet /\ Enough
    BY <1>2 DEF RequireFood, Quiet
  <2>3. FoodPoints' = FoodPoints /\ FoodPoints # {} /\ FoodPoints \subseteq Points
    BY <2>2, QuietAgrees, FoodFound, FoodIsOfRows DEF IInv
  <2>4. Promise!Find
    BY <2>1, <2>3 DEF Promise!Find
  <2> QED
    BY <2>4 DEF Promise!Next
<1>3. CASE NoFood
  <2>1. Phase = "looking" /\ Phase' = "idle" /\ outcome' = "no_food" /\ returned' = returned
    BY <1>3 DEF NoFood, End, Phase
  <2>2. Promise!FindNothing
    BY <2>1 DEF Promise!FindNothing, Promise!End
  <2> QED
    BY <2>2 DEF Promise!Next
<1>4. CASE MergeFails \/ LoadFails \/ LookUpFails \/ GiveUp \/ CheckFails
  <2>1. stage # "idle" /\ Phase' = "idle" /\ outcome' = "failed" /\ returned' = returned
    BY <1>4, WaysToFail DEF Fails, End, Phase
  <2>2. Phase # "idle"
    BY <2>1 DEF Phase
  <2>3. Promise!Fail
    BY <2>1, <2>2 DEF Promise!Fail, Promise!End
  <2> QED
    BY <2>3 DEF Promise!Next
<1>5. CASE Return
  <2>1. PICK p \in Pose : returned' = {p} /\ OnFood(p.grasp)
    BY <1>5, Returned
  <2>2. Phase = "found" /\ Phase' = "idle" /\ outcome' = "grasp"
    BY <1>5, Returned DEF End, Phase
  <2>3. PromisedGrasp' = {<< p.grasp.point, SeenBy[p.grasp.point] >>}
    BY <2>1 DEF PromisedGrasp, OnFood
  <2>4. p.grasp.point \in FoodPoints
    BY <2>1 DEF OnFood
  <2>5. Promise!Grasp
    BY <2>2, <2>3, <2>4 DEF Promise!Grasp, Promise!End, PromisedGrasp
  <2> QED
    BY <2>5 DEF Promise!Next
<1>6. CASE Merge \/ LoadModel \/ Subtract \/ Cluster \/ PublishFood \/ Crop
             \/ Ask \/ Serve \/ Convert \/ UNCHANGED vars
  BY <1>6, UnseenSteps
<1> QED
  BY <1>1, <1>2, <1>3, <1>4, <1>5, <1>6 DEF Next

\* The pipeline keeps the promise of FoodGrasps: the grasp of a result is on a
\* point of the food that was found for that very goal, and faces the camera
\* that saw the point.
THEOREM PipelineImplementsFoodGrasps == Spec => GraspsHonest
<1>1. Init => Promise!Init
  BY InitPromised
<1>2. IInv /\ IInv' /\ [Next]_vars => [Promise!Next]_Promise!vars
  BY StepPromised
<1> QED
  BY <1>1, <1>2, PipelineInvariant, PTL DEF Spec, GraspsHonest, Promise!Spec
=============================================================================
