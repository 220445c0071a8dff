--------------------------- MODULE GraspCandidates ---------------------------
(***************************************************************************)
(* The pipeline of the grasp_pose_provider node, from the clouds of the    *)
(* cameras to the grasp that a goal returns: the indices that are made and *)
(* remade on the way, what is published of it, and the GPD server.         *)
(*                                                                         *)
(* A point is a row of the messages of the cameras, laid end to end in the *)
(* order of captured_topics.  Transforms, registration, distances and      *)
(* clusters decide which points are kept: that is chosen.  How the arrays  *)
(* of what is kept are put together is what the module is about.  Indices  *)
(* begin with 1.                                                           *)
(*                                                                         *)
(* The capture itself, the pause of physics and the checks of the arm are  *)
(* the subject of GraspPoseProvider.  Goals come one at a time, as from the*)
(* behavior node.                                                          *)
(***************************************************************************)
EXTENDS Integers, FiniteSets

CONSTANTS
  N,           \* the number of rows
  Cameras,     \* captured_topics
  SeenBy,      \* per row: the camera whose message it is in
  Labels,      \* the labels of clusters
  MinFood,     \* min_food_point_count
  MaxShown,    \* max_rviz_candidates
  MaxChecked,  \* max_reachability_candidates
  MaxGrasps,   \* num_selected of the GPD server
  MaxGoals     \* bound: the goals sent

Points == 1 .. N

ASSUME SizesAssumption == N \in Nat /\ MaxGoals \in Nat /\ MaxGrasps \in Nat
ASSUME CamerasAssumption == SeenBy \in [Points -> Cameras]
ASSUME LabelsAssumption == Labels \subseteq Nat
ASSUME LimitsAssumption == MinFood \in Nat \ {0} /\ MaxShown \in Nat /\ MaxChecked \in Nat

VARIABLES
  goal,      \* the number of the goal: the stamp of its capture
  stage,     \* what its callback does next
  outcome,   \* how it ended
  cloud,     \* the cloud it works on: a point per index
  source,    \* camera_source: a camera per index
  food,      \* food_indices
  asked,     \* the requests at the GPD server
  answered,  \* the future of the request is done
  grasps,    \* the answer, best first
  poses,     \* the candidates, best first
  octomap,   \* the last message on the food cloud topic; who hears it is open
  shown,     \* the candidates published for RViz
  returned   \* the candidate in the result: none, or one

array   == << cloud, source >>
gpd     == << asked, answered, grasps >>
topics  == << octomap, shown >>
result  == << outcome, returned >>
vars    == << goal, stage, array, food, gpd, poses, topics, result >>

List(max, S) == UNION {[1 .. n -> S] : n \in 0 .. max}
Values(f) == {f[i] : i \in DOMAIN f}

\* Set as an array in increasing order, as np.nonzero makes it of a mask.
Increasing(S) ==
  {f \in List(N, S) : /\ \A i, j \in DOMAIN f : i < j => f[i] < f[j]
                      /\ Values(f) = S}

Grasp   == [point : Points, facing : Cameras]
Pose    == [grasp : Grasp, stamp : 1 .. MaxGoals]
Message == [points : List(N, Points), stamp : 0 .. MaxGoals]
Request == [goal : 1 .. MaxGoals, cloud : List(N, Points), source : List(N, Cameras),
            samples : List(N, Points)]

Stages == {"idle", "capture", "model", "subtract", "cluster", "count", "publish",
           "crop", "ask", "gpd", "check"}

\* The sets every variable stays in.
TypeOK ==
  /\ goal \in 0 .. MaxGoals
  /\ stage \in Stages
  /\ outcome \in {"none", "no_food", "failed", "grasp"}
  /\ cloud \in List(N, Points) /\ source \in List(N, Cameras)
  /\ food \in List(N, DOMAIN cloud)
  /\ asked \subseteq Request
  /\ answered \in BOOLEAN /\ grasps \in List(MaxGrasps, Grasp)
  /\ poses \in List(MaxGrasps, Pose)
  /\ octomap \in Message
  /\ shown \in List(MaxGrasps, Pose)
  /\ returned \subseteq Pose

Empty == << >>

Init ==
  /\ goal = 0 /\ stage = "idle"
  /\ outcome = "none" /\ returned = {}
  /\ cloud = Empty /\ source = Empty /\ food = Empty
  /\ asked = {} /\ answered = FALSE /\ grasps = Empty
  /\ poses = Empty
  /\ octomap = [points |-> Empty, stamp |-> 0]
  /\ shown = Empty

\* The callback ends, and with it everything it has put together.
End(how) ==
  /\ stage' = "idle" /\ outcome' = how
  /\ cloud' = Empty /\ source' = Empty /\ food' = Empty
  /\ answered' = FALSE /\ grasps' = Empty
  /\ poses' = Empty
  /\ UNCHANGED goal

-----------------------------------------------------------------------------
(* The clouds                                                              *)

Start ==
  /\ stage = "idle" /\ goal < MaxGoals
  /\ goal' = goal + 1
  /\ stage' = "capture"
  /\ outcome' = "none" /\ returned' = {}
  /\ UNCHANGED << array, food, gpd, poses, topics >>

\* The finite points of each cloud, moved into one frame, one cloud after the
\* other; each block of points is marked with its camera.
Merge ==
  /\ stage = "capture"
  /\ \E finite \in SUBSET Points \ {{}} : \E rows \in Increasing(finite) :
       /\ cloud' = rows
       /\ source' = [i \in DOMAIN rows |-> SeenBy[rows[i]]]
  /\ stage' = "model"
  /\ UNCHANGED << goal, food, gpd, poses, topics, result >>

\* The stored clouds of the empty plate, which are there only to be compared.
LoadModel ==
  /\ stage = "model"
  /\ stage' = "subtract"
  /\ UNCHANGED << goal, array, food, gpd, poses, topics, result >>

Fails == End("failed") /\ UNCHANGED << asked, topics, returned >>

\* A camera has been silent, or there is no finite point.
MergeFails == stage = "capture" /\ Fails

\* A stored cloud is missing, not recognizable, or without a finite point.
LoadFails == stage = "model" /\ Fails

\* No transform: between two cameras, or to base_link.
LookUpFails == stage \in {"capture", "model", "subtract"} /\ Fails

-----------------------------------------------------------------------------
(* The food                                                                *)

\* Of every point Open3D keeps, its row in the message.  The message is dense.
OriginalIndices == [i \in DOMAIN cloud |-> i]

\* What is far from the registered model.
Subtract ==
  /\ stage = "subtract"
  /\ \E far \in SUBSET DOMAIN cloud : food' \in Increasing(far)
  /\ stage' = "cluster"
  /\ UNCHANGED << goal, array, gpd, poses, topics, result >>

\* Of the clusters of a valid size in space, the one of most points, the first
\* of two; label -1 is noise.
LargestCluster(labels, valid) ==
  LET Mask(l) == {i \in DOMAIN labels : labels[i] = l}
      Size(l) == Cardinality(Mask(l))
  IN  UNION {Mask(l) : l \in {l \in valid : \A m \in valid :
                                Size(m) < Size(l) \/ (Size(m) = Size(l) /\ l <= m)}}

\* The subtraction may leave nothing to cluster.
Cluster ==
  /\ stage = "cluster"
  /\ \E labels \in [DOMAIN food -> Labels \cup {-1}], valid \in SUBSET Labels :
     \E kept \in Increasing(LargestCluster(labels, valid)) :
       food' = [i \in DOMAIN kept |-> OriginalIndices[food[kept[i]]]]
  /\ stage' = "count"
  /\ UNCHANGED << goal, array, gpd, poses, topics, result >>

Enough == Cardinality(DOMAIN food) >= MinFood

\* RequireFood that goes on without publishing.
RequireFoodOnly ==
  /\ stage = "count" /\ Enough
  /\ stage' = "crop"
  /\ UNCHANGED << goal, array, food, gpd, poses, topics, result >>

RequireFood ==
  /\ stage = "count" /\ Enough
  /\ stage' = "publish"
  /\ UNCHANGED << goal, array, food, gpd, poses, topics, result >>

\* No candidate is left to see.
Clear == shown' = Empty

\* NoFoodDetectedError: the goal succeeds without food, and the candidates of an
\* earlier goal are taken from RViz.
NoFood ==
  /\ stage = "count" /\ ~Enough
  /\ End("no_food")
  /\ Clear
  /\ UNCHANGED << asked, octomap, returned >>

\* A cloud of the points at some indices, of the same frame and stamp.
FoodCloud(points, indices) ==
  [points |-> [i \in DOMAIN indices |-> points[indices[i]]], stamp |-> goal]

PublishFood ==
  /\ stage = "publish"
  /\ octomap' = FoodCloud(cloud, food)
  /\ stage' = "crop"
  /\ UNCHANGED << goal, array, food, gpd, poses, shown, result >>

-----------------------------------------------------------------------------
(* The request                                                             *)

\* Crop without the sources of the points that are kept.
CropCloudOnly ==
  /\ stage = "crop"
  /\ \E near \in {S \in SUBSET DOMAIN cloud : Values(food) \subseteq S} :
     \E kept \in Increasing(near) :
       /\ cloud' = [i \in DOMAIN kept |-> cloud[kept[i]]]
       /\ source' = [i \in DOMAIN kept |-> source[i]]
       /\ food' = [i \in DOMAIN food |-> CHOOSE j \in DOMAIN kept : kept[j] = food[i]]
  /\ stage' = "ask"
  /\ UNCHANGED << goal, gpd, poses, topics, result >>

\* What is near the food, to which the food itself belongs.  The points are
\* renumbered, and the food and the sources with them.
Crop ==
  /\ stage = "crop"
  /\ \E near \in {S \in SUBSET DOMAIN cloud : Values(food) \subseteq S} :
     \E kept \in Increasing(near) :
       /\ cloud' = [i \in DOMAIN kept |-> cloud[kept[i]]]
       /\ source' = [i \in DOMAIN kept |-> source[kept[i]]]
       /\ food' = [i \in DOMAIN food |-> CHOOSE j \in DOMAIN kept : kept[j] = food[i]]
  /\ stage' = "ask"
  /\ UNCHANGED << goal, gpd, poses, topics, result >>

\* The view points are listed as the cameras are, so that a source is a camera.
BuildRequest == [goal |-> goal, cloud |-> cloud, source |-> source, samples |-> food]

\* Every call has a client of its own.
Ask ==
  /\ stage = "ask"
  /\ asked' = asked \cup {BuildRequest}
  /\ stage' = "gpd"
  /\ UNCHANGED << goal, array, food, answered, grasps, poses, topics, result >>

\* Serve that gives its answer to whoever waits for one.
ServeAnyone ==
  \E r \in asked :
    /\ asked' = asked \ {r}
    /\ \E best \in List(MaxGrasps, DOMAIN r.samples) :
         IF stage = "gpd" /\ ~answered
         THEN /\ answered' = TRUE
              /\ grasps' = [k \in DOMAIN best |->
                              [point  |-> r.cloud[r.samples[best[k]]],
                               facing |-> r.source[r.samples[best[k]]]]]
         ELSE UNCHANGED << answered, grasps >>
    /\ UNCHANGED << goal, stage, array, food, poses, topics, result >>

\* handleRequest takes the samples as coordinates, and turns the normals of the
\* surface to the camera that is the source of a point.  It finds any grasps or
\* none, the best first.  A client that has given up is gone.
Serve ==
  \E r \in asked :
    /\ asked' = asked \ {r}
    /\ \E best \in List(MaxGrasps, DOMAIN r.samples) :
         IF stage = "gpd" /\ r.goal = goal
         THEN /\ answered' = TRUE
              /\ grasps' = [k \in DOMAIN best |->
                              [point  |-> r.cloud[r.samples[best[k]]],
                               facing |-> r.source[r.samples[best[k]]]]]
         ELSE UNCHANGED << answered, grasps >>
    /\ UNCHANGED << goal, stage, array, food, poses, topics, result >>

\* There is no server, or no answer in time; the client is destroyed.
GiveUp == stage = "gpd" /\ ~answered /\ Fails

-----------------------------------------------------------------------------
(* The candidates                                                          *)

Top(max, list) == [i \in {j \in DOMAIN list : j <= max} |-> list[i]]

\* Each grasp becomes a pose in base_link, with the stamp of the capture.
Poses == [k \in DOMAIN grasps |-> [grasp |-> grasps[k], stamp |-> goal]]

\* The poses are returned by generate and published.
Convert ==
  /\ stage = "gpd" /\ answered
  /\ poses' = Poses
  /\ shown' = Top(MaxShown, Poses)
  /\ stage' = "check"
  /\ UNCHANGED << goal, array, food, gpd, octomap, result >>

\* first_reachable returns the first candidate the arm can reach.
Return ==
  /\ stage = "check"
  /\ \E i \in DOMAIN Top(MaxChecked, poses) : returned' = {poses[i]}
  /\ End("grasp")
  /\ UNCHANGED << asked, topics >>

\* Physics is not resumed, there is no candidate, none of them can be reached, or
\* the arm does not answer.
CheckFails == stage = "check" /\ Fails

-----------------------------------------------------------------------------

Next ==
  \/ Start \/ Merge \/ LoadModel \/ Subtract \/ Cluster \/ RequireFood \/ NoFood
  \/ PublishFood \/ Crop \/ Ask \/ Serve \/ Convert \/ Return
  \/ MergeFails \/ LoadFails \/ LookUpFails \/ GiveUp \/ CheckFails

Spec == Init /\ [][Next]_vars

-----------------------------------------------------------------------------
(* Properties                                                              *)

\* The points at the food indices, whatever cloud they are indices of.
FoodPoints == {cloud[i] : i \in Values(food)}

\* However often the points were renumbered, the arrays of a request agree: a
\* source for every point and that of its own camera, no point twice, and every
\* sample a point of the cloud, so that neither crop_cloud_around_indices nor
\* build_cloud_indexed nor the server finds an index that is out of range.  The
\* samples of the goal that waits are its food.
ArraysAgree(points, sources, indices) ==
  /\ DOMAIN sources = DOMAIN points
  /\ \A i \in DOMAIN points : sources[i] = SeenBy[points[i]]
  /\ \A i, j \in DOMAIN points : points[i] = points[j] => i = j
  /\ Values(indices) \subseteq DOMAIN points
  /\ \A i, j \in DOMAIN indices : indices[i] = indices[j] => i = j

RequestsAgree ==
  /\ ArraysAgree(cloud, source, food)
  /\ \A r \in asked :
       /\ ArraysAgree(r.cloud, r.source, r.samples)
       /\ r.goal = goal /\ stage = "gpd"
            => {r.cloud[i] : i \in Values(r.samples)} = FoodPoints

\* "Publish before the GPD call, not after", and through all renumbering: what
\* GPD was asked for, what RViz was shown and what was returned is of a goal
\* whose food cloud was published before, and if that is the last one published,
\* GPD was asked for just its points and each candidate is at one of them.  A
\* grasp that is returned is always on the last one.  This is about what the node
\* publishes.  The topic keeps nothing for late listeners, and what the planning
\* scene makes of the clouds it hears, and keeps of earlier ones, is not known.
FoodPublishedFirst ==
  /\ \A r \in asked :
       /\ r.goal <= octomap.stamp
       /\ r.goal = octomap.stamp
            => {r.cloud[i] : i \in Values(r.samples)} = Values(octomap.points)
  /\ \A p \in Values(shown) \cup returned :
       /\ p.stamp <= octomap.stamp
       /\ p.stamp = octomap.stamp => p.grasp.point \in Values(octomap.points)
  /\ \A p \in returned : p.stamp = octomap.stamp

\* The node keeps the promise of FoodGrasps.
Phase ==
  IF stage = "idle" THEN "idle"
  ELSE IF stage \in {"publish", "crop", "ask", "gpd", "check"} THEN "found" ELSE "looking"

Promise == INSTANCE FoodGrasps WITH
  phase <- Phase,
  food  <- IF Phase = "found" THEN FoodPoints ELSE {},
  grasp <- {<< p.grasp.point, p.grasp.facing >> : p \in returned}
GraspsHonest == Promise!Spec
=============================================================================
