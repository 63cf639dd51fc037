---------------------------- MODULE ConfigBuild ----------------------------
(***************************************************************************)
(* From the list of files to a configuration: the walk (Chain), then the   *)
(* merge of what it found (chain.rs's merge, Config::from_layers).         *)
(***************************************************************************)
EXTENDS Chain

VARIABLE
  result   \* what the merge made: [state, ...]

buildVars == <<walkVars, result>>

BuildInit == WalkInit /\ result = [state |-> "none"]

FilesOf(sources) ==
  [i \in DOMAIN sources |-> [name |-> sources[i], layer |-> Holds(sources[i])]]

Walks == WalkNext /\ UNCHANGED result

(* A local file among those that do not fit together makes it fatal.       *)
Merge ==
  LET made == Merged(FilesOf(order)) IN
  /\ walk.end = "done" /\ result.state = "none"
  /\ result' = IF Complaint(made, world.clouds).about = "nothing"
               THEN [state |-> "accepted", made |-> made]
               ELSE [state |-> "refused", complaint |-> Complaint(made, world.clouds),
                     fatal |-> \E s \in Range(order) : ~IsRemote(s)]
  /\ UNCHANGED walkVars

(* The load is over.                                                       *)
Over ==
  /\ walk.end = "failed" \/ result.state # "none"
  /\ UNCHANGED buildVars

BuildNext == Walks \/ Merge \/ Over
BuildSpec == BuildInit /\ [][BuildNext]_buildVars

-----------------------------------------------------------------------------

(* Types of the state.                                                     *)
BuildTypeOK ==
  /\ \A i \in DOMAIN order : Exists(order[i])
  /\ \A i \in DOMAIN stack :
       /\ Exists(stack[i].source)
       /\ Supported(stack[i].source, world.clouds)
  /\ Len(stack) <= MaxDepth
  /\ seen = {Display(order[i]) : i \in DOMAIN order}
  /\ Cardinality(seen) = Len(order)
  /\ walk.end \in {"running", "done", "failed"}
  /\ result.state \in {"none", "accepted", "refused"}

Accepted == result.state = "accepted"

(* "Each parent is merged in before this file, so this file wins"          *)
(* (config.rs:45-46), through any number of files between them and         *)
(* whatever else leads to the parent: of the entries for a provider the    *)
(* one in effect is of a file that none of its descendants overrides, and  *)
(* a file's routes are matched before those of its ancestors.  Wherever    *)
(* the merge puts a route, an error in it names the file and the index     *)
(* that it has there (check_routes), and that route really is bad.         *)
ChildWins ==
  /\ ParentsFirst
  /\ Accepted =>
       LET given(i) == Holds(order[i]).providers
           origins == result.made.origins
       IN /\ \A n \in DOMAIN result.made.providers : \E i \in DOMAIN order :
               /\ n \in DOMAIN given(i) /\ result.made.providers[n] = given(i)[n]
               /\ \A j \in DOMAIN order : i \in Ancestors(j) => n \notin DOMAIN given(j)
          /\ \A i, j \in DOMAIN origins : \A k, l \in DOMAIN order :
               origins[i].file = order[k] /\ origins[j].file = order[l] /\ l \in Ancestors(k) =>
                 i < j
  /\ result.state = "refused" /\ result.complaint.about = "route" =>
       LET at == result.complaint.at
           routes == Holds(at.file).routes
       IN /\ at.file \in Range(order) /\ at.index \in DOMAIN routes
          /\ ~RouteOk(routes[at.index], {"console"} \union
               UNION {DOMAIN Holds(s).providers : s \in Range(order)})

(* A configuration in effect can be used: every provider that a route of   *)
(* any file names has an entry, and the entry that won is complete by      *)
(* itself, never a mixture of two files' keys.  Said of states of the      *)
(* right types.                                                            *)
AcceptedMeansUsable ==
  /\ BuildTypeOK
  /\ Accepted =>
       /\ \A s \in Range(order) : \A i \in DOMAIN Holds(s).routes :
            \A n \in Range(Holds(s).routes[i].providers) :
              n = "console" \/ n \in DOMAIN result.made.providers
       /\ \A n \in DOMAIN result.made.providers :
            /\ \E s \in Range(order) : /\ n \in DOMAIN Holds(s).providers
                                       /\ result.made.providers[n] = Holds(s).providers[n]
            /\ n = "slack" => SlackOk(result.made.providers[n])
            /\ n = "email" => EmailOk(result.made.providers[n], world.clouds)

(* The routes of a configuration share a history (Throttle) exactly if     *)
(* they are the same route: writing a time another way does not lose what  *)
(* was counted, and no two times are written alike (route_key and Window,  *)
(* throttle.rs:217-220, routing.rs:147-199).                               *)
SameRouteSameHistory ==
  Accepted =>
    \A i, j \in DOMAIN result.made.routes :
      LET a == result.made.routes[i]
          b == result.made.routes[j]
          secs == [w \in Windows(a) \union Windows(b) |-> Seconds(w)]
      IN RouteKey(a) = RouteKey(b) <=> Put(a, secs) = Put(b, secs)
=============================================================================
