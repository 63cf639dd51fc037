----------------------------- MODULE ConfigLoad -----------------------------
(***************************************************************************)
(* Where a client's configuration comes from: the start (load_initial,     *)
(* source.rs), the poll that replaces it (reload.rs), and the cached copy  *)
(* of each remote file, shared by the processes of a host.                 *)
(*                                                                         *)
(* The files 1 .. N are the list in $SIGNAL_CONFIG, lowest priority first: *)
(* loaded, merged and cached in that order, and edited while that happens. *)
(* A text stands for a file's content; `Fits` says which contents merge    *)
(* into a valid config.  `extends` is not unfolded, the cache is on, and   *)
(* the digest of a file's secrets is left out of what a poll compares.     *)
(***************************************************************************)
EXTENDS Naturals, Sequences

CONSTANTS
  Procs,     \* processes that start clients
  N,         \* how many files there are
  Layouts,   \* which of them may be remote, the others being local
  Secret,    \* those that name a secret
  Texts,     \* what a file may contain
  Fits,      \* the contents that from_layers accepts together
  NoCopy,    \* "there is no cached copy"
  NoClient,  \* "there is no client"
  Default    \* the zero-config default

Files == 1 .. N

ASSUME ConfigAssumption ==
  /\ N \in Nat \ {0}
  /\ Layouts \subseteq SUBSET Files /\ Secret \subseteq Files
  /\ Fits \subseteq [Files -> Texts]
  /\ NoCopy \notin Texts
  /\ NoClient \notin Fits /\ Default \notin Fits /\ NoClient # Default

VARIABLES
  remote,     \* the files fetched over the network: never changes
  served,     \* what each source holds now
  down,       \* the files that now cannot be read, or do not parse
  storeDown,  \* whether the secret store cannot be reached now
  cache,      \* the cached copy of each remote file
  stage,      \* where each process is
  got,        \* the texts of the files it has loaded on this walk
  saved,      \* how many of them it is done caching
  config,     \* the texts of the pipeline in effect, also `last_texts`
  torn        \* history: a set of copies was not written or read as a whole

outside == <<remote, served, down, storeDown>>
vars == <<outside, cache, stage, got, saved, config, torn>>

Init ==
  /\ remote \in Layouts
  /\ served \in Fits
  /\ down = {} /\ storeDown = FALSE
  /\ cache = [f \in Files |-> NoCopy]
  /\ stage = [p \in Procs |-> "off"]
  /\ got = [p \in Procs |-> <<>>]
  /\ saved = [p \in Procs |-> 0]
  /\ config = [p \in Procs |-> NoClient]
  /\ torn = FALSE

(* External: a file is edited; a file, the network or the store comes and  *)
(* goes.                                                                   *)
Publish(f) ==
  /\ \E t \in Texts \ {served[f]} : served' = [served EXCEPT ![f] = t]
  /\ UNCHANGED <<remote, down, storeDown, cache, stage, got, saved, config, torn>>

Weather ==
  /\ \/ /\ UNCHANGED storeDown
        /\ \E f \in Files : down' = IF f \in down THEN down \ {f} ELSE down \union {f}
     \/ UNCHANGED down /\ storeDown' = ~storeDown
  /\ UNCHANGED <<remote, served, cache, stage, got, saved, config, torn>>

Go(p, to) ==
  /\ stage' = [stage EXCEPT ![p] = to]
  /\ got' = [got EXCEPT ![p] = <<>>]

Start(p) ==
  /\ stage[p] = "off"
  /\ Go(p, "fresh")
  /\ UNCHANGED <<outside, cache, saved, config, torn>>

(* The ticker of the reloader.                                             *)
Poll(p) ==
  /\ stage[p] = "up"
  /\ Go(p, "polling")
  /\ UNCHANGED <<outside, cache, saved, config, torn>>

Loaded(p) == Len(got[p]) = N
At(p) == Len(got[p]) + 1
Loading(p, stages) == stage[p] \in stages /\ ~Loaded(p)

Fresh(f) == f \notin down
Cached(f) == f \in remote /\ cache[f] # NoCopy

(* Where Walk::load may find file f: `cached` is Mode::CacheOnly, which    *)
(* still reads local files fresh.                                          *)
FromSource(p) == Fresh(At(p)) /\ (stage[p] = "cached" => At(p) \notin remote)
FromCache(p) ==
  /\ Cached(At(p))
  /\ stage[p] = "cached" \/ (stage[p] = "fresh" /\ ~Fresh(At(p)))

(* The text of a file is found, and built with its secrets.  They may be   *)
(* remembered from an earlier read while their store is down.              *)
Load(p) ==
  /\ Loading(p, {"fresh", "cached", "polling"})
  /\ \/ FromSource(p) /\ got' = [got EXCEPT ![p] = Append(@, served[At(p)])]
        /\ UNCHANGED torn
     \/ FromCache(p) /\ got' = [got EXCEPT ![p] = Append(@, cache[At(p)])]
        /\ torn' = (torn \/ \E q \in Procs : stage[q] = "saving")
  /\ UNCHANGED <<outside, cache, stage, saved, config>>

StartOnDefault(p) ==
  /\ Go(p, "up")
  /\ config' = [config EXCEPT ![p] = Default]

(* A walk ends early with an error that is not fatal: a start has a second *)
(* try with the cached copies, then the default; a poll keeps the config.  *)
GiveUp(p) ==
  \/ stage[p] = "fresh" /\ Go(p, "cached") /\ UNCHANGED config
  \/ stage[p] = "cached" /\ StartOnDefault(p)
  \/ stage[p] = "polling" /\ Go(p, "up") /\ UNCHANGED config

Missing(p) == ~FromSource(p) /\ ~FromCache(p)
Fatal(p) == stage[p] = "fresh" /\ At(p) \notin remote

LoadFails(p) ==
  /\ Loading(p, {"fresh", "cached", "polling"})
  /\ \/ Missing(p) /\ ~Fatal(p)
     \/ ~Missing(p) /\ At(p) \in Secret /\ storeDown
  /\ GiveUp(p)
  /\ UNCHANGED <<outside, cache, saved, torn>>

(* A local file that is missing or broken stops the start.                 *)
Refuse(p) ==
  /\ Loading(p, {"fresh"})
  /\ Missing(p) /\ Fatal(p)
  /\ Go(p, "off")
  /\ UNCHANGED <<outside, cache, saved, config, torn>>

Accept(p) ==
  /\ stage' = [stage EXCEPT ![p] = "saving"]
  /\ UNCHANGED got

(* Mutant of MergeFresh: no second try when the files do not fit.          *)
MergeFreshOnce(p) ==
  /\ stage[p] = "fresh" /\ Loaded(p)
  /\ \/ got[p] \in Fits /\ Accept(p) /\ UNCHANGED config
     \/ got[p] \notin Fits /\ StartOnDefault(p)
  /\ UNCHANGED <<outside, cache, saved, torn>>

(* Every file loaded: do they make a config?  If not, that is fatal when   *)
(* one of them is local.                                                   *)
MergeFresh(p) ==
  /\ stage[p] = "fresh" /\ Loaded(p)
  /\ \/ got[p] \in Fits /\ Accept(p)
     \/ got[p] \notin Fits /\ remote # Files /\ Go(p, "off")
     \/ got[p] \notin Fits /\ remote = Files /\ Go(p, "cached")
  /\ UNCHANGED <<outside, cache, saved, config, torn>>

MergeCached(p) ==
  /\ stage[p] = "cached" /\ Loaded(p)
  /\ \/ got[p] \in Fits /\ Accept(p) /\ UNCHANGED config
     \/ got[p] \notin Fits /\ StartOnDefault(p)
  /\ UNCHANGED <<outside, cache, saved, torn>>

(* Mutant of Unchanged: only the file at the end of the list is compared. *)
UnchangedRoot(p) == config[p] # Default /\ got[p][N] = config[p][N]
Unchanged(p) == got[p] = config[p]

(* Mutant of MergePoll: the pipeline is swapped without a check.           *)
MergePollUnchecked(p) ==
  /\ stage[p] = "polling" /\ Loaded(p)
  /\ \/ Unchanged(p) /\ Go(p, "up") /\ UNCHANGED config
     \/ /\ ~Unchanged(p)
        /\ Accept(p)
        /\ config' = [config EXCEPT ![p] = got[p]]
  /\ UNCHANGED <<outside, cache, saved, torn>>

(* Reloader::check after its walk.                                         *)
MergePoll(p) ==
  /\ stage[p] = "polling" /\ Loaded(p)
  /\ \/ /\ Unchanged(p) \/ got[p] \notin Fits
        /\ Go(p, "up") /\ UNCHANGED config
     \/ /\ ~Unchanged(p) /\ got[p] \in Fits
        /\ Accept(p)
        /\ config' = [config EXCEPT ![p] = got[p]]
  /\ UNCHANGED <<outside, cache, saved, torn>>

Disturbed(p) == \E q \in Procs \ {p} : stage[q] \in {"fresh", "cached", "saving"}

(* write_cache of one file: a write and a rename, or a logged error.  A    *)
(* start has its client when the last one is done; a poll has it already.  *)
Save(p) ==
  LET f == saved[p] + 1 IN
  /\ stage[p] = "saving"
  /\ \/ f \in remote /\ cache' = [cache EXCEPT ![f] = got[p][f]]
        /\ torn' = (torn \/ Disturbed(p))
     \/ f \in remote /\ UNCHANGED cache /\ torn' = TRUE
     \/ f \notin remote /\ UNCHANGED <<cache, torn>>
  /\ \/ /\ f < N
        /\ saved' = [saved EXCEPT ![p] = f]
        /\ UNCHANGED <<stage, got, config>>
     \/ /\ f = N
        /\ Go(p, "up")
        /\ saved' = [saved EXCEPT ![p] = 0]
        /\ config' = [config EXCEPT ![p] = got[p]]
  /\ UNCHANGED outside

(* The process exits, or ends: the command line runs one client once.      *)
Exit(p) ==
  /\ stage[p] # "off"
  /\ Go(p, "off")
  /\ config' = [config EXCEPT ![p] = NoClient]
  /\ saved' = [saved EXCEPT ![p] = 0]
  /\ torn' = (torn \/ stage[p] = "saving")
  /\ UNCHANGED <<outside, cache>>

Step(p) ==
  \/ Poll(p) \/ Load(p) \/ LoadFails(p) \/ Refuse(p)
  \/ MergeFresh(p) \/ MergeCached(p) \/ MergePoll(p) \/ Save(p)

Next ==
  \/ \E f \in Files : Publish(f)
  \/ Weather
  \/ \E p \in Procs : Start(p) \/ Step(p) \/ Exit(p)

(* The runtime runs the load and the reloader's task; every fetch answers  *)
(* or times out.                                                           *)
Fairness == \A p \in Procs : WF_vars(Step(p))

Safety == Init /\ [][Next]_vars
Spec == Safety /\ Fairness

-----------------------------------------------------------------------------

(* Types of the state; a pipeline in effect was accepted by the merge.     *)
TypeOK ==
  /\ served \in [Files -> Texts]
  /\ remote \in Layouts /\ down \subseteq Files /\ storeDown \in BOOLEAN
  /\ cache \in [Files -> Texts \union {NoCopy}]
  /\ stage \in [Procs -> {"off", "fresh", "cached", "saving", "up", "polling"}]
  /\ got \in [Procs -> Seq(Texts)] /\ \A p \in Procs : Len(got[p]) <= N
  /\ saved \in [Procs -> 0 .. N - 1]
  /\ config \in [Procs -> Fits \union {NoClient, Default}]
  /\ torn \in BOOLEAN

Complete == \A f \in remote : cache[f] # NoCopy
Matching == \E g \in Fits : \A f \in remote : cache[f] = g[f]
Saving == \E p \in Procs : stage[p] = "saving"

(* As long as copies are written and read as whole sets, the cached copies *)
(* fit together: no mixture a poll read and rejected gets into them, nor a *)
(* start's mixture of fresh files and copies that did not merge.  Said of  *)
(* states of the right types, in which whatever is in effect has merged.   *)
UndisturbedCacheFits ==
  /\ TypeOK
  /\ Complete /\ ~torn /\ ~Saving => Matching

(* ... so that a client then never starts on the default on account of the *)
(* network or of what the sources hold.                                    *)
CacheBeforeDefault ==
  [][\A p \in Procs : config[p] = NoClient /\ config'[p] = Default =>
       ~Complete \/ torn \/ storeDown \/ remote # Files]_vars

(* A client that keeps running comes to use what the sources hold, once    *)
(* they rest, fit together and can be reached, wherever it started from    *)
(* and whatever mixture its polls have read meanwhile.                     *)
CatchesUp ==
  <>[][UNCHANGED served]_served =>
    \A p \in Procs :
      <>[](served \in Fits /\ down = {} /\ ~storeDown /\ stage[p] # "off")
        => <>[](config[p] = served)

=============================================================================
