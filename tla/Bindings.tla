------------------------------ MODULE Bindings ------------------------------
(***************************************************************************)
(* A Python or C program that calls the library (python/src/lib.rs,        *)
(* ffi/src/lib.rs): threads that share one client, built at the first      *)
(* call, and the interpreter's lock, which the add-on packages need on     *)
(* threads of their own while a caller waits for them.                     *)
(*                                                                         *)
(* A thread takes the lock to call and to return; between two steps it     *)
(* either has let go of it or waits with it.  Time is not counted: a wait  *)
(* runs into its timeout only if a service never answers, so a wait that   *)
(* nothing else can end is a call that never returns.                      *)
(***************************************************************************)
EXTENDS Process, Naturals, FiniteSets

CONSTANTS
  Threads,    \* the host's threads
  MaxCalls,   \* bound on the calls of a thread
  None

VARIABLES
  gil,       \* who waits with the interpreter's lock, or None
  cell,      \* CLIENT: "unset", "busy", "ok", "error"
  ready,     \* whether the add-ons are registered
  th,        \* each thread: [at, call, calls]
  helper,    \* the add-on's fetch thread: "none", "attach", "net", "back", "answered", "failed"
  going,     \* the deliveries, by what started them: <<thread, its n-th call, call>> -> where
  owed,      \* the counted ones that had been started when the flush began
  ended      \* "no", "flushing", "flushed", "late", "gone"

bindVars == <<gil, cell, ready, th, helper, going, owed, ended>>

BindInit ==
  /\ gil = None /\ cell = "unset" /\ ready = FALSE
  /\ th = [t \in Threads |-> [at |-> "idle", call |-> None, calls |-> 0]]
  /\ helper = "none" /\ going = <<>> /\ owed = {} /\ ended = "no"

Python == world.host = "python"
GilFree(t) == ~Python \/ gil \in {None, t}

(* Mutants of WhileLoading and WhileWaiting: the lock is kept.             *)
Kept(t) == IF Python THEN t ELSE None

(* py.detach: the thread waits without the lock.                           *)
WhileLoading(t) == None
WhileWaiting(t) == None

At(t, at) == [th EXCEPT ![t].at = at]

(* Mutant of RegisterAddons: only once a client is there.                  *)
RegisterAddonsLate == ready \/ cell = "ok"

(* register_addons, unless there is a client (or its error) already.       *)
RegisterAddons == ready \/ cell \notin {"ok", "error"}

(* notify and send: the input is checked (signal_input, parse_input), and  *)
(* the add-ons are registered, before the thread asks for the client.      *)
Call(t, call) ==
  /\ ended = "no" /\ th[t].at = "idle" /\ th[t].calls < MaxCalls /\ GilFree(t)
  /\ \/ /\ th' = [th EXCEPT ![t] = [at |-> "cell", call |-> call, calls |-> @.calls + 1]]
        /\ ready' = RegisterAddons
        /\ gil' = WhileLoading(t)
     \/ /\ th' = [th EXCEPT ![t].calls = @ + 1]
        /\ UNCHANGED <<ready, gil>>
  /\ UNCHANGED <<cell, helper, going, owed, ended>>

(* Mutant of Load: get, then init; the cell does not wait.                 *)
LoadUnlessSet(t) ==
  /\ th[t].at = "cell" /\ cell \in {"unset", "busy"}
  /\ cell' = "busy" /\ th' = At(t, "load")
  /\ helper' = "answered"
  /\ UNCHANGED <<gil, ready, going, owed, ended>>

(* get_or_init: the first thread builds the client, the others wait.  A    *)
(* config in a cloud is fetched on a thread of its own (fetch_external).   *)
Load(t) ==
  /\ th[t].at = "cell" /\ cell = "unset"
  /\ cell' = "busy" /\ th' = At(t, "load")
  /\ helper' = CASE ~world.addon -> "answered"
                 [] world.addon /\ ready -> "attach"
                 [] world.addon /\ ~ready -> "failed"
  /\ UNCHANGED <<gil, ready, going, owed, ended>>

(* A source that does not answer may leave a cached or a default config to *)
(* start on (ConfigLoad).                                                  *)
Loaded(t) ==
  /\ th[t].at = "load" /\ helper \in {"answered", "failed"}
  /\ \/ cell' = "error" /\ (helper = "failed" \/ world.config = "bad")
     \/ cell' = "ok" /\ (helper = "answered" \/ world.hangs) /\ world.config = "ok"
  /\ th' = At(t, "back")
  /\ UNCHANGED <<gil, ready, helper, going, owed, ended>>

Waited(t) ==
  /\ th[t].at = "cell" /\ cell \in {"ok", "error"}
  /\ th' = At(t, "back")
  /\ UNCHANGED <<gil, cell, ready, helper, going, owed, ended>>

(* AddonFetcher: the add-on is called with the lock, lets go of it while   *)
(* it reads, and needs it again to answer; the reader gives up on one      *)
(* that never does.                                                        *)
Fetch ==
  /\ ended # "gone"
  /\ \/ helper = "attach" /\ gil = None /\ helper' = "net"
     \/ helper = "net" /\ ~world.hangs /\ helper' = "back"
     \/ helper = "back" /\ gil = None /\ helper' = "answered"
     \/ helper = "net" /\ world.hangs /\ helper' = "failed"
  /\ UNCHANGED <<gil, cell, ready, th, going, owed, ended>>

(* The delivery that the call of t starts.                                 *)
Of(t) == <<t, th[t].calls, th[t].call>>

(* The in-flight count holds those of notify_async; send takes no guard,   *)
(* its caller waits for the result.                                        *)
Counted(d) == d[3] = "notify"

(* The thread has its client: an error is raised, each time the same one;  *)
(* notify returns when the signal is recorded, send waits for its result.  *)
Proceed(t) ==
  /\ th[t].at = "back" /\ GilFree(t)
  /\ IF cell = "error"
     THEN /\ th' = [At(t, "idle") EXCEPT ![t].call = None]
          /\ gil' = None /\ going' = going
     ELSE /\ going' = [d \in DOMAIN going \union {Of(t)} |->
                         IF d = Of(t) THEN IF world.addon THEN "attach" ELSE "net"
                         ELSE going[d]]
          /\ IF th[t].call = "notify"
             THEN th' = [At(t, "idle") EXCEPT ![t].call = None] /\ gil' = None
             ELSE th' = At(t, "wait") /\ gil' = WhileWaiting(t)
  /\ UNCHANGED <<cell, ready, helper, owed, ended>>

(* A delivery; through an add-on (AddonSender) it needs the lock as above. *)
(* A service that never answers ends with the send's timeout.              *)
DeliverStep(d) ==
  /\ ended # "gone"
  /\ \/ going[d] = "attach" /\ gil = None /\ going' = [going EXCEPT ![d] = "net"]
     \/ /\ going[d] = "net"
        /\ going' = [going EXCEPT ![d] = IF world.addon /\ ~world.hangs THEN "back" ELSE "done"]
     \/ going[d] = "back" /\ gil = None /\ going' = [going EXCEPT ![d] = "done"]
  /\ UNCHANGED <<gil, cell, ready, th, helper, owed, ended>>

Return(t) ==
  /\ th[t].at = "wait" /\ going[Of(t)] = "done" /\ GilFree(t)
  /\ th' = [At(t, "idle") EXCEPT ![t].call = None] /\ gil' = None
  /\ UNCHANGED <<cell, ready, helper, going, owed, ended>>

(* The host ends: atexit runs flush in Python, a C host calls signal_flush. *)
(* Threads of its own may be in a call still.  Without a client there is   *)
(* nothing to wait for, and a send is left to the thread that waits for it.*)
FlushBegins(t) ==
  /\ ended = "no" /\ th[t].at = "idle" /\ GilFree(t)
  /\ owed' = {d \in DOMAIN going : Counted(d)}
  /\ IF cell = "ok" THEN ended' = "flushing" /\ gil' = WhileWaiting(t)
     ELSE ended' = "flushed" /\ gil' = gil
  /\ UNCHANGED <<cell, ready, th, helper, going>>

(* Mutant of AllDone: a delivery counts from its first step on.            *)
AllDoneOfBegun ==
  \A d \in DOMAIN going : Counted(d) => going[d] \in {"attach", "done"}

(* The count of deliveries under way is zero (closed groups, which it also *)
(* holds, are in Groups).                                                  *)
AllDone == \A d \in DOMAIN going : Counted(d) => going[d] = "done"

(* flush returns: what it counts is delivered, or it waited long enough.   *)
FlushEnds ==
  /\ ended = "flushing"
  /\ \/ AllDone /\ ended' = "flushed"
     \/ world.hangs /\ ended' = "late"
  /\ gil' = None
  /\ UNCHANGED <<cell, ready, th, helper, going, owed>>

(* The process is over, and every thread with it.                          *)
Gone ==
  /\ ended \in {"flushed", "late"} /\ ended' = "gone"
  /\ UNCHANGED <<gil, cell, ready, th, helper, going, owed>>

ThreadSteps(t) ==
  ended # "gone" /\ (Load(t) \/ Loaded(t) \/ Waited(t) \/ Proceed(t) \/ Return(t))

BindNext ==
  \/ \E t \in Threads :
       \/ \E call \in {"notify", "send"} : Call(t, call)
       \/ ThreadSteps(t) \/ FlushBegins(t)
  \/ \E d \in DOMAIN going : DeliverStep(d)
  \/ Fetch \/ FlushEnds \/ Gone

-----------------------------------------------------------------------------

(* Whoever waits, waits without the interpreter's lock, so every call      *)
(* returns: the one that builds the client, those that wait for it, a send *)
(* through an add-on, and the flush at the end (client, send and flush of  *)
(* python/src/lib.rs detach).                                              *)
CallReturns ==
  /\ \A t \in Threads : th[t].at # "idle" ~> (th[t].at = "idle" \/ ended = "gone")
  /\ ended = "flushing" ~> ended # "flushing"
=============================================================================
