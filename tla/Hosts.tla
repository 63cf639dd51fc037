------------------------------- MODULE Hosts -------------------------------
(***************************************************************************)
(* The programs around the library: the command line, or a host that       *)
(* calls it from Python or C.  A process is one of them.                   *)
(***************************************************************************)
EXTENDS CommandLine, Bindings

CONSTANT
  Processes   \* the processes to look at: values of world

(* What the command is given (main.rs): one signal, and any number of them *)
(* in a batch only.  An acknowledge or resolve is sent at once, if at all. *)
ASSUME HostAssumption ==
  /\ Processes \subseteq
       [host : {"cli", "python", "c"},
        command : {"notify", "preview", "lifecycle", "batch", "none"},
        inputs : Seq([is : {"valid", "invalid", "garbled"}, to : {"direct", "grouped", "both"}]),
        config : {"ok", "bad"}, addon : BOOLEAN, hangs : BOOLEAN]
  /\ \A w \in Processes : w.host = "cli" /\ w.command # "batch" =>
       /\ Len(w.inputs) = 1
       /\ w.command = "lifecycle" => w.inputs[1].to = "direct"
  /\ None \notin Threads
  /\ MaxCalls \in Nat

hostVars == <<world, cliVars, bindVars>>

HostInit == world \in Processes /\ CliInit /\ BindInit

Command == world.host = "cli" /\ CliNext /\ UNCHANGED <<world, bindVars>>
Program == world.host # "cli" /\ BindNext /\ UNCHANGED <<world, cliVars>>

HostNext == Command \/ Program

(* A thread that can run does, the interpreter hands its lock on, and an   *)
(* answer or a timeout comes.  Nobody has to make a call.                  *)
HostFairness ==
  /\ \A t \in Threads : WF_hostVars(ThreadSteps(t) /\ UNCHANGED <<world, cliVars>>)
  /\ WF_hostVars(Fetch /\ UNCHANGED <<world, cliVars>>)
  /\ WF_hostVars((\E d \in DOMAIN going : DeliverStep(d)) /\ UNCHANGED <<world, cliVars>>)
  /\ WF_hostVars(FlushEnds /\ UNCHANGED <<world, cliVars>>)

HostSafety == HostInit /\ [][HostNext]_hostVars
HostSpec == HostSafety /\ HostFairness

(* Types of the state: groups share no member, one thread builds the       *)
(* client, and a thread that waits has a delivery under way.               *)
HostTypeOK ==
  /\ world \in Processes
  /\ cli.at \in {"start", "build", "send", "wait", "exited"}
  /\ (code # <<>>) <=> (cli.at = "exited")
  /\ Len(results) <= Len(world.inputs) + Cardinality(tasks)
  /\ \A a, b \in tasks : a # b => a.members \intersect b.members = {}
  /\ cell = "busy" <=> Cardinality({t \in Threads : th[t].at = "load"}) = 1
  /\ \A t \in Threads : th[t].at = "wait" => Of(t) \in DOMAIN going
  /\ ended \in {"no", "flushing", "flushed", "late", "gone"}

(* A program may trust its binding.  The error that is kept for the life   *)
(* of the process (CLIENT, lib.rs:25 of both bindings) is always a real    *)
(* one: the config is bad or its service does not answer, whatever threads *)
(* raced for the first call, and never that the add-on could not be found  *)
(* or could not get the lock.  And flush "waits up to `timeout` seconds    *)
(* for signals sent with notify() to finish delivering ... so a script     *)
(* that ends right after notify() still delivers"                          *)
(* (python/src/lib.rs:415-418): whatever another thread is in the middle   *)
(* of, when flush returns true, all that notify had started before it was  *)
(* called is delivered.  A send of another thread may be under way still.  *)
(* Said of states of the right types.                                      *)
BindingIsTrue ==
  /\ HostTypeOK
  /\ cell = "error" => world.config = "bad" \/ (world.addon /\ world.hangs)
  /\ ended = "flushed" => \A d \in owed : going[d] = "done"
=============================================================================
